---------------------------- MODULE QueryProofs ----------------------------
(***************************************************************************)
(* Proofs about the clients of the store and about their queries, for      *)
(* every text, filter, number of hits and contents of the tiers.           *)
(*                                                                         *)
(* Every step of the binding is a step of the store, and one that loses    *)
(* nothing: there are no transactions, and the client rolls back only      *)
(* where RollbackKeeps allows it.  So the view follows the log whatever    *)
(* the client does, overwrites and deletes included, and every behaviour   *)
(* of the binding is one of Collection.                                    *)
(*                                                                         *)
(* A list of hits is an injective function on its places, and what the     *)
(* queries do with lists is proved of the places.  InOrder sorts a finite  *)
(* set because the members below one of them are fewer than those below    *)
(* the next.  With that, each path lists records that match, each once;    *)
(* their fusion lists the ids of all paths, each once; and a hit that      *)
(* every path puts first has the greater sum, so it is ranked first.       *)
(***************************************************************************)
EXTENDS Binding, StoreViewProofs

-----------------------------------------------------------------------------
(* The binding is a use of the store.                                      *)

ClientOK ==
    /\ client \in Clients
    /\ asked \in Metrics \cup {None}
    /\ call \in client.calls \cup {None}
    /\ call # None => taken \in 0..Len(call.items)
    /\ in_tx = FALSE

(* What a call begins with stays in its call.                              *)
LEMMA CallFacts ==
  ASSUME ClientOK, call # None
  PROVE  /\ call \in client.calls /\ call.verb \in {"add", "delete"}
         /\ Len(call.items) \in Nat /\ DOMAIN call.items = 1..Len(call.items)
         /\ call.verb = "add" => \A i \in 1..Len(call.items) : PyItem(call.items[i])
  <1>1. /\ call \in client.calls /\ call.verb \in {"add", "delete"}
        /\ IsSeq(call.items)
        /\ call.verb = "add" => \A i \in DOMAIN call.items : PyItem(call.items[i])
    BY ClientAssumption DEF ClientOK
  <1>2. Len(call.items) \in Nat /\ DOMAIN call.items = 1..Len(call.items)
    BY <1>1 DEF IsSeq
  <1> QED
    BY <1>1, <1>2

LEMMA IdTypes ==
  ASSUME NEW x, NEW id \in ToId(x)
  PROVE  /\ id \in Ids /\ id = x.v /\ ToId(x) = {id}
         /\ IsInt(x) <=> id \in IntIds
         /\ ~IsInt(x) => x.kind = "str"
  BY StoreAssumption DEF ToId, IsInt

LEMMA TakenSteps ==
  ASSUME ClientOK, TakeItem
  PROVE  /\ call # None /\ taken + 1 \in 1..Len(call.items)
         /\ \/ /\ call.verb = "add"
               /\ \E r \in ToRecord(Item) : /\ r.id \in ToId(Item.id) /\ r.id \in Ids
                                            /\ r.dim \in Dims /\ r.val \in Vals
                                            /\ Upsert(r.id, r.dim, r.val)
            \/ /\ call.verb = "delete"
               /\ \E id \in ToId(Item) : id \in Ids /\ Delete(id)
  <1>1. call # None /\ taken # Len(call.items) /\ taken \in 0..Len(call.items)
    BY DEF TakeItem, Running, Exhausted, ClientOK
  <1>2. Len(call.items) \in Nat /\ taken + 1 \in 1..Len(call.items)
    BY <1>1, CallFacts
  <1>3. ASSUME call.verb = "add", NEW r \in ToRecord(Item), Upsert(r.id, r.dim, r.val)
        PROVE  r.id \in ToId(Item.id) /\ r.id \in Ids /\ r.dim \in Dims /\ r.val \in Vals
    <2>1. PyItem(Item)
      BY <1>1, <1>2, <1>3, CallFacts DEF Item
    <2>2. r.dim \in Dims /\ r.val \in Vals
      BY <1>3, <2>1 DEF PyItem
    <2>3. r.id \in ToId(Item.id)
      BY <1>3 DEF ToRecord
    <2> QED
      BY <2>2, <2>3, IdTypes
  <1>4. \A id \in ToId(Item) : id \in Ids
    BY IdTypes
  <1> QED
    BY <1>1, <1>2, <1>3, <1>4 DEF TakeItem

(* The client of the binding has no transaction and keeps what is saved:   *)
(* its steps are steps of the store that lose nothing.                     *)
LEMMA BindingSteps ==
  ASSUME ClientOK, [BindingNext]_bvars
  PROVE  LosesNothing /\ ClientOK'
  <1> DEFINE goal == LosesNothing /\ ClientOK'
             called == /\ asked' \in Metrics \cup {None} /\ client' = client
                       /\ call' \in client.calls \cup {None}
                       /\ call' # None => taken' \in 0..Len(call'.items)
  <1> SUFFICES goal
    OBVIOUS
  <1>1. ASSUME LosesNothing, in_tx' = FALSE, called PROVE goal
    BY <1>1 DEF ClientOK
  <1>2. NoCall => called
    BY DEF NoCall
  <1>3. UNCHANGED <<client, binding>> => called
    BY DEF ClientOK, binding
  <1>4. UNCHANGED vars => LosesNothing /\ in_tx' = FALSE
    BY Zenon DEF LosesNothing, ClientOK, vars, mode
  <1>5. Exit => LosesNothing /\ in_tx' = FALSE
    BY DEF LosesNothing, Exit, NoStore
  <1>6. Commit \/ Checkpoint => LosesNothing /\ in_tx' = FALSE
    BY Zenon DEF LosesNothing, ClientOK, Commit, Checkpoint, mode
  <1> HIDE DEF called
  <1>7. CASE BeginConnect
    <2>1. Open /\ in_tx' = FALSE /\ LosesNothing
      BY <1>7 DEF BeginConnect, Open, LosesNothing
    <2>2. called
      BY <1>7, ClientAssumption DEF BeginConnect, ClientOK, called
    <2> QED
      BY <1>1, <2>1, <2>2
  <1>8. CASE LockMetric
    <2>1. asked \in Metrics /\ SetMetric(asked)
      BY <1>8 DEF LockMetric, ClientOK
    <2>2. LosesNothing /\ in_tx' = FALSE
      BY <2>1, Zenon DEF SetMetric, mode, LosesNothing, ClientOK
    <2>3. called
      BY <1>8 DEF LockMetric, ClientOK, called
    <2> QED
      BY <1>1, <2>2, <2>3
  <1>9. CASE RefuseMetric
    BY <1>1, <1>2, <1>5, <1>9 DEF RefuseMetric
  <1>10. ASSUME NEW c \in client.calls, Begin(c) PROVE goal
    <2>1. called
      <3>1. IsSeq(c.items)
        BY ClientAssumption DEF ClientOK
      <3>2. Len(c.items) \in Nat
        BY <3>1 DEF IsSeq
      <3> QED
        BY <1>10, <3>2 DEF Begin, ClientOK, called
    <2> QED
      BY <1>1, <1>4, <1>10, <2>1 DEF Begin
  <1>11. CASE TakeItem
    <2>1. LosesNothing
      BY <1>11, TakenSteps DEF LosesNothing
    <2>2. in_tx' = FALSE
      BY <1>11, TakenSteps, Zenon DEF Upsert, Delete, mode, ClientOK
    <2>3. called
      <3>1. call # None /\ taken + 1 \in 1..Len(call.items) /\ taken \in 0..Len(call.items)
        BY <1>11, TakenSteps DEF ClientOK
      <3> QED
        BY <1>11, <3>1 DEF TakeItem, ClientOK, called
    <2> QED
      BY <1>1, <2>1, <2>2, <2>3
  <1>12. CASE Raise
    BY <1>1, <1>2, <1>4, <1>12 DEF Raise
  <1>13. CASE Return
    BY <1>1, <1>2, <1>4, <1>6, <1>13 DEF Return
  <1>14. ASSUME UNCHANGED <<client, binding>>,
                \/ Ready /\ Commit
                \/ Ready /\ Checkpoint
                \/ Ready /\ RollbackKeeps /\ Rollback
                \/ Autocommit
                \/ RebuildPublish \/ RebuildGc
                \/ Seal \/ Publish \/ Swap \/ GcSegments
         PROVE  goal
    <2>1. in_tx' = FALSE
      BY <1>14, Zenon DEF Commit, Checkpoint, Rollback, Autocommit, RebuildPublish, RebuildGc,
                          Seal, Publish, Swap, GcSegments, mode, ClientOK
    <2>2. Ready => InUse
      BY DEF Ready, Idle, InUse
    <2>3. LosesNothing
      BY <1>14, <2>1, <2>2 DEF LosesNothing
    <2> QED
      BY <1>1, <1>3, <1>14, <2>1, <2>3
  <1>15. CASE Exit /\ NoCall
    BY <1>1, <1>2, <1>5, <1>15
  <1>16. CASE UNCHANGED bvars
    <2>1. UNCHANGED vars /\ UNCHANGED <<client, binding>>
      BY <1>16 DEF bvars
    <2> QED
      BY <1>1, <1>3, <1>4, <2>1
  <1> HIDE DEF goal
  <1> QED
    BY <1>7, <1>8, <1>9, <1>10, <1>11, <1>12, <1>13, <1>14, <1>15, <1>16 DEF BindingNext

LEMMA BindingInitOK == BindingInit => IInv /\ View /\ ClientOK
  <1> SUFFICES ASSUME BindingInit PROVE IInv /\ View /\ ClientOK
    OBVIOUS
  <1>1. Init /\ ClientOK
    BY DEF BindingInit, Init, ClientOK
  <1> QED
    BY <1>1, InitStep, ViewInit DEF ViewInv

LEMMA BindingStepOK ==
  ASSUME IInv, View, ClientOK, "use_after_drop" \notin Verbs, [BindingNext]_bvars
  PROVE  (IInv /\ View /\ ClientOK)' /\ LosesNothing /\ [Next]_vars
  <1>1. LosesNothing /\ ClientOK'
    BY BindingSteps
  <1>2. [Next]_vars
    BY <1>1, LosingIsAStep
  <1>3. IInv' /\ View'
    BY <1>1, <1>2, NextStep, ViewKept
  <1> QED
    BY <1>1, <1>2, <1>3

LEMMA BindingInvariance ==
  ASSUME "use_after_drop" \notin Verbs
  PROVE  BindingSpec => [](IInv /\ View /\ ClientOK)
  <1> DEFINE inv == IInv /\ View /\ ClientOK
  <1>1. BindingInit => inv
    BY BindingInitOK
  <1>2. inv /\ [BindingNext]_bvars => inv'
    BY BindingStepOK
  <1> HIDE DEF inv
  <1>3. BindingSpec => []inv
    BY <1>1, <1>2, PTL DEF BindingSpec
  <1> QED
    BY <1>3 DEF inv

(* Whatever a client of the binding adds, overwrites, deletes, commits and *)
(* rolls back, and whatever fails, the binding shows the collection that   *)
(* Collection describes: what was committed survives whole, and nothing    *)
(* that was replaced, deleted or rolled back returns.  (PyStore, connect)  *)
THEOREM BindingIsACollection ==
  ASSUME "use_after_drop" \notin Verbs
  PROVE  BindingSpec => ImplementsCollection
  <1> DEFINE inv == IInv /\ View /\ ClientOK
  <1>1. BindingInit => Promise!Init
    BY InitRefines DEF BindingInit
  <1>2. inv /\ [BindingNext]_bvars => [Promise!Next]_Promise!vars
    BY BindingStepOK, StepRefines DEF Refined
  <1>3. BindingSpec => []inv
    BY BindingInvariance
  <1> HIDE DEF inv
  <1> QED
    BY <1>1, <1>2, <1>3, PTL DEF BindingSpec, ImplementsCollection, Promise!Spec

-----------------------------------------------------------------------------
(* Where a record is does not matter.                                      *)

LEMMA SplitMatches ==
  ASSUME NEW es, NEW tier, NEW filter
  PROVE  CandidateOrder(Matching(es \cap tier, filter), Matching(es \ tier, filter))
         = CandidateOrder(Matching({}, filter), Matching(es, filter))
  <1>1. Matching(es \cap tier, filter) \cup Matching(es \ tier, filter)
        = Matching({}, filter) \cup Matching(es, filter)
    BY DEF Matching
  <1> QED
    BY <1>1, Zenon DEF CandidateOrder

LEMMA TiersDoNotShow ==
  ASSUME NEW es, NEW tier, NEW query, NEW filter
  PROVE  BothPaths([view |-> es, sealed |-> es \cap tier, fresh |-> es \ tier], query, filter)
         = BothPaths(OneTier(es), query, filter)
  <1> DEFINE tiered == [view |-> es, sealed |-> es \cap tier, fresh |-> es \ tier]
  <1>1. TextTopK(tiered, query, MaxK, filter) = TextTopK(OneTier(es), query, MaxK, filter)
    BY SplitMatches DEF TextTopK, OneTier
  <1>2. FilteredTopK(tiered.view, MaxK, filter) = FilteredTopK(OneTier(es).view, MaxK, filter)
    BY DEF OneTier
  <1> HIDE DEF tiered
  <1>3. BothPaths(tiered, query, filter) = BothPaths(OneTier(es), query, filter)
    BY <1>1, <1>2, Zenon DEF BothPaths, Paths
  <1> QED
    BY <1>3 DEF tiered

(* Every path of a query has, from segment and L0, the hits, scores and    *)
(* order it would have if the whole log were replayed into one tier, for   *)
(* any records, filters and texts.  (filtered_exact_top_k,                 *)
(* filtered_text_search)                                                   *)
THEOREM TiersNeverShow ==
  ASSUME "use_after_drop" \notin Verbs
  PROVE  BindingSpec => []AnswersIgnoreTiers
  <1>1. IInv /\ View /\ ClientOK => AnswersIgnoreTiers
    <2> SUFFICES ASSUME IInv, View, Ready PROVE SameAnswers(Corpus, OneTier(Live(Replay(file, Len(file), 0))), Filters)
      BY DEF AnswersIgnoreTiers
    <2> DEFINE es == Merged(seg, l0)
    <2>1. InUse /\ pc = "idle"
      BY DEF Ready, Idle, InUse
    <2>2. Live(Replay(file, Len(file), 0)) = es
      BY <2>1, ViewNow
    <2>3. TextCandidates = es
      BY <2>1, ReadsOneAnswer DEF ReadPathsAgree
    <2> DEFINE tiered == [view |-> es, sealed |-> es \cap seg, fresh |-> es \ seg]
    <2>4. Corpus = tiered
      BY <2>3 DEF Corpus, CorpusOf
    <2>5. ASSUME NEW filter, NEW query
          PROVE  BothPaths(Corpus, query, filter)
                 = BothPaths(OneTier(Live(Replay(file, Len(file), 0))), query, filter)
      <3>1. BothPaths(tiered, query, filter) = BothPaths(OneTier(es), query, filter)
        BY TiersDoNotShow
      <3> HIDE DEF es, tiered
      <3> QED
        BY <2>2, <2>4, <3>1
    <2> QED
      BY <2>5, Zenon DEF SameAnswers
  <1> QED
    BY <1>1, BindingInvariance, PTL
-----------------------------------------------------------------------------
(* Batches.                                                                *)

(* The value of a python number survives to_meta_value and from_meta_value *)
LEMMA MetaRoundTrip ==
  ASSUME NEW y, PyValue(y), NEW x \in ToMeta(y)
  PROVE  PyEqual(FromMeta(x), y)
  <1>1. CASE IsInt(y) /\ y.v \in Int64
    <2>1. x = IntOf(y.v)
      BY <1>1 DEF ToMeta
    <2>2. FromMeta(x) = [kind |-> "int", v |-> y.v]
      BY <2>1 DEF FromMeta, IntOf
    <2>3. IsInt(FromMeta(x)) /\ PyNumber(FromMeta(x)) = 2 * y.v
      BY <1>1, <2>2 DEF IsInt, PyNumber
    <2>4. PyNumber(y) = 2 * y.v
      BY <1>1 DEF IsInt, PyNumber
    <2> QED
      BY <1>1, <2>3, <2>4 DEF PyEqual
  <1>2. CASE IsInt(y) /\ y.v \notin Int64
    <2>1. x = FloatOf(Nearest(2 * y.v))
      BY <1>2 DEF ToMeta
    <2>2. FromMeta(x) = [kind |-> "float", v |-> Nearest(2 * y.v)]
      BY <2>1 DEF FromMeta, FloatOf
    <2>3. FromMeta(x).kind = "float" /\ PyNumber(FromMeta(x)) = Nearest(2 * y.v)
      BY <2>2 DEF PyNumber
    <2>4. PyNumber(y) = Nearest(2 * y.v)
      BY <1>2 DEF IsInt, PyNumber
    <2> QED
      BY <1>2, <2>3, <2>4 DEF PyEqual
  <1>3. CASE ~IsInt(y) /\ y.kind = "float"
    <2>1. x = FloatOf(y.v)
      BY <1>3 DEF ToMeta
    <2>2. FromMeta(x) = [kind |-> "float", v |-> y.v]
      BY <2>1 DEF FromMeta, FloatOf
    <2> QED
      BY <1>3, <2>2 DEF PyEqual, PyNumber
  <1>4. CASE y.kind = "nan"
    <2>1. x = NaN
      BY <1>4 DEF ToMeta, IsInt
    <2>2. FromMeta(x) = y
      BY <1>4, <2>1 DEF FromMeta, NaN, PyValue
    <2> QED
      BY <1>4, <2>2 DEF PyEqual, IsInt
  <1>5. CASE ~IsInt(y) /\ y.kind \notin {"float", "nan"}
    <2>1. x = y /\ y.kind \in {"str", "bytes"}
      BY <1>5 DEF ToMeta
    <2>2. FromMeta(x) = y
      BY <2>1 DEF FromMeta, PyValue
    <2> QED
      BY <1>5, <2>2 DEF PyEqual
  <1> QED
    BY <1>1, <1>2, <1>3, <1>4, <1>5

LEMMA IdRoundTrip ==
  ASSUME NEW x, PyValue(x), NEW id \in ToId(x)
  PROVE  PyEqual(FromId(id), x)
  <1>1. id = x.v /\ (IsInt(x) <=> id \in IntIds) /\ (~IsInt(x) => x.kind = "str")
    BY IdTypes
  <1>2. CASE IsInt(x)
    <2>1. FromId(id) = [kind |-> "int", v |-> x.v]
      BY <1>1, <1>2 DEF FromId
    <2>2. IsInt(FromId(id)) /\ PyNumber(FromId(id)) = PyNumber(x)
      BY <1>2, <2>1 DEF IsInt, PyNumber
    <2> QED
      BY <1>2, <2>2 DEF PyEqual
  <1>3. CASE ~IsInt(x)
    <2>1. FromId(id) = x
      BY <1>1, <1>3 DEF FromId, PyValue
    <2> QED
      BY <1>1, <1>3, <2>1 DEF PyEqual
  <1> QED
    BY <1>2, <1>3

(* What get shows of a record is the item it came from.                    *)
LEMMA DictIsItem ==
  ASSUME NEW item, PyItem(item), NEW r \in ToRecord(item), NEW e,
         e.rec = LiveRecord(r.id, r.dim, r.val)
  PROVE  SameDict(RecordDict(e), item)
  <1> DEFINE d == RecordDict(e)
             metas == UNION {{<<p[1], x>> : x \in ToMeta(p[2])} : p \in item.meta}
             shown == {<<p[1], FromMeta(p[2])>> : p \in r.val.meta}
  <1>1. /\ \A p \in item.meta : ToMeta(p[2]) # {}
        /\ r.id \in ToId(item.id)
        /\ r.val = [score |-> item.score, text |-> item.text, meta |-> metas]
    <2>1. ToRecord(item) # {}
      OBVIOUS
    <2>2. \A p \in item.meta : ToMeta(p[2]) # {}
      BY <2>1 DEF ToRecord
    <2>3. ToRecord(item) =
            {[id |-> id, dim |-> item.dim,
              val |-> [score |-> item.score, text |-> item.text, meta |-> metas]] :
                id \in ToId(item.id)}
      BY <2>2, Zenon DEF ToRecord
    <2> HIDE DEF metas
    <2> QED
      BY <2>2, <2>3
  <1>2. e.rec.id = r.id /\ e.rec.val = r.val
    BY DEF LiveRecord
  <1>3. /\ d.id = FromId(r.id) /\ d.score = item.score /\ d.text = item.text
        /\ d.meta = shown
    <2>1. d = [id |-> FromId(r.id), score |-> r.val.score, text |-> r.val.text, meta |-> shown]
      BY <1>2, Zenon DEF RecordDict, Score
    <2> HIDE DEF d, shown, metas
    <2> QED
      BY <1>1, <2>1
  <1>4. \A p : p \in r.val.meta <=> \E q \in item.meta : \E x \in ToMeta(q[2]) : p = <<q[1], x>>
    BY <1>1
  <1> HIDE DEF d, metas
  <1>5. PyEqual(d.id, item.id)
    BY <1>1, <1>3, IdRoundTrip DEF PyItem
  <1>6. ASSUME NEW p \in d.meta
        PROVE  \E q \in item.meta : p[1] = q[1] /\ PyEqual(p[2], q[2])
    <2>1. PICK q \in item.meta : \E x \in ToMeta(q[2]) : p = <<q[1], FromMeta(x)>>
      BY <1>3, <1>4
    <2>2. \A x \in ToMeta(q[2]) : PyEqual(FromMeta(x), q[2])
      BY MetaRoundTrip DEF PyItem
    <2> QED
      BY <2>1, <2>2
  <1>7. {p[1] : p \in d.meta} = {q[1] : q \in item.meta}
    <2>1. ASSUME NEW q \in item.meta
          PROVE  \E p \in d.meta : p[1] = q[1]
      <3>1. PICK x : x \in ToMeta(q[2])
        BY <1>1
      <3>2. <<q[1], x>> \in r.val.meta
        BY <1>4, <3>1
      <3>3. <<q[1], FromMeta(x)>> \in d.meta
        BY <1>3, <3>2
      <3> QED
        BY <3>3
    <2> QED
      BY <1>6, <2>1
  <1> QED
    BY <1>3, <1>5, <1>6, <1>7 DEF SameDict, d
(* What get finds after a write.                                           *)
LEMMA GetAfterWrite ==
  ASSUME NEW q, NEW r, l0' = Applied(l0, q, r), seg' = seg
  PROVE  /\ Get(r.id)' = IF r.life = "live" THEN {[seq |-> q, rec |-> r]} ELSE {}
         /\ \A id : id # r.id => Get(id)' = Get(id)
  <1> DEFINE new == [seq |-> q, rec |-> r]
  <1>1. \A e : e \in l0' <=> e = new \/ (e \in l0 /\ e.rec.id # r.id)
    BY DEF Applied
  <1>2. new.rec = r
    OBVIOUS
  <1> HIDE DEF new
  <1>3. Get(r.id)' = IF r.life = "live" THEN {new} ELSE {}
    <2>1. CASE r.life = "live"
      BY <1>1, <1>2, <2>1 DEF Get, IsLive, Live
    <2>2. CASE r.life # "live"
      BY <1>1, <1>2, <2>2 DEF Get, IsLive, Live
    <2> QED
      BY <2>1, <2>2
  <1>4. ASSUME NEW id, id # r.id
        PROVE  Get(id)' = Get(id)
    <2>1. \A e : e.rec.id = id => (e \in l0' <=> e \in l0)
      BY <1>1, <1>2, <1>4
    <2> QED
      BY <2>1 DEF Get, IsLive, Live
  <1> QED
    BY <1>3, <1>4 DEF new

LEMMA ShownIs ==
  /\ \A id : Shown(id) = {RecordDict(e) : e \in Get(id)}
  /\ \A id : Shown(id)' = {RecordDict(e) : e \in Get(id)'}
  BY DEF Shown

LEMMA ShownStays ==
  ASSUME l0' = l0, seg' = seg
  PROVE  \A id : Shown(id)' = Shown(id)
  BY DEF Shown, Get, IsLive

(* While a call lasts, the store shows the items it has taken.             *)
CallShows ==
    call # None =>
        /\ pc \in {"idle", "ack"}
        /\ \A id \in Ids : ShowsLastOf(Shown(id), id)

LEMMA ShowsNext ==
  ASSUME call' = call, before' = before, NEW id
  PROVE  ShowsLastOf(Shown(id), id)'
         <=> ShowsLast(Shown(id)', id, {i \in 1..taken' : Writes(i, id)})
  BY DEF ShowsLastOf, ShowsLast, Writes

LEMMA CallShowsStays ==
  ASSUME CallShows, l0' = l0, seg' = seg, call' = call, before' = before, taken' = taken,
         call # None => pc' \in {"idle", "ack"}
  PROVE  CallShows'
  BY ShownStays, ShowsNext DEF CallShows, ShowsLastOf
(* An item that the store has applied is the last write of its id.         *)
LEMMA TakeShows ==
  ASSUME IInv, ClientOK, CallShows, TakeItem
  PROVE  CallShows'
  <1> DEFINE n == taken + 1
  <1>1. /\ call # None /\ n \in 1..Len(call.items) /\ taken \in Nat /\ n \in Nat
        /\ LogOK /\ TiersOK /\ ScalarsOK /\ ~fenced
    <2>1. call # None /\ n \in 1..Len(call.items)
      BY TakenSteps
    <2>2. Len(call.items) \in Nat /\ taken \in 0..Len(call.items)
      BY <2>1, CallFacts DEF ClientOK
    <2>3. ~fenced
      BY DEF TakeItem, Running, Idle
    <2> QED
      BY <2>1, <2>2, <2>3 DEF IInv
  <1>2. call' = call /\ before' = before /\ taken' = IF fenced' THEN taken ELSE n
    BY DEF TakeItem
  <1>3. ASSUME NEW r \in Records, AppendRec(r), seg' = seg,
               \A id : Writes(n, id) <=> id = r.id,
               \/ /\ call.verb = "add" /\ r.life = "live"
                  /\ \A e : e.rec = r => SameDict(RecordDict(e), call.items[n])
               \/ call.verb = "delete" /\ r.life # "live"
        PROVE  CallShows'
    <2>1. pc' \in {"idle", "ack"}
      BY <1>1, <1>3 DEF AppendRec, AfterMutation, CallShows
    <2>2. CASE W!AppendFail /\ UNCHANGED <<l0, pc>>
      <3>1. fenced'
        BY <1>1, <2>2, FailFacts
      <3> QED
        BY <1>2, <1>3, <2>1, <2>2, <3>1, CallShowsStays
    <2>3. CASE W!AppendRecord(r) /\ l0' = Applied(l0, next_seq, r)
      <3>1. taken' = n
        <4>1. ~fenced'
          BY <1>1, <1>3, <2>3, AppendFacts
        <4> QED
          BY <1>2, <4>1, Zenon
      <3> DEFINE now(id) == {i \in 1..taken : Writes(i, id)}
                 then(id) == {i \in 1..n : Writes(i, id)}
      <3>2. ASSUME NEW id \in Ids
            PROVE  ShowsLast(Shown(id)', id, then(id))
        <4>1. CASE id = r.id
          <5>1. n \in then(id) /\ \A j \in then(id) : j <= n
            BY <1>1, <1>3, <4>1
          <5>2. Get(id)' = IF r.life = "live" THEN {[seq |-> next_seq, rec |-> r]} ELSE {}
            BY <1>3, <2>3, <4>1, GetAfterWrite
          <5> HIDE DEF then, n
          <5>3. CASE call.verb = "add" /\ r.life = "live"
            <6> DEFINE e == [seq |-> next_seq, rec |-> r]
            <6>1. e.rec = r
              OBVIOUS
            <6>2. Shown(id)' = {RecordDict(e)}
              BY <5>2, <5>3, ShownIs
            <6> HIDE DEF e
            <6>3. SameDict(RecordDict(e), call.items[n])
              BY <1>3, <5>3, <6>1
            <6> QED
              BY <5>1, <5>3, <6>2, <6>3 DEF ShowsLast
          <5>4. CASE call.verb = "delete" /\ r.life # "live"
            <6>1. Shown(id)' = {}
              BY <5>2, <5>4, ShownIs
            <6> QED
              BY <5>1, <5>4, <6>1 DEF ShowsLast
          <5> QED
            BY <1>3, <5>3, <5>4
        <4>2. CASE id # r.id
          <5>1. then(id) = now(id)
            BY <1>1, <1>3, <4>2
          <5>2. Shown(id)' = Shown(id)
            BY <1>3, <2>3, <4>2, GetAfterWrite, ShownIs
          <5>3. ShowsLast(Shown(id), id, now(id))
            BY <1>1 DEF CallShows, ShowsLastOf
          <5> QED
            BY <5>1, <5>2, <5>3
        <4> QED
          BY <4>1, <4>2
      <3> QED
        BY <1>2, <2>1, <3>1, <3>2, ShowsNext DEF CallShows
    <2> QED
      BY <1>3, <2>2, <2>3 DEF AppendRec
  <1> HIDE DEF n
  <1>4. CASE call.verb = "add" /\ \E r \in ToRecord(Item) :
               /\ r.id \in ToId(Item.id) /\ r.id \in Ids /\ r.dim \in Dims /\ r.val \in Vals
               /\ Upsert(r.id, r.dim, r.val)
    <2>1. PICK r \in ToRecord(Item) :
               /\ r.id \in ToId(Item.id) /\ r.id \in Ids /\ r.dim \in Dims /\ r.val \in Vals
               /\ Upsert(r.id, r.dim, r.val)
      BY <1>4
    <2> DEFINE rec == LiveRecord(r.id, r.dim, r.val)
    <2>2. rec \in Records /\ rec.id = r.id /\ rec.life = "live"
      BY <2>1 DEF LiveRecord, Records, Record
    <2>3. AppendRec(rec) /\ seg' = seg
      BY <2>1 DEF Upsert, LiveRecord
    <2>4. Item = call.items[n] /\ PyItem(Item)
      BY <1>1, <1>4, CallFacts DEF Item, n
    <2>5. \A id : Writes(n, id) <=> id = rec.id
      BY <1>4, <2>1, <2>2, <2>4, IdTypes DEF Writes
    <2>6. \A e : e.rec = rec => SameDict(RecordDict(e), Item)
      BY <2>4, DictIsItem
    <2> HIDE DEF rec
    <2> QED
      BY <1>3, <1>4, <2>2, <2>3, <2>4, <2>5, <2>6
  <1>5. CASE call.verb = "delete" /\ \E id \in ToId(Item) : id \in Ids /\ Delete(id)
    <2>1. PICK id \in ToId(Item) : id \in Ids /\ Delete(id)
      BY <1>5
    <2> DEFINE rec == Gravestone(id)
    <2>2. dim \in Dims
      <3>1. seg # {} \/ l0 # {}
        BY <2>1 DEF Delete, IsLive
      <3> QED
        BY <1>1, <3>1 DEF TiersOK, ScalarsOK
    <2>3. rec \in Records /\ rec.id = id /\ rec.life # "live"
      BY <2>1, <2>2 DEF Gravestone, Records, Tombstone
    <2>4. AppendRec(rec) /\ seg' = seg
      BY <2>1 DEF Delete, Gravestone
    <2>5. \A x : Writes(n, x) <=> x = rec.id
      BY <1>5, <2>1, <2>3, IdTypes DEF Writes, Item, n
    <2> HIDE DEF rec
    <2> QED
      BY <1>3, <1>5, <2>3, <2>4, <2>5
  <1> QED
    BY <1>4, <1>5, TakenSteps
LEMMA CallShowsStep ==
  ASSUME IInv, ClientOK, CallShows, [BindingNext]_bvars
  PROVE  CallShows'
  <1>1. ASSUME call' = None PROVE CallShows'
    BY <1>1 DEF CallShows
  <1>2. ASSUME UNCHANGED <<client, binding>>, call = None PROVE CallShows'
    BY <1>1, <1>2 DEF binding
  <1>3. CASE BeginConnect
    <2>1. pc = "down" /\ call' = call
      BY <1>3 DEF BeginConnect, Open
    <2> QED
      BY <1>1, <2>1 DEF CallShows
  <1>4. CASE LockMetric
    <2>1. l0' = l0 /\ seg' = seg /\ call' = call /\ before' = before /\ taken' = taken /\ pc' = pc
      BY <1>4 DEF LockMetric, SetMetric, tiers
    <2> QED
      BY <2>1, CallShowsStays DEF CallShows
  <1>5. CASE RefuseMetric \/ Raise \/ Return \/ (Exit /\ NoCall)
    <2>1. call' = None
      BY <1>5 DEF RefuseMetric, Raise, Return, NoCall
    <2> QED
      BY <1>1, <2>1
  <1>6. ASSUME NEW c \in client.calls, Begin(c) PROVE CallShows'
    <2>1. /\ taken' = 0 /\ before' = [id \in Ids |-> Shown(id)]
          /\ l0' = l0 /\ seg' = seg /\ pc' = "idle"
      BY <1>6 DEF Begin, Ready, Idle, vars, tiers
    <2>2. ASSUME NEW id \in Ids PROVE ShowsLastOf(Shown(id), id)'
      <3>1. Shown(id)' = before'[id]
        BY <2>1, ShownStays
      <3>2. \A i : i \notin 1..taken'
        BY <2>1
      <3> QED
        BY <3>1, <3>2 DEF ShowsLastOf, ShowsLast
    <2> QED
      BY <2>1, <2>2 DEF CallShows
  <1>7. CASE TakeItem
    BY <1>7, TakeShows
  <1>8. CASE Autocommit /\ UNCHANGED <<client, binding>>
    <2>1. l0' = l0 /\ seg' = seg /\ call' = call /\ before' = before /\ taken' = taken /\ pc' = "idle"
      BY <1>8 DEF Autocommit, tiers, binding
    <2> QED
      BY <2>1, CallShowsStays
  <1>9. ASSUME UNCHANGED <<client, binding>>,
               \/ Ready /\ Commit
               \/ Ready /\ Checkpoint
               \/ Ready /\ RollbackKeeps /\ Rollback
               \/ RebuildPublish \/ RebuildGc
               \/ Seal \/ Publish \/ Swap \/ GcSegments
        PROVE  CallShows'
    <2>1. call = None
      BY <1>9 DEF Ready, RebuildPublish, RebuildGc, Seal, Publish, Swap, GcSegments, CallShows
    <2> QED
      BY <1>2, <1>9, <2>1
  <1>10. CASE UNCHANGED bvars
    <2>1. l0' = l0 /\ seg' = seg /\ call' = call /\ before' = before /\ taken' = taken /\ pc' = pc
      BY <1>10 DEF bvars, vars, tiers, binding
    <2> QED
      BY <2>1, CallShowsStays DEF CallShows
  <1> QED
    BY <1>3, <1>4, <1>5, <1>6, <1>7, <1>8, <1>9, <1>10 DEF BindingNext

(* Every batch is applied item by item, the last write of an id wins, and  *)
(* a call that raises leaves exactly the items before the one at fault:    *)
(* after any call get shows what the client gave in, for any batches,      *)
(* failures of the disk included.  (PyStore::add, PyStore::delete)         *)
THEOREM BatchesApplyPrefix ==
  ASSUME "use_after_drop" \notin Verbs
  PROVE  BindingSpec => BatchAppliesPrefix
  <1> DEFINE inv == IInv /\ View /\ ClientOK /\ CallShows
             applied == CallEnds => \A id \in Ids : ShowsLastOf(Shown(id)', id)
  <1>1. BindingInit => inv
    BY BindingInitOK DEF BindingInit, CallShows
  <1>2. inv /\ [BindingNext]_bvars => inv'
    BY BindingStepOK, CallShowsStep
  <1>3. inv /\ [BindingNext]_bvars => [applied]_bvars
    <2> SUFFICES ASSUME inv, BindingNext, call # None, call' = None, up'
                 PROVE  \A id \in Ids : ShowsLastOf(Shown(id)', id)
      BY DEF CallEnds
    <2>1. ~Exit
      BY ExitFacts DEF IInv, Exit
    <2>2. \A c \in client.calls : ~Begin(c)
      BY DEF Begin, Ready
    <2>3. ~(BeginConnect \/ LockMetric \/ TakeItem \/ UNCHANGED <<client, binding>>)
      BY DEF BeginConnect, LockMetric, TakeItem, binding
    <2>4. Raise \/ Return
      BY <2>1, <2>2, <2>3 DEF BindingNext, RefuseMetric
    <2>5. l0' = l0 /\ seg' = seg
      BY <2>4 DEF Raise, Return, Commit, vars, tiers
    <2> QED
      BY <2>5, ShownStays DEF CallShows
  <1> HIDE DEF inv
  <1> QED
    BY <1>1, <1>2, <1>3, PTL DEF BindingSpec, BatchAppliesPrefix

-----------------------------------------------------------------------------
(* The metric of a published manifest.                                     *)

MetricKept ==
    /\ pc = "rebuild_publish" => manifest = None
    /\ manifest # None /\ manifest.metric # None /\ pc # "down" => metric = manifest.metric

(* Without the loss of a file an open honours the manifest it finds.       *)
LEMMA OpenKeepsMetric ==
  ASSUME IInv, Open, "loss" \notin Faults
  PROVE  MetricKept' /\ manifest' = manifest
  <1>1. LogOK /\ ManifestOK /\ manifest' = manifest
    BY DEF IInv, Open, disk
  <1>2. PICK readable \in Readability(manifest, segfiles) :
          LET r == Recovery(file', Len(file'), manifest, readable)
          IN  /\ metric' = r.metric
              /\ pc' = (IF r.rebuilt THEN "rebuild_publish" ELSE "idle")
    BY DEF Open
  <1> DEFINE ok == Honoured(file', Len(file'), manifest, readable)
  <1>3. /\ metric' = (IF ok THEN manifest.metric ELSE None)
        /\ pc' = (IF ~ok THEN "rebuild_publish" ELSE "idle")
    BY <1>2 DEF Recovery
  <1>4. manifest # None => ok
    <2> SUFFICES ASSUME manifest # None PROVE ok
      OBVIOUS
    <2>1. readable = TRUE
      BY <1>1, <1>2 DEF Readability, ManifestOK
    <2>2. LogOK' /\ L!AckedKept /\ EndsInBarrier(file') /\ acked' = acked
      BY <1>1, OpenFacts DEF Open
    <2>3. manifest.checkpoint_seq \in Nat /\ manifest.checkpoint_seq <= AckedSeq
          /\ AckedSeq \in Nat /\ AckedSeq' \in Nat /\ AckedSeq <= AckedSeq'
      BY <1>1, <2>2, AckedSeqGrows DEF ManifestOK
    <2>4. LogTyped' /\ L!Rising(file')
      <3>1. LogTyped'
        BY <2>2, LogTypes, PTL
      <3>2. L!Rising(file')
        BY <2>2 DEF LogOK, L!IInv
      <3> QED
        BY <3>1, <3>2
    <2>5. AckedSeq' <= SeqAt(file', Len(file')) /\ SeqAt(file', Len(file')) \in Nat
      <3>1. \A i \in 1..Len(file') : file'[i].seq \in Nat
        <4>1. \A i \in 1..Len(file') : file'[i] \in L!Frame
          BY <2>4 DEF LogTyped
        <4> QED
          BY <4>1, LogAssumption, L!FrameTypes
      <3>2. CASE acked' = 0
        BY <2>4, <3>1, <3>2 DEF AckedSeq, SeqAt, LogTyped
      <3>3. CASE acked' > 0
        <4>1. acked' \in 1..Len(file') /\ Len(file') \in Nat /\ file'[Len(file')].kind = "Commit"
          BY <2>2, <2>4, <3>3 DEF LogTyped, EndsInBarrier
        <4>2. acked' < Len(file') => file'[acked'].seq < file'[Len(file')].seq
          BY <2>4, <4>1 DEF L!Rising
        <4> QED
          BY <3>1, <3>3, <4>1, <4>2 DEF AckedSeq, SeqAt
      <3> QED
        BY <2>4, <3>2, <3>3 DEF LogTyped
    <2> QED
      BY <2>1, <2>3, <2>5 DEF Honoured
  <1> HIDE DEF ok
  <1> QED
    BY <1>1, <1>3, <1>4 DEF MetricKept

LEMMA PublishKeepsMetric ==
  ASSUME IInv, MetricKept, Publish
  PROVE  /\ MetricKept'
         /\ manifest # None /\ manifest.metric # None =>
               manifest' # None /\ manifest'.metric = manifest.metric
  <1> DEFINE m == ManifestOf(CoveredSeq, {Sealed})
  <1>1. /\ LogOK /\ ScalarsOK /\ FilesOK /\ CallOK /\ pc = "publish" /\ pc' \in {"swap", "idle"}
        /\ manifest' \in {manifest, m} /\ metric' = metric
    BY DEF IInv, Publish
  <1>2. m.metric = metric
    BY DEF ManifestOf
  <1>3. m # None
    <2>1. Sealed \in segfiles /\ committed_seq \in Nat
      BY <1>1, LogTypes DEF CallOK, LogTyped
    <2>2. Sealed \in Segment
      BY <1>1, <2>1 DEF FilesOK, Sealable, Sealed, Segment
    <2>3. m \in Manifest
      BY <1>1, <2>1, <2>2 DEF ManifestOf, CoveredSeq, Manifest, ScalarsOK
    <2> QED
      BY <2>3, ManifestAssumption
  <1> HIDE DEF m
  <1> QED
    BY <1>1, <1>2, <1>3 DEF MetricKept

LEMMA MetricStep ==
  ASSUME IInv, MetricKept, "loss" \notin Faults, [Next]_vars
  PROVE  /\ MetricKept'
         /\ manifest # None /\ manifest.metric # None =>
               manifest' # None /\ manifest'.metric = manifest.metric
  <1> DEFINE goal == /\ MetricKept'
                     /\ manifest # None /\ manifest.metric # None =>
                           manifest' # None /\ manifest'.metric = manifest.metric
  <1> SUFFICES goal
    OBVIOUS
  <1>1. ASSUME manifest' = manifest, metric' = metric, pc' # "rebuild_publish" \/ pc' = pc,
               pc' # "down" => pc # "down"
        PROVE  goal
    BY <1>1 DEF MetricKept
  <1>2. ASSUME manifest' = manifest, pc' = "down" PROVE goal
    BY <1>2 DEF MetricKept
  <1>3. CASE Open
    BY <1>3, OpenKeepsMetric
  <1>4. CASE Publish
    BY <1>4, PublishKeepsMetric
  <1>5. CASE RebuildPublish
    BY <1>5 DEF RebuildPublish, ManifestOf, MetricKept
  <1>6. CASE RebuildFail
    <2>1. manifest' = manifest \/ manifest = None
      BY <1>6 DEF RebuildFail, MetricKept
    <2>2. pc' = "down"
      BY <1>6 DEF RebuildFail, NoStore
    <2> QED
      BY <2>1, <2>2 DEF MetricKept
  <1>7. ASSUME NEW m \in Metrics, SetMetric(m) PROVE goal
    <2>1. manifest' = manifest /\ pc' = pc /\ metric \in {None, m} /\ metric' = m
      BY <1>7 DEF SetMetric, disk
    <2> QED
      BY <2>1 DEF MetricKept
  <1>8. CASE OpenFail \/ OpenRefused
    BY <1>1, <1>8 DEF OpenFail, OpenRefused, disk
  <1>9. CASE RebuildGc \/ Autocommit \/ Commit \/ Transaction \/ CommitTx
    BY <1>1, <1>9 DEF RebuildGc, Autocommit, Commit, Transaction, CommitTx, disk
  <1>10. ASSUME NEW id \in Ids, NEW d \in Dims, NEW v \in Vals, Upsert(id, d, v) PROVE goal
    BY <1>1, <1>10 DEF Upsert, AppendRec, AfterMutation, Idle, disk
  <1>11. ASSUME NEW id \in Ids, Delete(id) PROVE goal
    BY <1>1, <1>11 DEF Delete, AppendRec, AfterMutation, Idle, disk
  <1>12. CASE Rollback \/ DropTx
    BY <1>1, <1>12 DEF Rollback, DropTx, disk
  <1>13. CASE Checkpoint \/ Seal \/ Swap \/ GcSegments
    BY <1>1, <1>13 DEF Checkpoint, Idle, Seal, Swap, GcSegments, disk
  <1>14. CASE Exit \/ PowerLoss
    BY <1>2, <1>14 DEF Exit, PowerLoss, NoStore, disk
  <1>15. CASE LoseManifest
    BY <1>15 DEF LoseManifest
  <1>16. CASE UNCHANGED vars
    BY <1>1, <1>16 DEF vars, disk
  <1> HIDE DEF goal
  <1> QED
    BY <1>3, <1>4, <1>5, <1>6, <1>7, <1>8, <1>9, <1>10, <1>11, <1>12, <1>13, <1>14,
       <1>15, <1>16 DEF Next

(* Once a manifest has a metric, no open, rebuild, checkpoint or connect   *)
(* gives the collection another, whatever fails but the loss of a file.    *)
(* (open_with, set_metric, checkpoint)                                     *)
THEOREM MetricStays ==
  ASSUME "use_after_drop" \notin Verbs, "loss" \notin Faults
  PROVE  BindingSpec => MetricFixed
  <1> DEFINE inv == IInv /\ View /\ ClientOK
             fixed == manifest # None /\ manifest.metric # None =>
                          /\ manifest' # None /\ manifest'.metric = manifest.metric
                          /\ pc' = "idle" => metric' = manifest.metric
  <1>1. BindingInit => MetricKept
    BY DEF BindingInit, Init, MetricKept
  <1>2. inv /\ MetricKept /\ [BindingNext]_bvars => MetricKept' /\ [fixed]_bvars
    <2> SUFFICES ASSUME inv, MetricKept, [BindingNext]_bvars PROVE MetricKept' /\ fixed
      OBVIOUS
    <2>1. [Next]_vars
      BY BindingStepOK
    <2>2. /\ MetricKept'
          /\ manifest # None /\ manifest.metric # None =>
                manifest' # None /\ manifest'.metric = manifest.metric
      BY <2>1, MetricStep
    <2> QED
      BY <2>2 DEF MetricKept
  <1>3. BindingSpec => []inv
    BY BindingInvariance
  <1>4. [][fixed]_bvars => MetricFixed
    BY DEF MetricFixed
  <1> HIDE DEF inv, fixed
  <1> QED
    BY <1>1, <1>2, <1>3, <1>4, PTL DEF BindingSpec

-----------------------------------------------------------------------------
(* Search.  A pool of k candidates of each of two tiers is enough for the  *)
(* k best of both.                                                         *)

(* The k best of a tier, whatever is scored in it. *)
Natural(es) == IsFiniteSet(es) /\ \A e \in es : Score(e) \in Nat
Upward(hits, es) == hits \subseteq es /\ \A h \in hits, o \in es \ hits : Score(h) >= Score(o)
Least(m, n) == IF m < n THEN m ELSE n
Best(es, k) ==
    {hits \in SUBSET es : Upward(hits, es) /\ Cardinality(hits) = Least(k, Cardinality(es))}

LEMMA TopKIsBest ==
  ASSUME NEW es, NEW k
  PROVE  TopK(es, k) = Best(Scorable(es), k)
  BY DEF TopK, Best, Upward, Least

(* A set has a member of the least score. *)
LEMMA WorstExists ==
  ASSUME NEW es, Natural(es), es # {}
  PROVE  \E w \in es : \A e \in es : Score(w) <= Score(e)
  <1> DEFINE T == {x \in Nat : \E e \in es : x = Score(e)}
  <1>1. T \subseteq Nat /\ T # {} /\ \A e \in es : Score(e) \in T
    BY DEF Natural
  <1>2. PICK x \in T : \A y \in T : x <= y
    BY <1>1, LeastExists
  <1> QED
    BY <1>1, <1>2

(* What is already among the best can be filled up to the n best. *)
LEMMA FillUp ==
  ASSUME NEW es, Natural(es), NEW hits, Upward(hits, es),
         NEW n \in Nat, Cardinality(hits) <= n, n <= Cardinality(es)
  PROVE  \E more : hits \subseteq more /\ Upward(more, es) /\ Cardinality(more) = n
  <1> DEFINE Fills(more) == hits \subseteq more /\ Upward(more, es)
             T == {m \in Nat : m >= n /\ \E more : Fills(more) /\ Cardinality(more) = m}
  <1>1. IsFiniteSet(es) /\ Cardinality(es) \in Nat
    BY FS_CardinalityType DEF Natural
  <1>2. Fills(es)
    BY DEF Upward
  <1>3. T \subseteq Nat /\ T # {}
    <2>1. Cardinality(es) \in T
      BY <1>1, <1>2
    <2> QED
      BY <2>1
  <1>4. PICK m \in T : \A y \in T : m <= y
    BY <1>3, LeastExists
  <1>5. PICK more : Fills(more) /\ Cardinality(more) = m
    OBVIOUS
  <1>6. CASE m = n
    BY <1>5, <1>6
  <1>7. CASE m # n
    <2>1. m \in Nat /\ m > n
      BY <1>7
    <2>2. more \subseteq es /\ IsFiniteSet(more)
      BY <1>1, <1>5, FS_Subset DEF Upward
    <2>3. more \ hits # {}
      <3>1. more # hits
        BY <1>5, <2>1
      <3> QED
        BY <1>5, <3>1
    <2>4. Natural(more \ hits)
      <3>1. IsFiniteSet(more \ hits)
        BY <2>2, FS_Difference
      <3> QED
        BY <2>2, <3>1 DEF Natural
    <2>5. PICK w \in more \ hits : \A e \in more \ hits : Score(w) <= Score(e)
      BY <2>3, <2>4, WorstExists
    <2>6. Cardinality(more \ {w}) = m - 1
      BY <1>5, <2>2, FS_RemoveElement
    <2>7. Fills(more \ {w})
      <3>1. hits \subseteq more \ {w} /\ more \ {w} \subseteq es
        BY <1>5, <2>2
      <3>2. ASSUME NEW h \in more \ {w}, NEW o \in es \ (more \ {w}) PROVE Score(h) >= Score(o)
        <4>1. CASE o # w
          BY <1>5, <4>1 DEF Upward
        <4>2. CASE o = w /\ h \in hits
          BY <2>2, <4>2 DEF Upward
        <4>3. CASE o = w /\ h \notin hits
          <5>1. Score(w) <= Score(h) /\ h \in es /\ w \in es
            BY <2>2, <2>5, <4>3
          <5> QED
            BY <4>3, <5>1 DEF Natural
        <4> QED
          BY <4>1, <4>2, <4>3
      <3> QED
        BY <3>1, <3>2 DEF Upward
    <2> HIDE DEF Fills
    <2>8. m - 1 \in T
      BY <2>1, <2>6, <2>7
    <2> QED
      BY <1>4, <2>1, <2>8
  <1> QED
    BY <1>6, <1>7

(* Two tiers that share nothing, and k candidates at least of each. *)
LEMMA UnionSize ==
  ASSUME NEW a, NEW b, IsFiniteSet(a), IsFiniteSet(b), a \cap b = {}
  PROVE  /\ IsFiniteSet(a \cup b)
         /\ Cardinality(a) \in Nat /\ Cardinality(b) \in Nat
         /\ Cardinality(a \cup b) = Cardinality(a) + Cardinality(b)
  <1>1. Cardinality(a) \in Nat /\ Cardinality(b) \in Nat
    BY FS_CardinalityType
  <1>2. IsFiniteSet(a \cup b)
        /\ Cardinality(a \cup b) = Cardinality(a) + Cardinality(b) - Cardinality({})
    BY FS_Union
  <1> QED
    BY <1>1, <1>2, FS_EmptySet

LEMMA BestFacts ==
  ASSUME NEW es, Natural(es), NEW k \in Nat, NEW hits \in Best(es, k)
  PROVE  /\ hits \subseteq es /\ Upward(hits, es) /\ Natural(hits)
         /\ Cardinality(hits) = Least(k, Cardinality(es))
         /\ Cardinality(hits) \in Nat /\ Cardinality(es) \in Nat
  <1>1. hits \subseteq es /\ Upward(hits, es) /\ Cardinality(hits) = Least(k, Cardinality(es))
    BY DEF Best
  <1>2. Natural(hits)
    BY <1>1, FS_Subset DEF Natural
  <1> QED
    BY <1>1, <1>2, FS_CardinalityType DEF Natural

(* What one tier left out is no better than a hit: a full pool of it is    *)
(* either in the answer, which is then full, or has a worse one out of it. *)
LEMMA LeftOutIsNoBetter ==
  ASSUME NEW a, NEW b, Natural(a), Natural(b), a \cap b = {},
         NEW p \in Nat, NEW k \in Nat, k <= p,
         NEW u \in Best(a, p), NEW v, v \subseteq b,
         NEW hits, Upward(hits, u \cup v), Cardinality(hits) <= k,
         NEW h \in hits, NEW o \in a \ u
  PROVE  Score(h) >= Score(o)
  <1>1. /\ u \subseteq a /\ Upward(u, a) /\ Natural(u) /\ Cardinality(u) = Least(p, Cardinality(a))
        /\ Cardinality(u) \in Nat /\ Cardinality(a) \in Nat
    BY BestFacts
  <1>2. Cardinality(u) = p
    <2>1. Cardinality(u) # Cardinality(a)
      BY <1>1, FS_Subset DEF Natural
    <2> QED
      BY <1>1, <2>1 DEF Least
  <1>3. hits \subseteq u \cup v /\ IsFiniteSet(hits) /\ Cardinality(hits) \in Nat
    <2>1. IsFiniteSet(v)
      BY FS_Subset DEF Natural
    <2>2. IsFiniteSet(u \cup v)
      BY <1>1, <2>1, FS_Union DEF Natural
    <2>3. hits \subseteq u \cup v
      BY DEF Upward
    <2>4. IsFiniteSet(hits)
      BY <2>2, <2>3, FS_Subset
    <2> QED
      BY <2>3, <2>4, FS_CardinalityType
  <1>4. CASE h \in u
    BY <1>1, <1>4 DEF Upward
  <1>5. CASE h \notin u
    <2>1. PICK x \in u : x \notin hits
      <3>1. ASSUME u \subseteq hits PROVE FALSE
        <4>1. u \in SUBSET hits /\ Cardinality(u) <= Cardinality(hits)
              /\ (Cardinality(hits) = Cardinality(u) => hits = u)
          BY <1>3, <3>1, FS_Subset
        <4>2. Cardinality(hits) = Cardinality(u)
          BY <1>2, <1>3, <4>1
        <4> QED
          BY <1>5, <4>1, <4>2
      <3> QED
        BY <3>1
    <2>2. Score(h) >= Score(x) /\ Score(x) >= Score(o)
      BY <1>1, <2>1 DEF Upward
    <2>3. Score(h) \in Nat /\ Score(x) \in Nat /\ Score(o) \in Nat
      BY <1>1, <1>3, <2>1 DEF Natural
    <2> QED
      BY <2>2, <2>3
  <1> QED
    BY <1>4, <1>5

LEMMA BestOfBoth ==
  ASSUME NEW a, NEW b, Natural(a), Natural(b), a \cap b = {},
         NEW p \in Nat, NEW k \in Nat, k <= p,
         NEW u \in Best(a, p), NEW v \in Best(b, p), NEW hits \in Best(u \cup v, k)
  PROVE  hits \in Best(a \cup b, k)
  <1>1. /\ u \subseteq a /\ Upward(u, a) /\ Natural(u) /\ Cardinality(u) = Least(p, Cardinality(a))
        /\ v \subseteq b /\ Upward(v, b) /\ Natural(v) /\ Cardinality(v) = Least(p, Cardinality(b))
    BY BestFacts
  <1>2. /\ Cardinality(a) \in Nat /\ Cardinality(b) \in Nat
        /\ Cardinality(a \cup b) = Cardinality(a) + Cardinality(b)
    BY UnionSize DEF Natural
  <1>3. /\ Cardinality(u) \in Nat /\ Cardinality(v) \in Nat
        /\ Cardinality(u \cup v) = Cardinality(u) + Cardinality(v)
    BY <1>1, UnionSize DEF Natural
  <1>4. /\ Upward(hits, u \cup v) /\ Cardinality(hits) = Least(k, Cardinality(u \cup v))
        /\ Cardinality(hits) <= k
    BY <1>3 DEF Best, Least
  <1>5. Cardinality(hits) = Least(k, Cardinality(a \cup b))
    BY <1>1, <1>2, <1>3, <1>4 DEF Least
  <1>6. ASSUME NEW h \in hits, NEW o \in (a \cup b) \ hits PROVE Score(h) >= Score(o)
    <2>1. CASE o \in u \cup v
      BY <1>4, <2>1 DEF Upward
    <2>2. CASE o \in a \ u
      BY <1>1, <1>4, <2>2, LeftOutIsNoBetter
    <2>3. CASE o \in b \ v
      <3>1. Upward(hits, v \cup u) /\ b \cap a = {}
        <4>1. v \cup u = u \cup v
          OBVIOUS
        <4> QED
          BY <1>4, <4>1
      <3> QED
        BY <1>1, <1>4, <2>3, <3>1, LeftOutIsNoBetter
    <2> QED
      BY <2>1, <2>2, <2>3
  <1>7. hits \subseteq a \cup b
    BY <1>1, <1>4 DEF Upward
  <1> QED
    BY <1>5, <1>6, <1>7 DEF Best, Upward

(* A part of the best that lies in one tier is in a pool of that tier.     *)
LEMMA PoolHasPart ==
  ASSUME NEW a, NEW b, Natural(a), Natural(b), NEW p \in Nat, NEW k \in Nat, k <= p,
         NEW hits, Upward(hits, a \cup b), Cardinality(hits) <= k
  PROVE  \E u \in Best(a, p) : hits \cap a \subseteq u
  <1> DEFINE part == hits \cap a
             n == Least(p, Cardinality(a))
  <1>1. IsFiniteSet(a) /\ IsFiniteSet(a \cup b) /\ Cardinality(a) \in Nat
    BY FS_Union, FS_CardinalityType DEF Natural
  <1>2. hits \subseteq a \cup b
    BY DEF Upward
  <1>3. IsFiniteSet(hits) /\ Cardinality(hits) \in Nat
    BY <1>1, <1>2, FS_Subset, FS_CardinalityType
  <1>4. /\ part \subseteq a /\ part \subseteq hits
        /\ Cardinality(part) <= Cardinality(hits) /\ Cardinality(part) <= Cardinality(a)
        /\ Cardinality(part) \in Nat
    BY <1>1, <1>3, FS_Subset, FS_CardinalityType
  <1>5. Upward(part, a)
    BY <1>2, <1>4 DEF Upward
  <1> HIDE DEF part
  <1>6. n \in Nat /\ Cardinality(part) <= n /\ n <= Cardinality(a)
    BY <1>1, <1>3, <1>4 DEF Least
  <1>7. PICK u : part \subseteq u /\ Upward(u, a) /\ Cardinality(u) = n
    BY <1>5, <1>6, FillUp
  <1>8. u \in Best(a, p)
    BY <1>7 DEF Best, Upward
  <1> QED
    BY <1>7, <1>8 DEF part

LEMMA BothHaveBest ==
  ASSUME NEW a, NEW b, Natural(a), Natural(b), a \cap b = {},
         NEW p \in Nat, NEW k \in Nat, k <= p, NEW hits \in Best(a \cup b, k)
  PROVE  \E u \in Best(a, p), v \in Best(b, p) : hits \in Best(u \cup v, k)
  <1>1. /\ Cardinality(a) \in Nat /\ Cardinality(b) \in Nat
        /\ Cardinality(a \cup b) = Cardinality(a) + Cardinality(b)
    BY UnionSize DEF Natural
  <1>2. /\ hits \subseteq a \cup b /\ Upward(hits, a \cup b)
        /\ Cardinality(hits) = Least(k, Cardinality(a \cup b)) /\ Cardinality(hits) <= k
    BY <1>1 DEF Best, Least
  <1>3. PICK u \in Best(a, p) : hits \cap a \subseteq u
    BY <1>2, PoolHasPart
  <1>4. PICK v \in Best(b, p) : hits \cap b \subseteq v
    <2>1. Upward(hits, b \cup a)
      <3>1. b \cup a = a \cup b
        OBVIOUS
      <3> QED
        BY <1>2, <3>1
    <2> QED
      BY <1>2, <2>1, PoolHasPart
  <1>5. /\ u \subseteq a /\ Natural(u) /\ Cardinality(u) = Least(p, Cardinality(a))
        /\ v \subseteq b /\ Natural(v) /\ Cardinality(v) = Least(p, Cardinality(b))
    BY BestFacts
  <1>6. /\ Cardinality(u) \in Nat /\ Cardinality(v) \in Nat
        /\ Cardinality(u \cup v) = Cardinality(u) + Cardinality(v)
    BY <1>5, UnionSize DEF Natural
  <1>7. Upward(hits, u \cup v)
    BY <1>2, <1>3, <1>4, <1>5 DEF Upward
  <1>8. Cardinality(hits) = Least(k, Cardinality(u \cup v))
    BY <1>1, <1>2, <1>5, <1>6 DEF Least
  <1>9. hits \in Best(u \cup v, k)
    BY <1>7, <1>8 DEF Best, Upward
  <1> QED
    BY <1>3, <1>4, <1>9

(* While L0 supersedes no sealed record, the answers of search, for any k  *)
(* and any pool not below it, are those of the flat scan, no more and no   *)
(* fewer: no record of the k best is lost to a tier whose pool was full.   *)
(* (search, exact_top_k)                                                   *)
THEOREM SearchIsExactWhenDisjoint ==
  ASSUME "use_after_drop" \notin Verbs
  PROVE  Spec => []SearchMatchesWhenDisjoint
  <1>1. ASSUME IInv, FiniteTiers, \A e \in seg : ~Shadowed(e),
               NEW k \in Nat, NEW p \in Nat, k <= p
        PROVE  Search(k, p) = ExactTopK(k)
    <2> DEFINE a == Scorable(seg)
               b == Scorable(Live(l0))
    <2>1. /\ Sealable(seg) /\ l0 \subseteq Entry /\ OnePerId(l0)
          /\ Merged(seg, l0) = seg \cup Live(l0)
      BY <1>1, MergedIs DEF IInv, TiersOK
    <2>2. \A e \in seg \cup Live(l0) : e.rec \in Record /\ Score(e) \in Nat
      BY <2>1, EntryTypes, QueryAssumption DEF Sealable, Live, Records, Record, Tombstone, Score
    <2>3. seg \cap Live(l0) = {}
      BY <1>1 DEF Shadowed, Live
    <2>4. Natural(a) /\ Natural(b)
      <3>1. a \subseteq seg /\ b \subseteq l0 /\ b \subseteq Live(l0)
        BY DEF Scorable, Live
      <3>2. IsFiniteSet(a) /\ IsFiniteSet(b)
        BY <1>1, <3>1, FS_Subset DEF FiniteTiers
      <3> QED
        BY <2>2, <3>1, <3>2 DEF Natural
    <2>5. a \cap b = {} /\ Scorable(Merged(seg, l0)) = a \cup b
      BY <2>1, <2>3 DEF Scorable
    <2>6. ExactTopK(k) = Best(a \cup b, k)
      BY <2>5, TopKIsBest DEF ExactTopK
    <2>7. ASSUME NEW u \in Best(a, p), NEW v \in Best(b, p)
          PROVE  TopK(BestOfId(u, v), k) = Best(u \cup v, k)
      <3>1. u \subseteq a /\ v \subseteq b
        BY DEF Best
      <3>2. u \subseteq seg /\ v \subseteq Live(l0) /\ v \subseteq l0
        BY <3>1 DEF Scorable, Live
      <3>3. ASSUME NEW h \in u \cup v, NEW o \in u \cup v, o.rec.id = h.rec.id PROVE o = h
        BY <1>1, <2>1, <3>2, <3>3 DEF Sealable, OnePerId, Shadowed
      <3>4. BestOfId(u, v) = u \cup v
        BY <3>3 DEF BestOfId
      <3>5. Scorable(u \cup v) = u \cup v
        BY <3>1 DEF Scorable
      <3> QED
        BY <3>4, <3>5, TopKIsBest
    <2> HIDE DEF a, b
    <2>8. /\ TopK(seg, Pool(p)) = Best(a, p)
          /\ TopK(Live(l0), Pool(p)) = Best(b, p)
      BY TopKIsBest DEF Pool, a, b
    <2>9. \A hits : hits \in Search(k, p) <=>
              \E u \in TopK(seg, Pool(p)) :
                  hits \in UNION {TopK(BestOfId(u, v), k) : v \in TopK(Live(l0), Pool(p))}
      BY DEF Search
    <2>10. ASSUME NEW hits \in Search(k, p) PROVE hits \in Best(a \cup b, k)
      <3>1. PICK u \in TopK(seg, Pool(p)) :
                hits \in UNION {TopK(BestOfId(u, v), k) : v \in TopK(Live(l0), Pool(p))}
        BY <2>9, <2>10
      <3>2. PICK v \in TopK(Live(l0), Pool(p)) : hits \in TopK(BestOfId(u, v), k)
        BY <3>1
      <3>3. hits \in Best(u \cup v, k)
        BY <2>7, <2>8, <3>1, <3>2
      <3> QED
        BY <1>1, <2>4, <2>5, <2>8, <3>1, <3>2, <3>3, BestOfBoth
    <2>11. ASSUME NEW hits \in Best(a \cup b, k) PROVE hits \in Search(k, p)
      <3>1. PICK u \in Best(a, p), v \in Best(b, p) : hits \in Best(u \cup v, k)
        BY <1>1, <2>4, <2>5, <2>11, BothHaveBest
      <3>2. hits \in TopK(BestOfId(u, v), k)
        BY <2>7, <3>1
      <3> QED
        BY <2>8, <2>9, <3>1, <3>2
    <2> QED
      BY <2>6, <2>10, <2>11
  <1>2. IInv /\ FiniteTiers => SearchMatchesWhenDisjoint
    <2> SUFFICES ASSUME IInv, FiniteTiers, \A e \in seg : ~Shadowed(e), NEW q \in Queries
                 PROVE  Search(q[1], q[2]) = ExactTopK(q[1])
      BY DEF SearchMatchesWhenDisjoint
    <2>1. q[1] \in Nat /\ q[2] \in Nat /\ q[1] <= q[2]
      BY QueryAssumption DEF Queries
    <2> QED
      BY <1>1, <2>1
  <1> QED
    BY <1>2, Invariance, FiniteInvariance, PTL

-----------------------------------------------------------------------------
(* Sorting.                                                                *)

(* The members of a finite set, sorted by a strict total order.            *)
StrictOrder(S, order) ==
    /\ \A x \in S : <<x, x>> \notin order
    /\ \A x, y, z \in S : <<x, y>> \in order /\ <<y, z>> \in order => <<x, z>> \in order
    /\ \A x, y \in S : x # y => <<x, y>> \in order \/ <<y, x>> \in order

Sorts(s, S, order) ==
    /\ Cardinality(S) \in Nat
    /\ s \in [1..Cardinality(S) -> S]
    /\ \A x \in S : \E i \in 1..Cardinality(S) : s[i] = x
    /\ \A i, j \in 1..Cardinality(S) : i < j <=> <<s[i], s[j]>> \in order

LEMMA InOrderSorts ==
  ASSUME NEW S, NEW order, IsFiniteSet(S), StrictOrder(S, order)
  PROVE  Sorts(InOrder(S, order), S, order)
  <1> DEFINE n == Cardinality(S)
             below(x) == {y \in S : <<y, x>> \in order}
             place == [x \in S |-> Cardinality(below(x)) + 1]
             s == InOrder(S, order)
  <1>1. n \in Nat
    BY FS_CardinalityType
  <1>2. ASSUME NEW x \in S
        PROVE  IsFiniteSet(below(x)) /\ Cardinality(below(x)) \in Nat /\ place[x] \in 1..n
    <2>1. below(x) \subseteq S \ {x}
      BY DEF StrictOrder
    <2>2. IsFiniteSet(S \ {x}) /\ Cardinality(S \ {x}) = n - 1
      BY FS_RemoveElement
    <2> HIDE DEF below, n
    <2>3. IsFiniteSet(below(x)) /\ Cardinality(below(x)) <= n - 1
      BY <2>1, <2>2, FS_Subset
    <2>4. Cardinality(below(x)) \in Nat
      BY <2>3, FS_CardinalityType
    <2> QED
      BY <1>1, <2>3, <2>4
  <1>3. ASSUME NEW x \in S, NEW y \in S, <<x, y>> \in order PROVE place[x] < place[y]
    <2>1. below(x) \cup {x} \subseteq below(y) /\ x \notin below(x)
      BY <1>3 DEF StrictOrder
    <2>2. /\ IsFiniteSet(below(x)) /\ Cardinality(below(x)) \in Nat
          /\ IsFiniteSet(below(y)) /\ Cardinality(below(y)) \in Nat
      BY <1>2
    <2> HIDE DEF below
    <2>3. Cardinality(below(x) \cup {x}) = Cardinality(below(x)) + 1
      BY <2>1, <2>2, FS_AddElement
    <2>4. Cardinality(below(x) \cup {x}) <= Cardinality(below(y))
      BY <2>1, <2>2, FS_Subset
    <2> QED
      BY <2>2, <2>3, <2>4
  <1> HIDE DEF n
  <1>4. place \in [S -> 1..n]
    BY <1>2
  <1>5. \A x \in S : place[x] = Cardinality(below(x)) + 1 /\ Cardinality(below(x)) \in Nat
    BY <1>2
  <1> HIDE DEF place
  <1>6. ASSUME NEW x \in S, NEW y \in S PROVE place[x] < place[y] <=> <<x, y>> \in order
    <2>1. CASE x = y
      <3>1. place[x] \in 1..n
        BY <1>4
      <3> QED
        BY <2>1, <3>1 DEF StrictOrder
    <2>2. CASE <<x, y>> \in order
      BY <1>3, <2>2
    <2>3. CASE x # y /\ <<x, y>> \notin order
      <3>1. place[y] < place[x]
        BY <1>3, <2>3 DEF StrictOrder
      <3>2. place[x] \in 1..n /\ place[y] \in 1..n
        BY <1>4
      <3> QED
        BY <2>3, <3>1, <3>2
    <2> QED
      BY <2>1, <2>2, <2>3
  <1>7. \A x, y \in S : place[x] = place[y] => x = y
    <2> SUFFICES ASSUME NEW x \in S, NEW y \in S, place[x] = place[y], x # y PROVE FALSE
      OBVIOUS
    <2>1. place[x] < place[y] \/ place[y] < place[x]
      BY <1>6 DEF StrictOrder
    <2>2. place[x] \in 1..n /\ place[y] \in 1..n
      BY <1>4
    <2> QED
      BY <2>1, <2>2
  <1>8. \A i \in 1..n : \E x \in S : place[x] = i
    <2>1. IsFiniteSet(1..n) /\ Cardinality(1..n) = n
      BY <1>1, FS_Interval
    <2>2. place \in Injection(S, 1..n)
      BY <1>4, <1>7 DEF Injection, IsInjective
    <2>3. place \in Surjection(S, 1..n)
      BY <2>1, <2>2, FS_Injection DEF n
    <2> QED
      BY <2>3 DEF Surjection
  <1>9. ASSUME NEW i \in 1..n PROVE s[i] \in S /\ place[s[i]] = i
    <2> DEFINE Ith(x) == Cardinality(below(x)) = i - 1
    <2>1. s[i] = CHOOSE x \in S : Ith(x)
      BY DEF InOrder, n
    <2>2. PICK x \in S : Ith(x)
      <3>1. PICK x \in S : place[x] = i
        BY <1>8
      <3>2. place[x] = Cardinality(below(x)) + 1 /\ Cardinality(below(x)) \in Nat
        BY <1>5
      <3> HIDE DEF below
      <3>3. Ith(x)
        BY <3>1, <3>2
      <3> QED
        BY <3>3
    <2> HIDE DEF Ith
    <2>3. s[i] \in S /\ Ith(s[i])
      BY <2>1, <2>2
    <2>4. place[s[i]] = Cardinality(below(s[i])) + 1 /\ Cardinality(below(s[i])) \in Nat
      BY <1>5, <2>3
    <2> QED
      BY <2>3, <2>4 DEF Ith
  <1>10. s \in [1..n -> S]
    <2> DEFINE ith(i) == CHOOSE x \in S : Cardinality({y \in S : <<y, x>> \in order}) = i - 1
    <2>1. s = [i \in 1..n |-> ith(i)]
      BY DEF InOrder, n
    <2> HIDE DEF s, ith
    <2> QED
      BY <1>9, <2>1
  <1> HIDE DEF s, below
  <1>11. ASSUME NEW x \in S PROVE \E i \in 1..n : s[i] = x
    <2>1. place[x] \in 1..n
      BY <1>4
    <2>2. place[s[place[x]]] = place[x] /\ s[place[x]] \in S
      BY <1>9, <2>1
    <2>3. s[place[x]] = x
      BY <1>7, <2>2
    <2> QED
      BY <2>1, <2>3
  <1>12. ASSUME NEW i \in 1..n, NEW j \in 1..n PROVE i < j <=> <<s[i], s[j]>> \in order
    BY <1>6, <1>9
  <1>13. Sorts(s, S, order)
    BY <1>1, <1>10, <1>11, <1>12 DEF Sorts, n
  <1> QED
    BY <1>13 DEF s

-----------------------------------------------------------------------------
(* Lists of hits.                                                          *)

HitType == [id : Ids, score : Nat, seq : Nat]

(* A list of hits, at most one of an id, and of no other ids than these.   *)
ListOf(path, ids) ==
    /\ Len(path) \in Nat
    /\ path \in [1..Len(path) -> HitType]
    /\ \A i \in 1..Len(path) : path[i].id \in ids
    /\ \A i, j \in 1..Len(path) : path[i].id = path[j].id => i = j

OneHitPerId(hits) ==
    /\ IsFiniteSet(hits)
    /\ hits \subseteq HitType
    /\ \A g, h \in hits : g.id = h.id => g = h

LEMMA HitTypes ==
  /\ \A h \in HitType : h.id \in Ids /\ h.id \in Nat /\ h.score \in Nat /\ h.seq \in Nat
  /\ \A i \in Ids, x \in Nat, q \in Nat : [id |-> i, score |-> x, seq |-> q] \in HitType
  /\ \A h \in HitType, x \in Nat : /\ [h EXCEPT !.score = x] \in HitType
                                   /\ [h EXCEPT !.score = x].id = h.id
                                   /\ [h EXCEPT !.score = x].score = x
                                   /\ [h EXCEPT !.score = x].seq = h.seq
  BY QueryAssumption DEF HitType

LEMMA ListDomain ==
  ASSUME NEW path, NEW ids, ListOf(path, ids)
  PROVE  DOMAIN path = 1..Len(path) /\ \A i \in 1..Len(path) : path[i] \in HitType
  BY DEF ListOf

(* Ranked lists the hits, all of them, the better ones first.              *)
LEMMA RankedSorts ==
  ASSUME NEW hits, OneHitPerId(hits)
  PROVE  /\ ListOf(Ranked(hits), {h.id : h \in hits})
         /\ Len(Ranked(hits)) = Cardinality(hits)
         /\ \A i \in 1..Len(Ranked(hits)) : Ranked(hits)[i] \in hits
         /\ \A h \in hits : \E i \in 1..Len(Ranked(hits)) : Ranked(hits)[i] = h
         /\ \A i, j \in 1..Len(Ranked(hits)) : i < j <=> Better(Ranked(hits)[i], Ranked(hits)[j])
  <1> DEFINE order == {p \in hits \X hits : Better(p[1], p[2])}
             n == Cardinality(hits)
             s == InOrder(hits, order)
  <1>1. \A h \in hits : h \in HitType /\ h.id \in Nat /\ h.score \in Nat
    BY HitTypes DEF OneHitPerId
  <1>2. \A g, h \in hits : <<g, h>> \in order <=> Better(g, h)
    OBVIOUS
  <1>3. StrictOrder(hits, order)
    <2>1. \A h \in hits : ~Better(h, h)
      BY <1>1 DEF Better
    <2>2. ASSUME NEW f \in hits, NEW g \in hits, NEW h \in hits, Better(f, g), Better(g, h)
          PROVE  Better(f, h)
      BY <1>1, <2>2 DEF Better
    <2>3. ASSUME NEW g \in hits, NEW h \in hits, g # h
          PROVE  Better(g, h) \/ Better(h, g)
      BY <1>1, <2>3 DEF Better, OneHitPerId
    <2> HIDE DEF order
    <2> QED
      BY <1>2, <2>1, <2>2, <2>3 DEF StrictOrder
  <1> HIDE DEF order
  <1>4. Sorts(s, hits, order)
    BY <1>3, InOrderSorts DEF OneHitPerId
  <1>5. Ranked(hits) = s
    BY DEF Ranked, order
  <1> HIDE DEF s
  <1>6. /\ n \in Nat /\ s \in [1..n -> hits]
        /\ \A h \in hits : \E i \in 1..n : s[i] = h
        /\ \A i, j \in 1..n : i < j <=> <<s[i], s[j]>> \in order
    BY <1>4 DEF Sorts
  <1> HIDE DEF n
  <1>7. Len(s) = n /\ s \in [1..n -> HitType]
    BY <1>1, <1>6
  <1>8. \A i, j \in 1..n : i < j <=> Better(s[i], s[j])
    BY <1>2, <1>6
  <1>9. ASSUME NEW i \in 1..n, NEW j \in 1..n, s[i].id = s[j].id PROVE i = j
    <2>1. s[i] = s[j]
      BY <1>6, <1>9 DEF OneHitPerId
    <2>2. ~Better(s[i], s[i])
      BY <1>1, <1>6 DEF Better
    <2>3. ~(i < j) /\ ~(j < i)
      BY <1>8, <2>1, <2>2
    <2> QED
      BY <1>6, <2>3
  <1>10. ListOf(s, {h.id : h \in hits})
    BY <1>6, <1>7, <1>9 DEF ListOf
  <1> QED
    BY <1>5, <1>6, <1>7, <1>8, <1>10 DEF n

(* The first k of a list.                                                  *)
LEMMA TruncatedIs ==
  ASSUME NEW path, NEW ids, ListOf(path, ids), NEW k \in Nat
  PROVE  /\ ListOf(Truncated(path, k), ids)
         /\ Len(Truncated(path, k)) = Least(k, Len(path))
         /\ \A i \in 1..Least(k, Len(path)) : i \in 1..Len(path) /\ Truncated(path, k)[i] = path[i]
  <1> DEFINE n == Len(path)
             m == Least(k, n)
             t == Truncated(path, k)
  <1>1. n \in Nat /\ path \in [1..n -> HitType] /\ m \in Nat /\ m <= n
    BY DEF ListOf, Least
  <1>2. t = SubSeq(path, 1, m)
    BY DEF Truncated, Least
  <1>3. path \in Seq(HitType)
    BY <1>1
  <1> HIDE DEF m, t
  <1>4. Len(t) = m /\ t \in [1..m -> HitType] /\ \A i \in 1..m : i \in 1..n /\ t[i] = path[i]
    <2>1. t = [i \in 1..m |-> path[i]]
      BY <1>1, <1>2, <1>3
    <2>2. \A i \in 1..m : i \in 1..n /\ path[i] \in HitType
      BY <1>1
    <2> HIDE DEF n
    <2> QED
      BY <1>1, <2>1, <2>2
  <1>5. ListOf(t, ids)
    BY <1>1, <1>4 DEF ListOf
  <1> QED
    BY <1>4, <1>5 DEF m, t

(* What the queries look at: records of different ids.                     *)
ViewOK(es) ==
    /\ IsFiniteSet(es) /\ OnePerId(es)
    /\ \A e \in es : e.rec.id \in Ids /\ e.rec.val \in Vals /\ e.seq \in Nat

LEMMA ViewPart ==
  ASSUME NEW es, ViewOK(es), NEW part \in SUBSET es
  PROVE  ViewOK(part)
  BY FS_Subset DEF ViewOK, OnePerId

LEMMA HitIs ==
  ASSUME NEW es, ViewOK(es), NEW e \in es, NEW x \in Nat
  PROVE  /\ Hit(e, x) \in HitType /\ Hit(e, x).id = e.rec.id /\ Hit(e, x).score = x
         /\ Score(e) \in Nat
  <1>1. e.rec.id \in Ids /\ e.rec.val \in Vals /\ e.seq \in Nat
    BY DEF ViewOK
  <1> QED
    BY <1>1, HitTypes, QueryAssumption DEF Hit, Score

(* The hits of the scan are the records that have a score, one for one.    *)
LEMMA ScanHits ==
  ASSUME NEW es, ViewOK(es)
  PROVE  LET scored == Scorable(es)
             hits == {Hit(e, Score(e)) : e \in scored}
         IN  /\ OneHitPerId(hits)
             /\ Cardinality(hits) = Cardinality(scored) /\ Natural(scored)
             /\ {h.id : h \in hits} = IdsOf(scored)
             /\ \A e, o \in scored : Hit(e, Score(e)).id = Hit(o, Score(o)).id => e = o
  <1> DEFINE scored == Scorable(es)
             hits == {Hit(e, Score(e)) : e \in scored}
             f == [e \in scored |-> Hit(e, Score(e))]
  <1>1. scored \subseteq es /\ ViewOK(scored)
    BY ViewPart DEF Scorable
  <1> HIDE DEF scored
  <1>2. \A e \in scored : /\ Hit(e, Score(e)) \in HitType /\ Hit(e, Score(e)).id = e.rec.id
                          /\ Score(e) \in Nat
    BY <1>1, HitIs
  <1>3. \A e, o \in scored : Hit(e, Score(e)).id = Hit(o, Score(o)).id => e = o
    BY <1>1, <1>2 DEF ViewOK, OnePerId
  <1>4. f \in Bijection(scored, hits)
    BY <1>3 DEF Bijection, Injection, Surjection, IsInjective
  <1>5. IsFiniteSet(hits) /\ Cardinality(hits) = Cardinality(scored) /\ IsFiniteSet(scored)
    BY <1>1, <1>4, FS_Bijection DEF ViewOK, ExistsBijection
  <1>6. OneHitPerId(hits)
    BY <1>2, <1>3, <1>5 DEF OneHitPerId
  <1>7. {h.id : h \in hits} = IdsOf(scored)
    BY <1>2 DEF IdsOf
  <1>8. Natural(scored)
    BY <1>2, <1>5 DEF Natural
  <1> QED
    BY <1>3, <1>5, <1>6, <1>7, <1>8 DEF scored

(* The filtered scan lists records that match.                             *)
LEMMA ScanPath ==
  ASSUME NEW es, ViewOK(es), NEW filter, NEW k \in Nat
  PROVE  ListOf(FilteredTopK(es, k, filter), IdsOf(Matching(es, filter)))
         /\ Len(FilteredTopK(es, k, filter)) <= k
  <1> DEFINE eligible == Matching(es, filter)
             hits == {Hit(e, Score(e)) : e \in Scorable(eligible)}
             ids == IdsOf(eligible)
  <1>1. ViewOK(eligible)
    BY ViewPart DEF Matching
  <1> HIDE DEF eligible
  <1>2. OneHitPerId(hits) /\ {h.id : h \in hits} = IdsOf(Scorable(eligible))
    BY <1>1, ScanHits, Zenon
  <1>3. {h.id : h \in hits} \subseteq ids
    <2>1. IdsOf(Scorable(eligible)) \subseteq ids
      BY DEF IdsOf, Scorable
    <2> QED
      BY <1>2, <2>1
  <1>4. ScoredHits(eligible) = Ranked(hits)
    BY DEF ScoredHits
  <1>5. FilteredTopK(es, k, filter) = Truncated(Ranked(hits), k)
    BY <1>4, Zenon DEF FilteredTopK, eligible
  <1> HIDE DEF hits
  <1>6. ListOf(Ranked(hits), {h.id : h \in hits})
    BY <1>2, RankedSorts
  <1>7. ListOf(Ranked(hits), ids)
    BY <1>3, <1>6 DEF ListOf
  <1> HIDE DEF ids
  <1>8. Len(Ranked(hits)) \in Nat
    BY <1>7 DEF ListOf
  <1>9. /\ ListOf(Truncated(Ranked(hits), k), ids)
        /\ Len(Truncated(Ranked(hits), k)) = Least(k, Len(Ranked(hits)))
    BY <1>7, TruncatedIs
  <1>10. Len(Truncated(Ranked(hits), k)) <= k
    BY <1>8, <1>9 DEF Least
  <1> QED
    BY <1>5, <1>9, <1>10 DEF ids, eligible

(* The filtered scan has the k best of the records that match.             *)
LEMMA ScanIsBest ==
  ASSUME NEW es, ViewOK(es), NEW filter, NEW k \in Nat
  PROVE  LET path == FilteredTopK(es, k, filter)
         IN  \E best \in TopK(Matching(es, filter), k) : HitIds(path) = IdsOf(best)
  <1> DEFINE scored == Scorable(Matching(es, filter))
             hits == {Hit(e, Score(e)) : e \in scored}
             s == Ranked(hits)
             n == Cardinality(scored)
             m == Least(k, n)
             path == FilteredTopK(es, k, filter)
             best == {e \in scored : \E i \in 1..m : s[i] = Hit(e, Score(e))}
  <1>1. ViewOK(Matching(es, filter)) /\ ViewOK(scored)
    <2>1. ViewOK(Matching(es, filter))
      BY ViewPart DEF Matching
    <2> QED
      BY <2>1, ViewPart DEF Scorable
  <1>2. /\ OneHitPerId(hits) /\ Cardinality(hits) = n /\ Natural(scored)
        /\ \A e, o \in scored : Hit(e, Score(e)).id = Hit(o, Score(o)).id => e = o
    BY <1>1, ScanHits, Zenon
  <1>3. path = Truncated(s, k)
    BY Zenon DEF FilteredTopK, ScoredHits
  <1>4. TopK(Matching(es, filter), k) = Best(scored, k)
    BY TopKIsBest
  <1> HIDE DEF scored, path
  <1>5. \A e \in scored : /\ Hit(e, Score(e)) \in HitType /\ Hit(e, Score(e)).id = e.rec.id
                          /\ Hit(e, Score(e)).score = Score(e) /\ Score(e) \in Nat
    BY <1>1, HitIs DEF Natural
  <1>6. \A h \in hits : \E e \in scored : h = Hit(e, Score(e))
    OBVIOUS
  <1>7. \A e \in scored : Hit(e, Score(e)) \in hits
    OBVIOUS
  <1> HIDE DEF hits
  <1>8. /\ ListOf(s, {h.id : h \in hits}) /\ Len(s) = n
        /\ \A i \in 1..n : s[i] \in hits
        /\ \A h \in hits : \E i \in 1..n : s[i] = h
        /\ \A i, j \in 1..n : i < j <=> Better(s[i], s[j])
    <2>1. /\ ListOf(s, {h.id : h \in hits}) /\ Len(s) = Cardinality(hits)
          /\ \A i \in 1..Len(s) : s[i] \in hits
          /\ \A h \in hits : \E i \in 1..Len(s) : s[i] = h
          /\ \A i, j \in 1..Len(s) : i < j <=> Better(s[i], s[j])
      BY <1>2, RankedSorts
    <2>2. Len(s) = n
      BY <1>2, <2>1
    <2> HIDE DEF s, n
    <2> QED
      BY <2>1, <2>2
  <1> HIDE DEF s, n
  <1>9. n \in Nat /\ m \in Nat /\ m <= n
    BY <1>8 DEF ListOf, Least
  <1>10. Len(path) = m /\ DOMAIN path = 1..m /\ \A i \in 1..m : i \in 1..n /\ path[i] = s[i]
    <2>1. /\ Len(path) = m /\ ListOf(path, {h.id : h \in hits})
          /\ \A i \in 1..m : i \in 1..n /\ path[i] = s[i]
      BY <1>3, <1>8, TruncatedIs
    <2> QED
      BY <2>1 DEF ListOf
  <1> HIDE DEF m
  <1>11. \A i, j \in 1..n : s[i] = s[j] => i = j
    BY <1>8 DEF ListOf
  <1>12. HitIds(path) = IdsOf(best)
    <2>1. ASSUME NEW i \in 1..m PROVE \E e \in best : path[i].id = e.rec.id
      <3>1. PICK e \in scored : s[i] = Hit(e, Score(e))
        BY <1>6, <1>8, <1>10
      <3> QED
        BY <1>5, <1>10, <3>1
    <2>2. ASSUME NEW e \in best PROVE \E i \in 1..m : path[i].id = e.rec.id
      <3>1. PICK i \in 1..m : s[i] = Hit(e, Score(e))
        OBVIOUS
      <3> QED
        BY <1>5, <1>10, <3>1
    <2> HIDE DEF best
    <2>3. HitIds(path) = {path[i].id : i \in 1..m}
      BY <1>10 DEF HitIds
    <2>4. HitIds(path) \subseteq IdsOf(best)
      BY <2>1, <2>3 DEF IdsOf
    <2>5. IdsOf(best) \subseteq HitIds(path)
      <3> SUFFICES ASSUME NEW e \in best PROVE e.rec.id \in HitIds(path)
        BY DEF IdsOf
      <3> QED
        BY <2>2, <2>3
    <2> QED
      BY <2>4, <2>5
  <1>13. Upward(best, scored)
    <2> SUFFICES ASSUME NEW h \in best, NEW o \in scored \ best PROVE Score(h) >= Score(o)
      BY DEF Upward
    <2>1. PICK i \in 1..m : s[i] = Hit(h, Score(h))
      OBVIOUS
    <2>2. PICK j \in 1..n : s[j] = Hit(o, Score(o))
      BY <1>7, <1>8
    <2>3. j \notin 1..m
      BY <2>2
    <2>4. i \in 1..n /\ i < j
      BY <1>9, <2>3
    <2>5. Better(s[i], s[j])
      BY <1>8, <2>4
    <2> QED
      BY <1>5, <2>1, <2>2, <2>5 DEF Better
  <1>14. Cardinality(best) = m
    <2> DEFINE place == [e \in best |-> CHOOSE i \in 1..m : s[i] = Hit(e, Score(e))]
    <2>1. \A e \in best : place[e] \in 1..m /\ s[place[e]] = Hit(e, Score(e))
      OBVIOUS
    <2>2. place \in [best -> 1..m]
      BY <2>1
    <2>3. ASSUME NEW i \in 1..m PROVE \E e \in best : place[e] = i
      <3>1. PICK e \in scored : s[i] = Hit(e, Score(e))
        BY <1>6, <1>8, <1>10
      <3>2. e \in best
        BY <3>1
      <3>3. place[e] \in 1..n /\ i \in 1..n /\ s[place[e]] = s[i]
        BY <1>9, <2>1, <3>1, <3>2
      <3> QED
        BY <1>11, <3>2, <3>3
    <2>4. \A e, o \in best : place[e] = place[o] => e = o
      <3>1. \A e, o \in best : place[e] = place[o] => Hit(e, Score(e)) = Hit(o, Score(o))
        BY <2>1
      <3> QED
        BY <1>2, <3>1
    <2>5. best \subseteq scored /\ IsFiniteSet(best)
      <3>1. best \subseteq scored
        OBVIOUS
      <3> QED
        BY <1>2, <3>1, FS_Subset DEF Natural
    <2> HIDE DEF best, place
    <2>6. place \in Bijection(best, 1..m)
      BY <2>2, <2>3, <2>4 DEF Bijection, Injection, Surjection, IsInjective
    <2>7. Cardinality(1..m) = Cardinality(best)
      BY <2>5, <2>6, FS_Bijection DEF ExistsBijection
    <2>8. Cardinality(1..m) = m
      BY <1>9, FS_Interval
    <2> QED
      BY <2>7, <2>8
  <1>15. best \in Best(scored, k)
    BY <1>13, <1>14 DEF Best, m, n
  <1> QED
    BY <1>4, <1>12, <1>15 DEF path

-----------------------------------------------------------------------------
(* The hits of text search.                                                *)

DocOK(doc) == Len(doc) \in Nat /\ DOMAIN doc = 1..Len(doc)

LEMMA CountType ==
  ASSUME NEW n \in Nat, NEW part \in SUBSET (1..n)
  PROVE  IsFiniteSet(part) /\ Cardinality(part) \in Nat
  <1>1. IsFiniteSet(1..n)
    BY FS_Interval
  <1>2. IsFiniteSet(part)
    BY <1>1, FS_Subset
  <1> QED
    BY <1>2, FS_CardinalityType

(* A text has finitely many tokens.                                        *)
LEMMA TokenizeIs ==
  ASSUME NEW text, IsSeq(text)
  PROVE  DocOK(Tokenize(text))
  <1> DEFINE order == {p \in Starts(text) \X Starts(text) : p[1] < p[2]}
             start == InOrder(Starts(text), order)
             c == Cardinality(Starts(text))
  <1>1. Len(text) \in Nat /\ DOMAIN text = 1..Len(text)
    BY DEF IsSeq
  <1>2. c \in Nat
    BY <1>1, CountType DEF Starts
  <1>3. Tokenize(text) = [t \in DOMAIN start |-> Token(text, start[t])]
    BY DEF Tokenize
  <1>4. DOMAIN start = 1..c
    BY DEF InOrder
  <1> HIDE DEF start, c
  <1>5. DOMAIN Tokenize(text) = 1..c
    BY <1>3, <1>4
  <1>6. Len(Tokenize(text)) = c
    BY <1>2, <1>3, <1>4
  <1> QED
    BY <1>2, <1>5, <1>6 DEF DocOK

LEMMA DocOfIs ==
  ASSUME NEW text, text = None \/ IsSeq(text)
  PROVE  DocOK(DocOf(text))
  <1>1. CASE text = None
    BY <1>1 DEF DocOf, DocOK
  <1>2. CASE text # None
    BY <1>2, TokenizeIs DEF DocOf
  <1> QED
    BY <1>1, <1>2

LEMMA Quotient == \A a \in Nat, b \in Nat \ {0} : a \div b \in Nat
  OBVIOUS

LEMMA IdfType ==
  ASSUME NEW n \in Nat, NEW df \in Nat
  PROVE  Idf(n, df) \in Nat
  <1> DEFINE m == 2 * (n - df) + 1
             s == [i \in 1..m |-> 2000 \div (2 * (2 * df + i) + 1)]
  <1>1. m \in Int
    OBVIOUS
  <1>2. \A i \in 1..m : 2000 \div (2 * (2 * df + i) + 1) \in Nat
    <2> SUFFICES ASSUME NEW i \in 1..m PROVE 2000 \div (2 * (2 * df + i) + 1) \in Nat
      OBVIOUS
    <2>1. 2 * (2 * df + i) + 1 \in Nat \ {0}
      BY <1>1
    <2> QED
      BY <2>1, Quotient
  <1>3. Idf(n, df) = Sum(s)
    BY DEF Idf
  <1> HIDE DEF m
  <1>4. s \in [1..m -> Nat]
    BY <1>2
  <1> HIDE DEF s
  <1>5. CASE m \in Nat
    BY <1>3, <1>4, <1>5, SumType
  <1>6. CASE m < 0
    <2>1. s \in [1..0 -> Nat]
      <3>1. 1..m = 1..0
        BY <1>1, <1>6
      <3> QED
        BY <1>4, <3>1
    <2> QED
      BY <1>3, <2>1, SumType
  <1> QED
    BY <1>1, <1>5, <1>6

LEMMA TermScoreType ==
  ASSUME NEW tf \in Nat, NEW df \in Nat, NEW n \in Nat, NEW length \in Nat, NEW total \in Nat \ {0}
  PROVE  TermScore(tf, df, n, length, total) \in Nat
  <1> DEFINE idf == Idf(n, df)
  <1>1. idf \in Nat
    BY IdfType
  <1> HIDE DEF idf
  <1>2. CASE tf = 0
    BY <1>2 DEF TermScore
  <1>3. CASE tf # 0
    <2> DEFINE a == idf * 22000 * tf * total
               b == (10 * tf + 3) * total + 9 * length * n
    <2>1. \A x, y \in Nat : x * y \in Nat
      OBVIOUS
    <2>2. \A x, y \in Nat \ {0} : x * y \in Nat \ {0}
      OBVIOUS
    <2>3. a \in Nat
      <3>1. idf * 22000 \in Nat
        BY <1>1
      <3>2. idf * 22000 * tf \in Nat
        BY <2>1, <3>1
      <3> QED
        BY <2>1, <3>2
    <2>4. b \in Nat \ {0}
      <3>1. (10 * tf + 3) * total \in Nat \ {0}
        <4>1. 10 * tf + 3 \in Nat \ {0}
          OBVIOUS
        <4> QED
          BY <2>2, <4>1
      <3>2. 9 * length * n \in Nat
        <4>1. 9 * length \in Nat
          OBVIOUS
        <4> QED
          BY <2>1, <4>1
      <3> QED
        BY <3>1, <3>2
    <2>5. TermScore(tf, df, n, length, total) = a \div b
      BY <1>3 DEF TermScore, idf
    <2> HIDE DEF a, b
    <2> QED
      BY <2>3, <2>4, <2>5, Quotient
  <1> QED
    BY <1>2, <1>3

(* Every document has a score.                                             *)
LEMMA ScoresType ==
  ASSUME NEW n \in Nat, NEW docs, DOMAIN docs = 1..n, Len(docs) = n,
         \A d \in 1..n : DocOK(docs[d]), NEW terms, DocOK(terms)
  PROVE  Scores(docs, terms) \in [1..n -> Nat]
  <1> DEFINE lengths == [e \in DOMAIN docs |-> Len(docs[e])]
             total == AtLeast(Len(docs), Sum(lengths))
  <1>1. \A d \in 1..n : Len(docs[d]) \in Nat /\ DOMAIN docs[d] = 1..Len(docs[d])
    BY DEF DocOK
  <1>2. Sum(lengths) \in Nat
    <2>1. lengths \in [1..n -> Nat]
      BY <1>1
    <2> HIDE DEF lengths
    <2> QED
      BY <2>1, SumType
  <1> HIDE DEF lengths
  <1>3. n # 0 => total \in Nat \ {0}
    BY <1>2 DEF AtLeast
  <1>4. ASSUME NEW d \in 1..n, NEW term PROVE ScoreTerm(docs, term, d) \in Nat
    <2>1. n # 0
      OBVIOUS
    <2>2. Occurrences(docs[d], term) \in Nat
      <3>1. {i \in DOMAIN docs[d] : docs[d][i] = term} \in SUBSET (1..Len(docs[d]))
        BY <1>1
      <3> QED
        BY <1>1, <3>1, CountType DEF Occurrences
    <2>3. DocsWith(docs, term) \in Nat
      <3>1. {e \in DOMAIN docs : Occurrences(docs[e], term) > 0} \in SUBSET (1..n)
        OBVIOUS
      <3> QED
        BY <3>1, CountType DEF DocsWith
    <2>4. ScoreTerm(docs, term, d)
          = TermScore(Occurrences(docs[d], term), DocsWith(docs, term), n, Len(docs[d]), total)
      BY DEF ScoreTerm, lengths
    <2>5. total \in Nat \ {0} /\ Len(docs[d]) \in Nat
      BY <1>1, <1>3, <2>1
    <2> HIDE DEF total
    <2>6. TermScore(Occurrences(docs[d], term), DocsWith(docs, term), n, Len(docs[d]), total) \in Nat
      BY <2>2, <2>3, <2>5, TermScoreType
    <2> QED
      BY <2>4, <2>6
  <1>5. ASSUME NEW d \in 1..n PROVE ScoreDoc(docs, terms, d) \in Nat
    <2> DEFINE s == [t \in DOMAIN terms |-> ScoreTerm(docs, terms[t], d)]
    <2>1. s \in [1..Len(terms) -> Nat] /\ Len(terms) \in Nat
      BY <1>4 DEF DocOK
    <2>2. ScoreDoc(docs, terms, d) = Sum(s)
      BY DEF ScoreDoc
    <2> HIDE DEF s
    <2> QED
      BY <2>1, <2>2, SumType
  <1> QED
    BY <1>5 DEF Scores

(* The best documents are documents, each of them once.                    *)
LEMMA BestFirstIs ==
  ASSUME NEW n \in Nat, NEW scores \in [1..n -> Nat]
  PROVE  LET ds == BestFirst(scores)
         IN  /\ Len(ds) \in Nat /\ ds \in [1..Len(ds) -> 1..n]
             /\ \A i, j \in 1..Len(ds) : ds[i] = ds[j] => i = j
  <1> DEFINE S == Positive(scores)
             order == {p \in S \X S : \/ scores[p[1]] > scores[p[2]]
                                      \/ scores[p[1]] = scores[p[2]] /\ p[1] < p[2]}
             ds == BestFirst(scores)
             c == Cardinality(S)
  <1>1. S \in SUBSET (1..n)
    BY DEF Positive
  <1>2. IsFiniteSet(S)
    BY <1>1, CountType
  <1>3. ds = InOrder(S, order)
    BY DEF BestFirst
  <1> HIDE DEF S
  <1>4. \A x, y \in S : <<x, y>> \in order <=> scores[x] > scores[y] \/ (scores[x] = scores[y] /\ x < y)
    OBVIOUS
  <1>5. \A x \in S : x \in Int /\ scores[x] \in Nat
    BY <1>1
  <1> HIDE DEF order
  <1>6. StrictOrder(S, order)
    BY <1>4, <1>5 DEF StrictOrder
  <1> HIDE DEF ds
  <1>7. Sorts(ds, S, order)
    BY <1>2, <1>3, <1>6, InOrderSorts
  <1>8. /\ c \in Nat /\ ds \in [1..c -> S]
        /\ \A i, j \in 1..c : i < j <=> <<ds[i], ds[j]>> \in order
    BY <1>7 DEF Sorts
  <1> HIDE DEF c
  <1>9. Len(ds) = c /\ ds \in [1..c -> 1..n]
    <2>1. \A i \in 1..c : ds[i] \in 1..n
      BY <1>1, <1>8
    <2>2. Len(ds) = c
      BY <1>8
    <2> QED
      BY <1>8, <2>1, <2>2
  <1>10. ASSUME NEW i \in 1..c, NEW j \in 1..c, ds[i] = ds[j] PROVE i = j
    <2>1. <<ds[i], ds[i]>> \notin order
      BY <1>6, <1>8 DEF StrictOrder
    <2>2. ~(i < j) /\ ~(j < i)
      BY <1>8, <1>10, <2>1
    <2> QED
      BY <1>8, <2>2
  <1> QED
    BY <1>8, <1>9, <1>10 DEF ds

(* The candidates by id are the candidates, each of them once.             *)
LEMMA ByIdIs ==
  ASSUME NEW es, ViewOK(es)
  PROVE  /\ Cardinality(es) \in Nat
         /\ ById(es) \in [1..Cardinality(es) -> es]
         /\ \A i, j \in 1..Cardinality(es) : ById(es)[i] = ById(es)[j] => i = j
  <1> DEFINE order == {p \in es \X es : p[1].rec.id < p[2].rec.id}
             n == Cardinality(es)
             s == ById(es)
  <1>1. \A e \in es : e.rec.id \in Nat
    BY QueryAssumption DEF ViewOK
  <1>2. \A x, y \in es : <<x, y>> \in order <=> x.rec.id < y.rec.id
    OBVIOUS
  <1>3. s = InOrder(es, order)
    BY DEF ById
  <1> HIDE DEF order, s
  <1>4. StrictOrder(es, order)
    <2>1. \A x, y \in es : x # y => x.rec.id # y.rec.id
      BY DEF ViewOK, OnePerId
    <2>2. \A x, y \in es : x # y => <<x, y>> \in order \/ <<y, x>> \in order
      BY <1>1, <1>2, <2>1
    <2>3. \A x \in es : <<x, x>> \notin order
      BY <1>1, <1>2
    <2>4. \A x, y, z \in es : <<x, y>> \in order /\ <<y, z>> \in order => <<x, z>> \in order
      BY <1>1, <1>2
    <2> QED
      BY <2>2, <2>3, <2>4 DEF StrictOrder
  <1>5. Sorts(s, es, order)
    BY <1>3, <1>4, InOrderSorts DEF ViewOK
  <1>6. /\ n \in Nat /\ s \in [1..n -> es]
        /\ \A i, j \in 1..n : i < j <=> <<s[i], s[j]>> \in order
    BY <1>5 DEF Sorts
  <1> HIDE DEF n
  <1>7. ASSUME NEW i \in 1..n, NEW j \in 1..n, s[i] = s[j] PROVE i = j
    <2>1. <<s[i], s[i]>> \notin order
      BY <1>4, <1>6 DEF StrictOrder
    <2>2. ~(i < j) /\ ~(j < i)
      BY <1>6, <1>7, <2>1
    <2> QED
      BY <1>6, <2>2
  <1> QED
    BY <1>6, <1>7 DEF n, s

(* Text search lists records that match.                                   *)
LEMMA TextPath ==
  ASSUME NEW corpus, NEW filter, NEW query, IsSeq(query), NEW k \in Nat,
         ViewOK(Matching(corpus.sealed, filter) \cup Matching(corpus.fresh, filter))
  PROVE  LET es == Matching(corpus.sealed, filter) \cup Matching(corpus.fresh, filter)
         IN  /\ ListOf(TextTopK(corpus, query, k, filter), IdsOf(es))
             /\ Len(TextTopK(corpus, query, k, filter)) <= k
  <1> DEFINE es == Matching(corpus.sealed, filter) \cup Matching(corpus.fresh, filter)
             n == Cardinality(es)
             cands == ById(es)
             docs == [d \in DOMAIN cands |-> DocOf(cands[d].rec.val.text)]
             terms == Tokenize(query)
             scores == Scores(docs, terms)
             ds == BestFirst(scores)
             m == Len(ds)
             path == HitsAt(cands, scores, ds)
             ids == IdsOf(es)
  <1>1. TextTopK(corpus, query, k, filter) = Truncated(path, k)
    BY Zenon DEF TextTopK, CandidateOrder, TextHits, Placed
  <1> HIDE DEF es
  <1>2. /\ n \in Nat /\ cands \in [1..n -> es] /\ DOMAIN cands = 1..n
        /\ \A i, j \in 1..n : cands[i] = cands[j] => i = j
    BY ByIdIs DEF es
  <1> HIDE DEF n, cands
  <1>3. \A d \in 1..n : DocOK(DocOf(cands[d].rec.val.text))
    <2> SUFFICES ASSUME NEW d \in 1..n PROVE DocOK(DocOf(cands[d].rec.val.text))
      OBVIOUS
    <2> DEFINE text == cands[d].rec.val.text
    <2>1. text = None \/ IsSeq(text)
      BY <1>2, QueryAssumption DEF ViewOK, es
    <2> HIDE DEF text
    <2>2. DocOK(DocOf(text))
      BY <2>1, DocOfIs
    <2> QED
      BY <2>2 DEF text
  <1>4. DocOK(terms)
    BY TokenizeIs
  <1> HIDE DEF terms
  <1>5. Len(docs) = n /\ DOMAIN docs = 1..n /\ \A d \in 1..n : DocOK(docs[d])
    BY <1>2, <1>3
  <1> HIDE DEF docs
  <1>6. scores \in [1..n -> Nat]
    BY <1>2, <1>4, <1>5, ScoresType
  <1> HIDE DEF scores
  <1>7. /\ m \in Nat /\ ds \in [1..m -> 1..n]
        /\ \A i, j \in 1..m : ds[i] = ds[j] => i = j
    BY <1>2, <1>6, BestFirstIs
  <1> HIDE DEF ds, m
  <1>8. path = [i \in 1..m |-> Hit(cands[ds[i]], scores[ds[i]])]
    BY <1>7 DEF HitsAt
  <1> HIDE DEF path
  <1>9. ASSUME NEW i \in 1..m
        PROVE  /\ cands[ds[i]] \in es /\ path[i] = Hit(cands[ds[i]], scores[ds[i]])
               /\ path[i] \in HitType /\ path[i].id = cands[ds[i]].rec.id
    <2>1. ds[i] \in 1..n /\ cands[ds[i]] \in es /\ scores[ds[i]] \in Nat
      BY <1>2, <1>6, <1>7
    <2>2. path[i] = Hit(cands[ds[i]], scores[ds[i]])
      BY <1>8
    <2> QED
      BY <2>1, <2>2, HitIs DEF es
  <1>10. Len(path) = m /\ path \in [1..m -> HitType]
    BY <1>7, <1>8, <1>9
  <1>11. ASSUME NEW i \in 1..m, NEW j \in 1..m, path[i].id = path[j].id PROVE i = j
    <2>1. cands[ds[i]] = cands[ds[j]]
      <3>1. \A e, o \in es : e.rec.id = o.rec.id => e = o
        BY DEF ViewOK, OnePerId, es
      <3> QED
        BY <1>9, <1>11, <3>1
    <2>2. ds[i] \in 1..n /\ ds[j] \in 1..n
      BY <1>7
    <2>3. ds[i] = ds[j]
      BY <1>2, <2>1, <2>2
    <2> QED
      BY <1>7, <2>3
  <1>12. \A i \in 1..m : path[i].id \in ids
    BY <1>9 DEF IdsOf
  <1> HIDE DEF ids
  <1>13. ListOf(path, ids)
    BY <1>7, <1>10, <1>11, <1>12 DEF ListOf
  <1>14. /\ ListOf(Truncated(path, k), ids)
         /\ Len(Truncated(path, k)) = Least(k, Len(path))
    BY <1>13, TruncatedIs
  <1>15. Len(Truncated(path, k)) <= k
    BY <1>7, <1>10, <1>14 DEF Least
  <1> QED
    BY <1>1, <1>14, <1>15 DEF ids, es

-----------------------------------------------------------------------------
(* Fusion.                                                                 *)

LEMMA Quotients ==
  \A a, b, c, d \in Nat \ {0} : a * c = b * d /\ c < d => b < a
  <1> SUFFICES ASSUME NEW a \in Nat \ {0}, NEW b \in Nat \ {0}, NEW c \in Nat \ {0}, NEW d \in Nat \ {0},
                      a * c = b * d, c < d, a <= b
               PROVE  FALSE
    OBVIOUS
  <1>1. a * c <= b * c
    BY \A x, y, z \in Nat : x <= y => x * z <= y * z
  <1>2. b * c < b * d
    BY \A x, y \in Nat, z \in Nat \ {0} : x < y => z * x < z * y
  <1>3. a * c \in Nat /\ b * c \in Nat /\ b * d \in Nat
    BY \A x, y \in Nat : x * y \in Nat
  <1> QED
    BY <1>1, <1>2, <1>3

(* A better rank gains more.                                               *)
LEMMA GainLess ==
  /\ \A rank \in 1..MaxK : Gain(rank) \in Nat \ {0}
  /\ \A rank, next \in 1..MaxK : rank < next => Gain(next) < Gain(rank)
  <1> DEFINE s == [i \in 1..MaxK |-> RRF_K + i]
  <1>1. MaxK \in Nat /\ s \in [1..MaxK -> Nat \ {0}]
    BY QueryAssumption DEF RRF_K
  <1>2. \A i \in 1..MaxK : s[i] = 60 + i
    BY DEF RRF_K
  <1>3. ASSUME NEW rank \in 1..MaxK
        PROVE  Gain(rank) \in Nat \ {0} /\ Gain(rank) * s[rank] = Product(s)
    <2> DEFINE t == [i \in 1..MaxK |-> IF i = rank THEN 1 ELSE s[i]]
    <2>1. Gain(rank) = Product(t)
      <3>1. t = [i \in 1..MaxK |-> IF i = rank THEN 1 ELSE RRF_K + i]
        OBVIOUS
      <3> HIDE DEF t
      <3> QED
        BY <3>1 DEF Gain
    <2>2. Product(t) \in Nat \ {0} /\ Product(t) * s[rank] = Product(s)
      <3> HIDE DEF s
      <3> QED
        BY <1>1, ProductWithout
    <2> QED
      BY <2>1, <2>2
  <1> HIDE DEF s
  <1>4. ASSUME NEW rank \in 1..MaxK, NEW next \in 1..MaxK, rank < next
        PROVE  Gain(next) < Gain(rank)
    <2>1. /\ Gain(rank) \in Nat \ {0} /\ Gain(next) \in Nat \ {0}
          /\ Gain(rank) * s[rank] = Gain(next) * s[next]
      BY <1>3
    <2>2. s[rank] \in Nat \ {0} /\ s[next] \in Nat \ {0} /\ s[rank] < s[next]
      BY <1>2, <1>4
    <2> QED
      BY <2>1, <2>2, Quotients
  <1> QED
    BY <1>3, <1>4

(* A path of one hit per id gives to an id what its place is worth.        *)
LEMMA PlaceIs ==
  ASSUME NEW path, NEW ids, ListOf(path, ids), NEW i \in 1..Len(path)
  PROVE  Place(path, path[i].id) = i /\ ~Missing(path, path[i].id)
  <1>1. /\ DOMAIN path = 1..Len(path)
        /\ \A h, j \in 1..Len(path) : path[h].id = path[j].id => h = j
    BY DEF ListOf
  <1> QED
    BY <1>1 DEF Place, Missing, HitIds

LEMMA PlaceOf ==
  ASSUME NEW path, NEW ids, ListOf(path, ids), NEW id, ~Missing(path, id)
  PROVE  Place(path, id) \in 1..Len(path) /\ path[Place(path, id)].id = id /\ id \in ids
  <1>1. DOMAIN path = 1..Len(path) /\ \A j \in 1..Len(path) : path[j].id \in ids
    BY DEF ListOf
  <1>2. PICK i \in 1..Len(path) : path[i].id = id
    BY <1>1 DEF Missing, HitIds
  <1> QED
    BY <1>1, <1>2, PlaceIs

LEMMA GainOfIs ==
  ASSUME NEW path, NEW ids, ListOf(path, ids), Len(path) <= MaxK, NEW id
  PROVE  /\ GainOf(path, id) \in Nat
         /\ Missing(path, id) => GainOf(path, id) = 0
         /\ ~Missing(path, id) => GainOf(path, id) = Gain(Place(path, id))
  <1> DEFINE n == Len(path)
             s == [rank \in DOMAIN path |-> IF path[rank].id = id THEN Gain(rank) ELSE 0]
  <1>1. n \in Nat /\ DOMAIN path = 1..n
    BY DEF ListOf
  <1>2. \A rank \in 1..n : rank \in 1..MaxK /\ Gain(rank) \in Nat
    BY <1>1, GainLess, QueryAssumption
  <1>3. GainOf(path, id) = Sum(s)
    BY DEF GainOf
  <1>4. s \in [1..n -> Nat]
    BY <1>1, <1>2
  <1>5. \A rank \in 1..n : s[rank] = IF path[rank].id = id THEN Gain(rank) ELSE 0
    BY <1>1
  <1> HIDE DEF s
  <1>6. ASSUME Missing(path, id) PROVE GainOf(path, id) = 0
    <2>1. \A rank \in 1..n : path[rank].id # id
      BY <1>1, <1>6 DEF Missing, HitIds
    <2>2. \A rank \in 1..n : s[rank] = 0
      BY <1>5, <2>1
    <2> HIDE DEF n
    <2> QED
      BY <1>1, <1>3, <1>4, <2>2, SumNone
  <1>7. ASSUME ~Missing(path, id) PROVE GainOf(path, id) = Gain(Place(path, id))
    <2> DEFINE k == Place(path, id)
    <2>1. k \in 1..n /\ path[k].id = id
      BY <1>7, PlaceOf
    <2> HIDE DEF k
    <2>2. \A rank \in 1..n : rank # k => path[rank].id # id
      BY <2>1 DEF ListOf
    <2>3. \A rank \in 1..n : rank # k => s[rank] = 0
      BY <1>5, <2>2
    <2>4. s[k] = Gain(k)
      BY <1>5, <2>1
    <2> HIDE DEF n
    <2>5. Sum(s) = s[k]
      BY <1>1, <1>4, <2>1, <2>3, SumOne
    <2> QED
      BY <1>3, <2>4, <2>5 DEF k
  <1>8. Sum(s) \in Nat
    <2> HIDE DEF n
    <2> QED
      BY <1>1, <1>4, SumType
  <1> QED
    BY <1>3, <1>6, <1>7, <1>8

LEMMA AheadGains ==
  ASSUME NEW path, NEW ids, ListOf(path, ids), Len(path) <= MaxK, NEW a, NEW b, Ahead(path, a, b)
  PROVE  /\ GainOf(path, b) <= GainOf(path, a)
         /\ ~Missing(path, b) => GainOf(path, b) < GainOf(path, a)
  <1>1. CASE Missing(path, b)
    BY <1>1, GainOfIs
  <1>2. CASE ~Missing(path, b)
    <2>1. ~Missing(path, a) /\ Place(path, a) < Place(path, b)
      BY <1>2 DEF Ahead
    <2>2. GainOf(path, b) = Gain(Place(path, b)) /\ GainOf(path, a) = Gain(Place(path, a))
      BY <1>2, <2>1, GainOfIs
    <2>3. Place(path, a) \in 1..Len(path) /\ Place(path, b) \in 1..Len(path) /\ Len(path) \in Nat
      BY <1>2, <2>1, PlaceOf DEF ListOf
    <2>4. Place(path, a) \in 1..MaxK /\ Place(path, b) \in 1..MaxK
      BY <2>3, QueryAssumption
    <2>5. Gain(Place(path, b)) < Gain(Place(path, a))
      BY <2>1, <2>4, GainLess
    <2>6. Gain(Place(path, b)) \in Nat /\ Gain(Place(path, a)) \in Nat
      BY <2>4, GainLess
    <2> QED
      BY <2>2, <2>5, <2>6
  <1> QED
    BY <1>1, <1>2

(* The paths of a query, of hits of these ids.                             *)
PathsOK(paths, ids) ==
    /\ Len(paths) \in Nat /\ DOMAIN paths = 1..Len(paths)
    /\ \A p \in 1..Len(paths) : ListOf(paths[p], ids) /\ Len(paths[p]) <= MaxK

LEMMA FusedType ==
  ASSUME NEW paths, NEW ids, PathsOK(paths, ids), NEW id
  PROVE  Fused(paths, id) \in Nat
  <1> DEFINE s == [p \in DOMAIN paths |-> GainOf(paths[p], id)]
  <1>1. Len(paths) \in Nat /\ s \in [1..Len(paths) -> Nat]
    BY GainOfIs DEF PathsOK
  <1>2. Fused(paths, id) = Sum(s)
    BY DEF Fused
  <1> HIDE DEF s
  <1> QED
    BY <1>1, <1>2, SumType

LEMMA AheadFused ==
  ASSUME NEW paths, NEW ids, PathsOK(paths, ids), NEW a, NEW b,
         \A p \in DOMAIN paths : Ahead(paths[p], a, b), NEW k \in 1..Len(paths), ~Missing(paths[k], b)
  PROVE  Fused(paths, b) < Fused(paths, a)
  <1> DEFINE s == [p \in DOMAIN paths |-> GainOf(paths[p], b)]
             t == [p \in DOMAIN paths |-> GainOf(paths[p], a)]
             n == Len(paths)
  <1>1. /\ n \in Nat /\ DOMAIN paths = 1..n
        /\ \A p \in 1..n : ListOf(paths[p], ids) /\ Len(paths[p]) <= MaxK
    BY DEF PathsOK
  <1>2. s \in [1..n -> Nat] /\ t \in [1..n -> Nat]
    BY <1>1, GainOfIs
  <1>3. \A p \in 1..n : s[p] = GainOf(paths[p], b) /\ t[p] = GainOf(paths[p], a)
    BY <1>1
  <1>4. Fused(paths, b) = Sum(s) /\ Fused(paths, a) = Sum(t)
    BY DEF Fused
  <1> HIDE DEF s, t
  <1>5. \A p \in 1..n : s[p] <= t[p]
    BY <1>1, <1>3, AheadGains
  <1>6. s[k] < t[k]
    BY <1>1, <1>3, AheadGains
  <1>7. k \in 1..n
    OBVIOUS
  <1> HIDE DEF n
  <1> QED
    BY <1>1, <1>2, <1>4, <1>5, <1>6, <1>7, SumLess

(* Every hit has a first occurrence of its id, and one only.               *)
LEMMA PositionsAre ==
  ASSUME NEW paths, NEW ids, PathsOK(paths, ids)
  PROVE  /\ \A p \in 1..Len(paths) : \A i \in 1..Len(paths[p]) :
               <<p, i>> \in Positions(paths) /\ HitAt(paths, <<p, i>>) = paths[p][i]
         /\ \A pos \in Positions(paths) :
               /\ pos = <<pos[1], pos[2]>> /\ pos[1] \in 1..Len(paths) /\ pos[2] \in 1..Len(paths[pos[1]])
               /\ pos[1] \in Nat /\ pos[2] \in Nat
               /\ HitAt(paths, pos) \in HitType /\ HitAt(paths, pos).id \in ids
  <1>1. /\ DOMAIN paths = 1..Len(paths) /\ Len(paths) \in Nat
        /\ \A p \in 1..Len(paths) :
              /\ DOMAIN paths[p] = 1..Len(paths[p]) /\ Len(paths[p]) \in Nat
              /\ \A i \in 1..Len(paths[p]) : paths[p][i] \in HitType /\ paths[p][i].id \in ids
    BY DEF PathsOK, ListOf
  <1>2. Positions(paths) = UNION {{<<p, i>> : i \in 1..Len(paths[p])} : p \in 1..Len(paths)}
    BY <1>1 DEF Positions
  <1>3. ASSUME NEW pos \in Positions(paths)
        PROVE  \E p \in 1..Len(paths) : \E i \in 1..Len(paths[p]) : pos = <<p, i>>
    BY <1>2
  <1>4. ASSUME NEW p \in 1..Len(paths), NEW i \in 1..Len(paths[p])
        PROVE  <<p, i>> \in Positions(paths)
    BY <1>2
  <1> QED
    BY <1>1, <1>3, <1>4 DEF HitAt

LEMMA FirstExists ==
  ASSUME NEW paths, NEW ids, PathsOK(paths, ids), NEW pos \in Positions(paths)
  PROVE  \E first \in Firsts(paths) : HitAt(paths, first).id = HitAt(paths, pos).id
  <1> DEFINE id == HitAt(paths, pos).id
             Has(p, i) == <<p, i>> \in Positions(paths) /\ HitAt(paths, <<p, i>>).id = id
             P == {p \in Nat : \E i \in Nat : Has(p, i)}
  <1>1. pos[1] \in Nat /\ pos[2] \in Nat /\ Has(pos[1], pos[2])
    BY PositionsAre
  <1> HIDE DEF Has
  <1>2. P # {} /\ P \subseteq Nat
    BY <1>1
  <1>3. PICK p \in P : \A q \in P : p <= q
    <2> HIDE DEF P
    <2> QED
      BY <1>2, LeastExists
  <1> DEFINE R == {i \in Nat : Has(p, i)}
  <1>4. R # {} /\ R \subseteq Nat
    BY <1>3
  <1>5. PICK i \in R : \A j \in R : i <= j
    <2> HIDE DEF R, P
    <2> QED
      BY <1>4, LeastExists
  <1>6. Has(p, i) /\ p \in Nat /\ i \in Nat
    BY <1>3, <1>5
  <1>7. ASSUME NEW o \in Positions(paths), Earlier(o, <<p, i>>) PROVE HitAt(paths, o).id # id
    <2> SUFFICES ASSUME HitAt(paths, o).id = id PROVE FALSE
      OBVIOUS
    <2>1. o = <<o[1], o[2]>> /\ o[1] \in Nat /\ o[2] \in Nat
      BY PositionsAre
    <2>2. Has(o[1], o[2])
      BY <2>1 DEF Has
    <2>3. p <= o[1]
      BY <1>3, <2>1, <2>2
    <2>4. o[1] = p => i <= o[2]
      BY <1>5, <2>1, <2>2
    <2> QED
      BY <1>6, <1>7, <2>1, <2>3, <2>4 DEF Earlier
  <1>8. <<p, i>> \in Firsts(paths) /\ HitAt(paths, <<p, i>>).id = id
    BY <1>6, <1>7 DEF Firsts, Has
  <1> QED
    BY <1>8

LEMMA FirstsDiffer ==
  ASSUME NEW paths, NEW ids, PathsOK(paths, ids), NEW a \in Firsts(paths), NEW b \in Firsts(paths),
         HitAt(paths, a).id = HitAt(paths, b).id
  PROVE  a = b
  <1>1. a \in Positions(paths) /\ b \in Positions(paths) /\ ~Earlier(a, b) /\ ~Earlier(b, a)
    BY DEF Firsts
  <1>2. /\ a = <<a[1], a[2]>> /\ a[1] \in Nat /\ a[2] \in Nat
        /\ b = <<b[1], b[2]>> /\ b[1] \in Nat /\ b[2] \in Nat
    BY <1>1, PositionsAre
  <1>3. a[1] = b[1] /\ a[2] = b[2]
    BY <1>1, <1>2 DEF Earlier
  <1> QED
    BY <1>2, <1>3

(* The fused hits: one of each id of the paths, with what the paths give.  *)
FusedHits(paths) ==
    {[HitAt(paths, pos) EXCEPT !.score = Fused(paths, HitAt(paths, pos).id)] : pos \in Firsts(paths)}

LEMMA FusedHitsAre ==
  ASSUME NEW paths, NEW ids, PathsOK(paths, ids), IsFiniteSet(ids)
  PROVE  /\ OneHitPerId(FusedHits(paths))
         /\ Cardinality(FusedHits(paths)) <= Cardinality(ids)
         /\ \A h \in FusedHits(paths) : h.score = Fused(paths, h.id)
         /\ {h.id : h \in FusedHits(paths)} = UNION {HitIds(paths[p]) : p \in DOMAIN paths}
         /\ {h.id : h \in FusedHits(paths)} \subseteq ids
  <1> DEFINE hits == FusedHits(paths)
             New(pos) == [HitAt(paths, pos) EXCEPT !.score = Fused(paths, HitAt(paths, pos).id)]
             f == [h \in hits |-> h.id]
  <1>1. hits = {New(pos) : pos \in Firsts(paths)}
    BY DEF FusedHits
  <1>2. \A pos \in Firsts(paths) : pos \in Positions(paths)
    BY DEF Firsts
  <1>3. ASSUME NEW pos \in Firsts(paths)
        PROVE  /\ New(pos) \in HitType /\ New(pos).id = HitAt(paths, pos).id /\ New(pos).id \in ids
               /\ New(pos).score = Fused(paths, New(pos).id)
    <2>1. HitAt(paths, pos) \in HitType /\ HitAt(paths, pos).id \in ids
      BY <1>2, PositionsAre
    <2>2. Fused(paths, HitAt(paths, pos).id) \in Nat
      BY FusedType
    <2> QED
      BY <2>1, <2>2, HitTypes
  <1> HIDE DEF New
  <1>4. \A h \in hits : h \in HitType /\ h.id \in ids /\ h.score = Fused(paths, h.id)
    BY <1>1, <1>3
  <1>5. ASSUME NEW g \in hits, NEW h \in hits, g.id = h.id PROVE g = h
    <2>1. PICK a \in Firsts(paths) : g = New(a)
      BY <1>1
    <2>2. PICK b \in Firsts(paths) : h = New(b)
      BY <1>1
    <2>3. HitAt(paths, a).id = HitAt(paths, b).id
      BY <1>3, <1>5, <2>1, <2>2
    <2>4. a = b
      BY <2>3, FirstsDiffer
    <2> QED
      BY <2>1, <2>2, <2>4
  <1>6. IsFiniteSet(hits) /\ Cardinality(hits) <= Cardinality(ids)
    <2>1. f \in Injection(hits, ids)
      BY <1>4, <1>5 DEF Injection, IsInjective
    <2> HIDE DEF f, hits
    <2> QED
      BY <2>1, FS_Injection
  <1>7. \A p \in 1..Len(paths) : DOMAIN paths[p] = 1..Len(paths[p])
    BY DEF PathsOK, ListOf
  <1>8. DOMAIN paths = 1..Len(paths)
    BY DEF PathsOK
  <1>9. {h.id : h \in hits} \subseteq UNION {HitIds(paths[p]) : p \in DOMAIN paths}
    <2> SUFFICES ASSUME NEW h \in hits
                 PROVE  \E p \in DOMAIN paths : h.id \in HitIds(paths[p])
      OBVIOUS
    <2>1. PICK pos \in Firsts(paths) : h = New(pos)
      BY <1>1
    <2>2. /\ pos[1] \in 1..Len(paths) /\ pos[2] \in 1..Len(paths[pos[1]])
          /\ pos = <<pos[1], pos[2]>>
      BY <1>2, PositionsAre
    <2>3. HitAt(paths, pos) = paths[pos[1]][pos[2]]
      BY DEF HitAt
    <2>4. h.id = paths[pos[1]][pos[2]].id
      BY <1>3, <2>1, <2>3
    <2> QED
      BY <1>7, <1>8, <2>2, <2>4 DEF HitIds
  <1>10. UNION {HitIds(paths[p]) : p \in DOMAIN paths} \subseteq {h.id : h \in hits}
    <2> SUFFICES ASSUME NEW p \in 1..Len(paths), NEW i \in 1..Len(paths[p])
                 PROVE  \E h \in hits : h.id = paths[p][i].id
      BY <1>7, <1>8 DEF HitIds
    <2>1. <<p, i>> \in Positions(paths) /\ HitAt(paths, <<p, i>>) = paths[p][i]
      BY PositionsAre
    <2>2. PICK first \in Firsts(paths) : HitAt(paths, first).id = HitAt(paths, <<p, i>>).id
      BY <2>1, FirstExists
    <2>3. New(first) \in hits
      BY <1>1
    <2>4. New(first).id = paths[p][i].id
      BY <1>3, <2>1, <2>2
    <2> QED
      BY <2>3, <2>4
  <1>11. OneHitPerId(hits)
    BY <1>4, <1>5, <1>6 DEF OneHitPerId
  <1>12. {h.id : h \in hits} \subseteq ids
    BY <1>4
  <1> QED
    BY <1>4, <1>6, <1>9, <1>10, <1>11, <1>12

LEMMA IdsFinite ==
  ASSUME NEW es, ViewOK(es)
  PROVE  IsFiniteSet(IdsOf(es)) /\ Cardinality(IdsOf(es)) <= Cardinality(es)
  <1> DEFINE f == [e \in es |-> e.rec.id]
  <1>1. f \in Surjection(es, IdsOf(es))
    BY DEF Surjection, IdsOf
  <1> HIDE DEF f
  <1> QED
    BY <1>1, FS_Surjection DEF ViewOK

(* No hit of a fusion of paths is missing where there is room for all of   *)
(* the records, and there are no others.                                   *)
LEMMA FusionBinds ==
  ASSUME NEW es, ViewOK(es), NEW paths, PathsOK(paths, IdsOf(es))
  PROVE  PathsBound(es, paths)
  <1> DEFINE hits == FusedHits(paths)
             n == Cardinality(hits)
             k == Cardinality(es)
             s == Ranked(hits)
             ids == {h.id : h \in hits}
             fused == Truncated(s, k)
  <1>1. IsFiniteSet(IdsOf(es)) /\ Cardinality(IdsOf(es)) <= k
    BY IdsFinite
  <1>2. /\ OneHitPerId(hits) /\ n <= Cardinality(IdsOf(es))
        /\ ids = UNION {HitIds(paths[p]) : p \in DOMAIN paths} /\ ids \subseteq IdsOf(es)
    BY <1>1, FusedHitsAre
  <1>3. n \in Nat /\ k \in Nat /\ Cardinality(IdsOf(es)) \in Nat
    BY <1>1, <1>2, FS_CardinalityType DEF OneHitPerId, ViewOK
  <1>4. n <= k
    BY <1>1, <1>2, <1>3
  <1>5. RrfFuse(paths, k) = fused
    BY Zenon DEF RrfFuse, FuseAll, FusedHits
  <1> HIDE DEF hits
  <1>6. /\ ListOf(s, ids) /\ Len(s) = n /\ \A i \in 1..n : s[i] \in hits
        /\ \A h \in hits : \E i \in 1..n : s[i] = h
    BY <1>2, RankedSorts
  <1> HIDE DEF n, k, s
  <1>7. Least(k, n) = n
    BY <1>3, <1>4 DEF Least
  <1>8. Len(fused) = n /\ ListOf(fused, ids) /\ \A i \in 1..n : fused[i] = s[i]
    <2>1. Least(k, Len(s)) = n /\ ListOf(s, ids)
      BY <1>6, <1>7
    <2> HIDE DEF ids
    <2> QED
      BY <1>3, <2>1, TruncatedIs
  <1> HIDE DEF fused
  <1>9. HitIds(fused) = {fused[i].id : i \in 1..n}
    BY <1>8 DEF HitIds, ListOf
  <1>10. HitIds(fused) = ids
    BY <1>6, <1>8, <1>9
  <1>11. FusionBound(es, paths, fused)
    BY <1>2, <1>10 DEF FusionBound
  <1> QED
    BY <1>5, <1>11 DEF PathsBound, k

(* What every path puts ahead, their fusion does.                          *)
LEMMA FusionKeepsAhead ==
  ASSUME NEW paths, NEW ids, PathsOK(paths, ids), IsFiniteSet(ids)
  PROVE  FusionRespects(paths)
  <1> DEFINE hits == FusedHits(paths)
             n == Cardinality(hits)
             m == Least(MaxK, n)
             s == Ranked(hits)
             fused == Truncated(s, MaxK)
             all == {h.id : h \in hits}
  <1>1. RrfFuse(paths, MaxK) = fused
    BY Zenon DEF RrfFuse, FuseAll, FusedHits
  <1>2. /\ OneHitPerId(hits) /\ \A h \in hits : h.score = Fused(paths, h.id)
        /\ all = UNION {HitIds(paths[p]) : p \in DOMAIN paths}
    BY FusedHitsAre
  <1>3. /\ DOMAIN paths = 1..Len(paths) /\ \A p \in 1..Len(paths) : ListOf(paths[p], ids)
    BY DEF PathsOK
  <1>4. \A h \in hits : h.score \in Nat
    BY <1>2, FusedType
  <1> HIDE DEF hits
  <1>5. /\ ListOf(s, all) /\ Len(s) = n /\ \A i \in 1..n : s[i] \in hits
        /\ \A h \in hits : \E i \in 1..n : s[i] = h
        /\ \A i, j \in 1..n : i < j <=> Better(s[i], s[j])
    BY <1>2, RankedSorts
  <1> HIDE DEF n, s
  <1>6. /\ MaxK \in Nat /\ n \in Nat /\ m \in Nat /\ m <= n
    BY <1>5, QueryAssumption DEF ListOf, Least
  <1>7. Len(fused) = m /\ ListOf(fused, all) /\ \A i \in 1..m : fused[i] = s[i]
    BY <1>5, <1>6, TruncatedIs
  <1> HIDE DEF fused, m
  <1>8. ASSUME NEW b \in HitIds(fused), NEW a, a # b, \A p \in DOMAIN paths : Ahead(paths[p], a, b)
        PROVE  Ahead(fused, a, b)
    <2>1. PICK j \in 1..m : fused[j].id = b
      BY <1>7 DEF HitIds, ListOf
    <2>2. j \in 1..n /\ s[j] \in hits /\ s[j].id = b
      BY <1>5, <1>6, <1>7, <2>1
    <2>3. PICK p \in 1..Len(paths) : b \in HitIds(paths[p])
      BY <1>2, <1>3, <2>2
    <2>4. ~Missing(paths[p], b)
      BY <2>3 DEF Missing
    <2>5. ~Missing(paths[p], a)
      BY <1>3, <1>8, <2>4 DEF Ahead
    <2>6. a \in all
      BY <1>2, <1>3, <2>5 DEF Missing
    <2>7. PICK i \in 1..n : s[i].id = a
      BY <1>5, <2>6
    <2>8. Fused(paths, b) < Fused(paths, a)
      BY <1>8, <2>4, AheadFused
    <2>9. Better(s[i], s[j])
      <3>1. s[i] \in hits /\ s[i].score = Fused(paths, a) /\ s[j].score = Fused(paths, b)
        BY <1>2, <1>5, <2>2, <2>7
      <3>2. s[i].score \in Nat /\ s[j].score \in Nat
        BY <1>4, <2>2, <3>1
      <3> QED
        BY <2>8, <3>1, <3>2 DEF Better
    <2>10. i < j
      BY <1>5, <2>2, <2>9
    <2>11. i \in 1..m
      BY <1>6, <2>1, <2>10
    <2>12. fused[i].id = a
      BY <1>7, <2>7, <2>11
    <2>13. Len(fused) = m /\ i \in 1..Len(fused) /\ j \in 1..Len(fused)
      BY <1>7, <2>11
    <2>14. Place(fused, a) = i /\ ~Missing(fused, a)
      BY <1>7, <2>12, <2>13, PlaceIs
    <2>15. Place(fused, b) = j
      BY <1>7, <2>1, <2>13, PlaceIs
    <2> QED
      BY <2>10, <2>14, <2>15 DEF Ahead
  <1>9. Respects(fused, paths)
    BY <1>8 DEF Respects
  <1> QED
    BY <1>1, <1>9 DEF FusionRespects

-----------------------------------------------------------------------------
(* The paths of a query.                                                   *)

LEMMA PathsAre ==
  ASSUME NEW corpus, ViewOK(corpus.view), corpus.sealed \cup corpus.fresh = corpus.view,
         NEW query, IsSeq(query), NEW filter, NEW by \in Ways
  PROVE  PathsOK(Paths(by, corpus, query, MaxK, filter), IdsOf(Matching(corpus.view, filter)))
  <1> DEFINE ids == IdsOf(Matching(corpus.view, filter))
             es == Matching(corpus.sealed, filter) \cup Matching(corpus.fresh, filter)
             scan == FilteredTopK(corpus.view, MaxK, filter)
             text == TextTopK(corpus, query, MaxK, filter)
             paths == Paths(by, corpus, query, MaxK, filter)
  <1>1. MaxK \in Nat
    BY QueryAssumption
  <1>2. ListOf(scan, ids) /\ Len(scan) <= MaxK
    BY <1>1, ScanPath
  <1>3. es = Matching(corpus.view, filter)
    BY DEF Matching
  <1>4. ViewOK(es)
    <2>1. ViewOK(Matching(corpus.view, filter))
      BY ViewPart DEF Matching
    <2> QED
      BY <1>3, <2>1
  <1>5. ListOf(text, IdsOf(es)) /\ Len(text) <= MaxK
    BY <1>1, <1>4, TextPath
  <1>6. ListOf(text, ids) /\ Len(text) <= MaxK
    BY <1>3, <1>5
  <1>7. paths = (IF "vector" \in by THEN <<scan>> ELSE <<>>) \o (IF "text" \in by THEN <<text>> ELSE <<>>)
    BY DEF Paths
  <1> HIDE DEF ids, es, scan, text, paths
  <1>8. ASSUME NEW s, NEW t, s \in Seq({scan, text}), t \in Seq({scan, text}), paths = s \o t
        PROVE  /\ Len(paths) \in Nat /\ DOMAIN paths = 1..Len(paths)
               /\ \A p \in 1..Len(paths) : paths[p] = scan \/ paths[p] = text
    <2>1. paths \in Seq({scan, text})
      BY <1>8
    <2>2. \A p \in 1..Len(paths) : paths[p] \in {scan, text}
      BY <2>1
    <2> QED
      BY <2>1, <2>2
  <1>9. /\ Len(paths) \in Nat /\ DOMAIN paths = 1..Len(paths)
        /\ \A p \in 1..Len(paths) : paths[p] = scan \/ paths[p] = text
    <2> DEFINE s == IF "vector" \in by THEN <<scan>> ELSE <<>>
               t == IF "text" \in by THEN <<text>> ELSE <<>>
    <2>1. s \in Seq({scan, text}) /\ t \in Seq({scan, text})
      <3>1. <<scan>> \in Seq({scan, text}) /\ <<text>> \in Seq({scan, text}) /\ <<>> \in Seq({scan, text})
        OBVIOUS
      <3>2. s \in {<<scan>>, <<>>} /\ t \in {<<text>>, <<>>}
        OBVIOUS
      <3> QED
        BY <3>1, <3>2
    <2>2. paths = s \o t
      BY <1>7
    <2> HIDE DEF s, t
    <2> QED
      BY <1>8, <2>1, <2>2
  <1>10. \A p \in 1..Len(paths) : ListOf(paths[p], ids) /\ Len(paths[p]) <= MaxK
    BY <1>2, <1>6, <1>9
  <1> QED
    BY <1>9, <1>10 DEF PathsOK, ids, paths

(* The plain scan has the k best, whichever it returns of equal ones.      *)
LEMMA ScanIsBound ==
  ASSUME NEW corpus, ViewOK(corpus.view), NEW filter
  PROVE  ScanBound(corpus, filter, Matching(corpus.view, filter))
  <1> DEFINE eligible == Matching(corpus.view, filter)
  <1> SUFFICES ASSUME NEW k \in Ks, NEW hits \in PySearch(corpus, k, filter)
               PROVE  \E best \in TopK(eligible, k) : IdsIn(hits) = IdsOf(best)
    BY DEF ScanBound
  <1>1. k \in Nat
    BY QueryAssumption DEF Ks
  <1>2. CASE filter = {}
    <2>1. eligible = corpus.view
      BY <1>2 DEF Matching, Satisfies
    <2>2. PICK best \in TopK(corpus.view, k) : hits = {Hit(e, Score(e)) : e \in best}
      BY <1>2 DEF PySearch
    <2>3. IdsIn(hits) = IdsOf(best)
      <3>1. \A e \in best : Hit(e, Score(e)).id = e.rec.id
        BY DEF Hit
      <3> QED
        BY <2>2, <3>1 DEF IdsIn, IdsOf
    <2> QED
      BY <2>1, <2>2, <2>3
  <1>3. CASE filter # {}
    <2> DEFINE path == FilteredTopK(corpus.view, k, filter)
    <2>1. hits = {path[i] : i \in DOMAIN path}
      BY <1>3 DEF PySearch
    <2>2. IdsIn(hits) = HitIds(path)
      <3> HIDE DEF path
      <3> QED
        BY <2>1 DEF IdsIn, HitIds
    <2>3. PICK best \in TopK(eligible, k) : HitIds(path) = IdsOf(best)
      BY <1>1, ScanIsBest
    <2> QED
      BY <2>2, <2>3
  <1> QED
    BY <1>2, <1>3

-----------------------------------------------------------------------------
(* A record's own metadata.                                                *)

LEMMA MetaComesBack ==
  ASSUME NEW x, MetaValue(x)
  PROVE  ToMeta(FromMeta(x)) = {x} /\ (FromMeta(x).kind = "nan" <=> x = NaN)
  <1>1. CASE x = NaN
    <2>1. FromMeta(x) = [kind |-> "nan", v |-> 0]
      BY <1>1 DEF FromMeta, NaN
    <2> QED
      BY <1>1, <2>1 DEF ToMeta, IsInt
  <1> DEFINE Other == x = [kind |-> x.kind, v |-> x.v] /\ x.kind # "NaN"
  <1>2. CASE Other /\ x.kind = "Int" /\ x.v \in Int64
    <2>1. FromMeta(x) = [kind |-> "int", v |-> x.v]
      BY <1>2 DEF FromMeta
    <2>2. IsInt(FromMeta(x)) /\ FromMeta(x).v = x.v /\ FromMeta(x).kind # "nan"
      BY <2>1 DEF IsInt
    <2>3. IntOf(x.v) = x /\ x # NaN
      BY <1>2 DEF IntOf, NaN
    <2> QED
      BY <1>2, <2>2, <2>3 DEF ToMeta
  <1>3. CASE Other /\ x.kind = "Float"
    <2>1. FromMeta(x) = [kind |-> "float", v |-> x.v]
      BY <1>3 DEF FromMeta
    <2>2. ~IsInt(FromMeta(x)) /\ FromMeta(x).kind = "float" /\ FromMeta(x).v = x.v
      BY <2>1 DEF IsInt
    <2>3. FloatOf(x.v) = x /\ x # NaN
      BY <1>3 DEF FloatOf, NaN
    <2> QED
      BY <2>2, <2>3 DEF ToMeta
  <1>4. CASE Other /\ x.kind \in {"str", "bytes"}
    <2>1. FromMeta(x) = x
      BY <1>4 DEF FromMeta
    <2> QED
      BY <1>4, <2>1 DEF ToMeta, IsInt, NaN
  <1> QED
    BY <1>1, <1>2, <1>3, <1>4 DEF MetaValue

(* The dict that is shown of a record is a filter, and the record has it   *)
(* if all of its values are equal to themselves.                           *)
LEMMA OwnDictMatches ==
  ASSUME NEW e, e.rec.val \in Vals, NEW w, w = [form |-> "dict", pairs |-> RecordDict(e).meta]
  PROVE  \E filter \in CoerceWhere(w) :
            Satisfies(e, filter) <=> \A p \in w.pairs : p[2].kind # "nan"
  <1> DEFINE meta == e.rec.val.meta
             specs == SpecsOf(w)
             filter == UNION {PredicateOf(spec) : spec \in specs}
  <1>1. \A p \in meta : MetaValue(p[2])
    BY ClientAssumption
  <1>2. w.pairs = {<<p[1], FromMeta(p[2])>> : p \in meta}
    BY DEF RecordDict
  <1>3. specs = {[op |-> "eq", field |-> q[1], value |-> q[2]] : q \in w.pairs}
    BY DEF SpecsOf
  <1> HIDE DEF specs
  <1>4. ASSUME NEW p \in meta, NEW spec, spec = [op |-> "eq", field |-> p[1], value |-> FromMeta(p[2])]
        PROVE  PredicateOf(spec) = {Equal(p[1], p[2])}
    <2>1. PredicateOf(spec) = {Equal(p[1], x) : x \in ToMeta(FromMeta(p[2]))}
      BY <1>4 DEF PredicateOf
    <2>2. ToMeta(FromMeta(p[2])) = {p[2]}
      BY <1>1, MetaComesBack
    <2> QED
      BY <2>1, <2>2
  <1>5. ASSUME NEW spec \in specs
        PROVE  \E p \in meta : PredicateOf(spec) = {Equal(p[1], p[2])}
    <2>1. PICK p \in meta : spec = [op |-> "eq", field |-> p[1], value |-> FromMeta(p[2])]
      BY <1>2, <1>3
    <2> QED
      BY <1>4, <2>1
  <1>6. ASSUME NEW p \in meta PROVE Equal(p[1], p[2]) \in filter
    <2> DEFINE spec == [op |-> "eq", field |-> p[1], value |-> FromMeta(p[2])]
    <2>1. spec \in specs
      <3>1. <<p[1], FromMeta(p[2])>> \in w.pairs
        BY <1>2
      <3> QED
        BY <1>3, <3>1
    <2>2. PredicateOf(spec) = {Equal(p[1], p[2])}
      BY <1>4
    <2> QED
      BY <2>1, <2>2
  <1>7. CoerceWhere(w) = {filter}
    <2>1. \A spec \in specs : PredicateOf(spec) # {}
      BY <1>5
    <2> QED
      BY <2>1 DEF CoerceWhere, Conjunction, specs
  <1>8. ASSUME NEW p \in meta
        PROVE  Matches(Equal(p[1], p[2]), meta) = Yes <=> p[2] # NaN
    <2> DEFINE q == Equal(p[1], p[2])
    <2>1. q.op = "Eq" /\ q.field = p[1] /\ q.values = {p[2]}
      BY DEF Equal
    <2>2. p[2] \in ValuesOf(meta, q.field)
      BY <2>1 DEF ValuesOf
    <2> HIDE DEF q
    <2>3. Matches(q, meta) = Verdict(HasOneOf(meta, q))
      BY <2>1 DEF Matches
    <2>4. HasOneOf(meta, q) <=> p[2] # NaN
      BY <2>1, <2>2 DEF HasOneOf, MetaEq
    <2>5. Matches(q, meta) = Yes <=> p[2] # NaN
      BY <2>3, <2>4 DEF Verdict, Yes, No
    <2> QED
      BY <2>5 DEF q
  <1>9. \A q \in filter : \E p \in meta : q = Equal(p[1], p[2])
    BY <1>5
  <1>10. \A p \in meta : FromMeta(p[2]).kind = "nan" <=> p[2] = NaN
    BY <1>1, MetaComesBack
  <1> HIDE DEF filter
  <1>11. Satisfies(e, filter) <=> \A p \in meta : p[2] # NaN
    BY <1>6, <1>8, <1>9 DEF Satisfies
  <1>12. (\A p \in w.pairs : p[2].kind # "nan") <=> \A p \in meta : p[2] # NaN
    <2>1. \A p \in meta : <<p[1], FromMeta(p[2])>> \in w.pairs
      BY <1>2
    <2>2. \A q \in w.pairs : \E p \in meta : q[2] = FromMeta(p[2])
      BY <1>2
    <2>3. ASSUME NEW p \in meta, \A q \in w.pairs : q[2].kind # "nan" PROVE p[2] # NaN
      BY <1>10, <2>1, <2>3
    <2>4. ASSUME NEW q \in w.pairs, \A p \in meta : p[2] # NaN PROVE q[2].kind # "nan"
      BY <1>10, <2>2, <2>4
    <2> QED
      BY <2>3, <2>4
  <1> QED
    BY <1>7, <1>11, <1>12

-----------------------------------------------------------------------------
(* Queries over the reachable states.                                      *)

LEMMA CorpusIs ==
  ASSUME IInv, FiniteTiers, Ready
  PROVE  /\ Corpus.view = Merged(seg, l0)
         /\ Corpus.sealed \cup Corpus.fresh = Corpus.view
         /\ ViewOK(Corpus.view)
         /\ \A id \in Ids : Get(id) = {e \in Corpus.view : e.rec.id = id}
  <1> DEFINE es == Merged(seg, l0)
  <1>1. /\ TextCandidates = es
        /\ \A id \in Ids : Get(id) = {e \in es : e.rec.id = id}
    BY ReadsOneAnswer DEF ReadPathsAgree, Ready, Idle
  <1>2. Sealable(es) /\ es \subseteq seg \cup l0
    BY MergedSealable DEF IInv
  <1>3. IsFiniteSet(es)
    BY <1>2, FS_Union, FS_Subset DEF FiniteTiers
  <1> HIDE DEF es
  <1>4. Corpus = [view |-> es, sealed |-> es \cap seg, fresh |-> es \ seg]
    BY <1>1 DEF Corpus, CorpusOf, es
  <1>5. Corpus.view = es /\ Corpus.sealed \cup Corpus.fresh = es
    BY <1>4
  <1>6. \A e \in es : e.rec \in Record /\ e.seq \in Nat
    BY <1>2, EntryTypes DEF Sealable, Records, Record, Tombstone
  <1>7. \A e \in es : e.rec.id \in Ids /\ e.rec.val \in Vals
    BY <1>6 DEF Record
  <1>8. ViewOK(es)
    BY <1>2, <1>3, <1>6, <1>7 DEF ViewOK, Sealable
  <1> QED
    BY <1>1, <1>5, <1>8 DEF es

LEMMA QueriesBound ==
  ASSUME IInv, FiniteTiers, Ready
  PROVE  FilterBindsEveryPath /\ FusionRespectsPaths
  <1> DEFINE es == Corpus.view
  <1>1. /\ es = Merged(seg, l0) /\ Corpus.sealed \cup Corpus.fresh = Corpus.view /\ ViewOK(Corpus.view)
        /\ \A id \in Ids : Get(id) = {e \in es : e.rec.id = id}
    BY CorpusIs
  <1>2. ASSUME NEW filter PROVE ViewOK(Matching(es, filter))
    BY <1>1, ViewPart DEF Matching
  <1>3. ASSUME NEW filter, NEW query \in TextQueries, NEW by \in Ways
        PROVE  PathsOK(Paths(by, Corpus, query, MaxK, filter), IdsOf(Matching(es, filter)))
    <2>1. IsSeq(query)
      BY ClientAssumption
    <2> QED
      BY <1>1, <2>1, PathsAre
  <1>4. ASSUME NEW filter PROVE FilterBound(Corpus, filter, Matching(es, filter))
    <2>1. ScanBound(Corpus, filter, Matching(es, filter))
      BY <1>1, ScanIsBound
    <2>2. ASSUME NEW query \in TextQueries, NEW by \in Ways
          PROVE  PathsBound(Matching(es, filter), Paths(by, Corpus, query, MaxK, filter))
      BY <1>2, <1>3, FusionBinds
    <2> QED
      BY <2>1, <2>2 DEF FilterBound
  <1>5. EveryFilterBound(Corpus, Filters)
    BY <1>4 DEF EveryFilterBound
  <1>6. ASSUME NEW id \in Ids, NEW w \in OwnDict(id)
        PROVE  \E filter \in CoerceWhere(w) :
                  id \in IdsOf(Matching(Merged(seg, l0), filter))
                  <=> \A p \in w.pairs : p[2].kind # "nan"
    <2>1. PICK e \in Get(id) : w = [form |-> "dict", pairs |-> RecordDict(e).meta]
      BY DEF OwnDict, Shown
    <2>2. e \in es /\ e.rec.id = id
      BY <1>1, <2>1
    <2>3. e.rec.val \in Vals
      BY <1>1, <2>2 DEF ViewOK
    <2>4. PICK filter \in CoerceWhere(w) :
              Satisfies(e, filter) <=> \A p \in w.pairs : p[2].kind # "nan"
      BY <2>1, <2>3, OwnDictMatches
    <2>5. \A o \in es : o.rec.id = id => o = e
      BY <1>1, <2>2 DEF ViewOK, OnePerId
    <2>6. id \in IdsOf(Matching(Merged(seg, l0), filter)) <=> Satisfies(e, filter)
      <3>1. Satisfies(e, filter) => e \in Matching(es, filter)
        BY <2>2 DEF Matching
      <3>2. \A o \in Matching(es, filter) : o.rec.id = id => Satisfies(e, filter)
        BY <2>5 DEF Matching
      <3> HIDE DEF es
      <3> QED
        BY <1>1, <2>2, <3>1, <3>2 DEF IdsOf
    <2> QED
      BY <2>4, <2>6
  <1>7. FilterBindsEveryPath
    BY <1>5, <1>6 DEF FilterBindsEveryPath
  <1>8. ASSUME NEW query \in TextQueries, NEW filter PROVE FusionRespects(BothPaths(Corpus, query, filter))
    <2>1. {"vector", "text"} \in Ways
      BY DEF Ways
    <2>2. PathsOK(BothPaths(Corpus, query, filter), IdsOf(Matching(es, filter)))
      BY <1>3, <2>1 DEF BothPaths
    <2>3. IsFiniteSet(IdsOf(Matching(es, filter)))
      BY <1>2, IdsFinite
    <2> QED
      BY <2>2, <2>3, FusionKeepsAhead
  <1>9. FusionRespectsPaths
    BY <1>8 DEF FusionRespectsPaths
  <1> QED
    BY <1>7, <1>9

LEMMA BindingFinite ==
  ASSUME "use_after_drop" \notin Verbs
  PROVE  BindingSpec => [](IInv /\ View /\ ClientOK /\ FiniteTiers)
  <1> DEFINE inv == IInv /\ View /\ ClientOK /\ FiniteTiers
  <1>1. BindingInit => inv
    <2>1. Init => FiniteTiers
      BY FS_EmptySet DEF Init, FiniteTiers
    <2> QED
      BY <2>1, BindingInitOK DEF BindingInit
  <1>2. inv /\ [BindingNext]_bvars => inv'
    BY BindingStepOK, FiniteStep
  <1> HIDE DEF inv
  <1>3. BindingSpec => []inv
    BY <1>1, <1>2, PTL DEF BindingSpec
  <1> QED
    BY <1>3 DEF inv

(* Every query of the binding has what it should of the records that match *)
(* its filter and nothing else, on every path and in their fusion, and the *)
(* metadata that get shows of a record find that record, unless one is not *)
(* a number: whatever the client did before, whichever tier a record is    *)
(* in, and for every text, filter and number of hits.                      *)
(* (filtered_exact_top_k, filtered_text_search, rrf_fuse)                  *)
THEOREM FiltersBindPaths ==
  ASSUME "use_after_drop" \notin Verbs
  PROVE  BindingSpec => []FilterBindsEveryPath
  <1>1. IInv /\ View /\ ClientOK /\ FiniteTiers => FilterBindsEveryPath
    <2>1. CASE Ready
      BY <2>1, QueriesBound
    <2>2. CASE ~Ready
      BY <2>2 DEF FilterBindsEveryPath
    <2> QED
      BY <2>1, <2>2
  <1> QED
    BY <1>1, BindingFinite, PTL

(* Of two records, the one that both paths put first is first in their     *)
(* fusion, if the window shows either.  (rrf_fuse)                         *)
THEOREM FusionRespectsOrder ==
  ASSUME "use_after_drop" \notin Verbs
  PROVE  BindingSpec => []FusionRespectsPaths
  <1>1. IInv /\ View /\ ClientOK /\ FiniteTiers => FusionRespectsPaths
    <2>1. CASE Ready
      BY <2>1, QueriesBound
    <2>2. CASE ~Ready
      BY <2>2 DEF FusionRespectsPaths
    <2> QED
      BY <2>1, <2>2
  <1> QED
    BY <1>1, BindingFinite, PTL
=============================================================================
