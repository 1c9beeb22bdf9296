--------------------------- MODULE StoreViewProofs ---------------------------
(***************************************************************************)
(* The view of the store is the replay of its log. What replaying does is  *)
(* a statement about the last write of each id in a stretch of the log,    *)
(* and the sealed segment and L0 split the log at the seq of the manifest: *)
(* MergeSplit says that their merged view is the replay of the whole.      *)
(*                                                                         *)
(* Rollback of an overwrite breaks this in the code (the run               *)
(* store_rollback_loss), so the theorems are about the two uses of the     *)
(* store where it cannot happen: no rollback at all, or rollback of new    *)
(* ids only.  Under the same uses the store implements Collection: the     *)
(* view is what the whole log holds (ViewNow), so that each step is a      *)
(* question about the log, how it changes the barriers at which a recovery *)
(* may end and what the log holds at each.                                 *)
(***************************************************************************)
EXTENDS StoreProofs, StoreRefinement, SumProofs

-----------------------------------------------------------------------------
(* The last writes of a stretch of the log.                                *)

(* A set of frames has a last one. *)
LEMMA LastExists ==
  ASSUME NEW n \in Nat, NEW S \in SUBSET (1..n), S # {}
  PROVE  \E m \in S : \A k \in S : k <= m
  <1> DEFINE T == {x \in Nat : \E k \in S : x = n - k}
  <1>1. \A k \in S : k \in 1..n /\ n - k \in T
    OBVIOUS
  <1>2. T \subseteq Nat /\ T # {}
    BY <1>1
  <1>3. PICK x \in T : \A y \in T : x <= y
    BY <1>2, LeastExists
  <1>4. PICK m \in S : x = n - m
    OBVIOUS
  <1> QED
    BY <1>1, <1>3, <1>4

(* What the log holds up to a seq: the records a checkpoint at it covers.  *)
RecordsUpTo(f, c, s) == {i \in 1..c : f[i].kind = "Record" /\ f[i].seq <= s}

EntryAt(f, i) == [seq |-> f[i].seq, rec |-> f[i].rec]

LastWrites(f, is) ==
    {EntryAt(f, i) : i \in {j \in is : \A k \in is : f[k].rec.id = f[j].rec.id => k <= j}}

Covered(f, c, s) == LastWrites(f, RecordsUpTo(f, c, s))

(* A log whose frames are typed and whose seqs increase. *)
GoodLog(f) == f \in Seq(L!Frame) /\ Len(f) \in Nat /\ FramesTyped(f) /\ L!Rising(f)

LEMMA ReplayIs ==
  \A f, c, s : Replay(f, c, s) = LastWrites(f, RecordsAbove(f, c, s))
  BY DEF Replay, LastWrites, EntryAt

LEMMA LastWritesMember ==
  ASSUME NEW f, NEW is
  PROVE  \A e : e \in LastWrites(f, is) <=>
            \E i \in is : /\ e = EntryAt(f, i)
                          /\ \A k \in is : f[k].rec.id = f[i].rec.id => k <= i
  BY DEF LastWrites

LEMMA RecordFacts ==
  ASSUME NEW f, GoodLog(f), NEW i \in 1..Len(f), f[i].kind = "Record"
  PROVE  /\ f[i].seq \in Nat /\ f[i].seq > 0 /\ f[i].rec \in Records
         /\ EntryAt(f, i).seq = f[i].seq /\ EntryAt(f, i).rec = f[i].rec
         /\ EntryAt(f, i) \in Entry
         /\ \A k \in 1..Len(f) : k < i => f[k].seq < f[i].seq
  <1>1. f[i] \in L!Frame
    BY DEF GoodLog
  <1>2. f[i].seq \in Nat /\ f[i].seq > 0 /\ f[i].rec \in Records
    BY <1>1, LogAssumption, L!FrameTypes DEF GoodLog, FramesTyped
  <1>3. \A k \in 1..Len(f) : k < i => f[k].seq < f[i].seq
    BY DEF GoodLog, L!Rising
  <1> QED
    BY <1>2, <1>3, EntryTypes DEF EntryAt

(* The last write of an id that is written at all. *)
LEMMA LastOfId ==
  ASSUME NEW f, NEW n \in Nat, NEW is \in SUBSET (1..n), NEW j \in is
  PROVE  \E i \in is : /\ j <= i /\ f[i].rec.id = f[j].rec.id
                       /\ EntryAt(f, i) \in LastWrites(f, is)
  <1> DEFINE S == {k \in is : f[k].rec.id = f[j].rec.id}
  <1>1. S \in SUBSET (1..n) /\ j \in S
    OBVIOUS
  <1>2. PICK i \in S : \A k \in S : k <= i
    BY <1>1, LastExists
  <1>3. EntryAt(f, i) \in LastWrites(f, is)
    BY <1>2, LastWritesMember
  <1> QED
    BY <1>1, <1>2, <1>3

(* A checkpoint's segment, over which the rest of the log is replayed,     *)
(* shows what replaying the whole log does.                                *)
LEMMA MergeSplit ==
  ASSUME NEW f, GoodLog(f), NEW c \in 0..Len(f), NEW s \in Nat
  PROVE  Merged(Live(Covered(f, c, s)), Replay(f, c, s)) = Live(Replay(f, c, 0))
  <1> DEFINE low == RecordsUpTo(f, c, s)
             high == RecordsAbove(f, c, s)
             all == RecordsAbove(f, c, 0)
             sg == Live(LastWrites(f, low))
             t == LastWrites(f, high)
  <1>1. /\ Len(f) \in Nat /\ c \in Nat
        /\ \A i \in 1..c : i \in 1..Len(f)
    BY DEF GoodLog
  <1>2. \A i \in 1..c : f[i].kind = "Record" =>
          /\ f[i].seq \in Nat /\ f[i].seq > 0
          /\ EntryAt(f, i).seq = f[i].seq /\ EntryAt(f, i).rec = f[i].rec
          /\ \A k \in 1..c : k < i => f[k].seq < f[i].seq
    BY <1>1, RecordFacts
  <1>3. /\ all = low \cup high
        /\ \A i \in all : i \in 1..c /\ f[i].kind = "Record"
        /\ \A i \in low, j \in high : i < j
    <2>1. all = low \cup high
      BY <1>2 DEF RecordsUpTo, RecordsAbove
    <2>2. \A i \in all : i \in 1..c /\ f[i].kind = "Record"
      BY DEF RecordsAbove
    <2>3. ASSUME NEW i \in low, NEW j \in high PROVE i < j
      <3>1. /\ i \in 1..c /\ j \in 1..c /\ f[i].kind = "Record" /\ f[j].kind = "Record"
            /\ f[i].seq <= s /\ f[j].seq > s
        BY DEF RecordsUpTo, RecordsAbove
      <3>2. f[i].seq < f[j].seq /\ f[i].seq \in Nat /\ f[j].seq \in Nat
        BY <1>2, <3>1
      <3>3. ~(j < i) /\ i # j
        BY <1>2, <3>1, <3>2
      <3> QED
        BY <1>1, <3>1, <3>3
    <2> QED
      BY <2>1, <2>2, <2>3
  <1>4. low \in SUBSET (1..c) /\ high \in SUBSET (1..c) /\ all \in SUBSET (1..c)
    BY DEF RecordsUpTo, RecordsAbove
  <1>5. Merged(Live(Covered(f, c, s)), Replay(f, c, s)) = Merged(sg, t)
        /\ Live(Replay(f, c, 0)) = Live(LastWrites(f, all))
    BY ReplayIs DEF Covered
  <1>6. \A e \in sg \cup t : \E i \in all :
          /\ e = EntryAt(f, i) /\ (i \in low => e.rec.life = "live")
          /\ \/ i \in low /\ \A k \in low : f[k].rec.id = f[i].rec.id => k <= i
             \/ i \in high /\ \A k \in high : f[k].rec.id = f[i].rec.id => k <= i
    <2>1. \A e \in sg : e \in LastWrites(f, low) /\ e.rec.life = "live"
      BY DEF Live
    <2> QED
      BY <1>3, <2>1, LastWritesMember
  <1> HIDE DEF low, high, all, sg, t
  <1>7. ASSUME NEW e \in Merged(sg, t)
        PROVE  e \in Live(LastWrites(f, all))
    <2>1. /\ e \in sg \cup t /\ e.rec.life = "live"
          /\ \A o \in sg \cup t : o.rec.id = e.rec.id => o.seq <= e.seq
      BY DEF Merged, Live
    <2>2. PICK i \in all :
            /\ e = EntryAt(f, i)
            /\ \/ i \in low /\ \A k \in low : f[k].rec.id = f[i].rec.id => k <= i
               \/ i \in high /\ \A k \in high : f[k].rec.id = f[i].rec.id => k <= i
      BY <1>6, <2>1
    <2>3. ASSUME NEW k \in all, f[k].rec.id = f[i].rec.id
          PROVE  k <= i
      <3>1. i \in Nat /\ k \in Nat
        BY <1>3
      <3>2. CASE k \in low
        BY <1>3, <2>2, <2>3, <3>1, <3>2
      <3>3. CASE k \in high
        <4>1. PICK m \in high : /\ k <= m /\ f[m].rec.id = f[k].rec.id
                                /\ EntryAt(f, m) \in t
          BY <1>1, <1>4, <3>3, LastOfId DEF t
        <4>2. f[m].seq <= f[i].seq
          BY <1>2, <1>3, <2>1, <2>2, <2>3, <4>1
        <4>3. i \in 1..c /\ m \in 1..c /\ f[m].kind = "Record" /\ f[i].kind = "Record"
          BY <1>3, <4>1
        <4>4. ~(i < m)
          BY <1>2, <4>2, <4>3
        <4> QED
          BY <3>1, <4>1, <4>3, <4>4
      <3> QED
        BY <1>3, <3>2, <3>3
    <2> QED
      BY <2>1, <2>2, <2>3, LastWritesMember DEF Live
  <1>8. ASSUME NEW e \in Live(LastWrites(f, all))
        PROVE  e \in Merged(sg, t)
    <2>1. PICK i \in all : /\ e = EntryAt(f, i) /\ e.rec.life = "live"
                           /\ \A k \in all : f[k].rec.id = f[i].rec.id => k <= i
      BY LastWritesMember DEF Live
    <2>2. e \in sg \cup t
      <3>1. CASE i \in low
        BY <1>3, <2>1, <3>1, LastWritesMember DEF sg, Live
      <3>2. CASE i \in high
        BY <1>3, <2>1, <3>2, LastWritesMember DEF t
      <3> QED
        BY <1>3, <3>1, <3>2
    <2>3. ASSUME NEW o \in sg \cup t, o.rec.id = e.rec.id
          PROVE  o.seq <= e.seq
      <3>1. PICK k \in all : o = EntryAt(f, k)
        BY <1>6
      <3>2. /\ i \in 1..c /\ f[i].kind = "Record" /\ k \in 1..c /\ f[k].kind = "Record"
        BY <1>3
      <3>3. k <= i /\ o.seq = f[k].seq /\ e.seq = f[i].seq
            /\ f[k].seq \in Nat /\ f[i].seq \in Nat
        BY <1>2, <2>1, <2>3, <3>1, <3>2
      <3>4. k = i \/ f[k].seq < f[i].seq
        BY <1>1, <1>2, <3>2, <3>3
      <3> QED
        BY <3>3, <3>4
    <2> QED
      BY <2>1, <2>2, <2>3 DEF Merged, Live
  <1>9. Merged(sg, t) = Live(LastWrites(f, all))
    BY <1>7, <1>8, Zenon
  <1> QED
    BY <1>5, <1>9

LEMMA SameWrites ==
  ASSUME NEW f, NEW g, NEW is, \A i \in is : f[i] = g[i]
  PROVE  LastWrites(f, is) = LastWrites(g, is)
  <1>1. \A i \in is : EntryAt(f, i) = EntryAt(g, i) /\ f[i].rec.id = g[i].rec.id
    BY DEF EntryAt
  <1>2. \A e : e \in LastWrites(f, is) <=> e \in LastWrites(g, is)
    BY <1>1, LastWritesMember
  <1> QED
    BY <1>2

(* Two logs that agree up to a barrier hold the same records up to it.     *)
LEMMA SameCovered ==
  ASSUME NEW f, GoodLog(f), NEW g, GoodLog(g), NEW a \in Nat,
         NEW c \in 0..Len(f), NEW d \in 0..Len(g), a <= c, a <= d,
         \A i \in 1..a : f[i] = g[i],
         NEW s \in Nat, s <= SeqAt(f, a)
  PROVE  Covered(f, c, s) = Covered(g, d, s)
  <1>1. \A h, b : GoodLog(h) /\ b \in 0..Len(h) /\ a <= b /\ s <= SeqAt(h, a) =>
            RecordsUpTo(h, b, s) = RecordsUpTo(h, a, s)
    <2> SUFFICES ASSUME NEW h, NEW b \in 0..Len(h), GoodLog(h), a <= b, s <= SeqAt(h, a),
                        NEW i \in 1..b, h[i].kind = "Record", h[i].seq <= s
                 PROVE  i <= a
      BY DEF RecordsUpTo, GoodLog
    <2>1. i \in 1..Len(h) /\ i \in Nat /\ Len(h) \in Nat
      BY DEF GoodLog
    <2>2. h[i].seq \in Nat /\ h[i].seq > 0 /\ \A k \in 1..Len(h) : k < i => h[k].seq < h[i].seq
      BY <2>1, RecordFacts
    <2>3. CASE a = 0
      BY <2>2, <2>3 DEF SeqAt
    <2>4. CASE a > 0
      <3>1. a \in 1..Len(h) /\ SeqAt(h, a) = h[a].seq /\ h[a].seq \in Nat
        <4>1. a \in 1..Len(h) /\ h[a] \in L!Frame
          BY <2>1, <2>4 DEF GoodLog
        <4> QED
          BY <2>4, <4>1, LogAssumption, L!FrameTypes DEF SeqAt
      <3>2. ~(a < i)
        BY <2>2, <3>1
      <3> QED
        BY <2>1, <3>2
    <2> QED
      BY <2>3, <2>4
  <1>2. SeqAt(g, a) = SeqAt(f, a)
    BY DEF SeqAt
  <1>3. RecordsUpTo(f, c, s) = RecordsUpTo(f, a, s) /\ RecordsUpTo(g, d, s) = RecordsUpTo(g, a, s)
    BY <1>1, <1>2
  <1>4. RecordsUpTo(f, a, s) = RecordsUpTo(g, a, s)
    BY DEF RecordsUpTo
  <1>5. \A i \in RecordsUpTo(f, a, s) : f[i] = g[i]
    BY DEF RecordsUpTo
  <1> QED
    BY <1>3, <1>4, <1>5, SameWrites DEF Covered

(* At 0 nothing is covered, and at a seq above every record all is.        *)
LEMMA CoveredBounds ==
  ASSUME NEW f, GoodLog(f), NEW c \in 0..Len(f)
  PROVE  /\ Covered(f, c, 0) = {}
         /\ \A s \in Nat : (\A i \in RecordsAbove(f, c, 0) : f[i].seq <= s) =>
               Covered(f, c, s) = Replay(f, c, 0) /\ Replay(f, c, s) = {}
  <1>1. \A i \in 1..c : f[i].kind = "Record" => f[i].seq \in Nat /\ f[i].seq > 0
    BY RecordFacts DEF GoodLog
  <1>2. RecordsUpTo(f, c, 0) = {}
    BY <1>1 DEF RecordsUpTo
  <1>3. Covered(f, c, 0) = {}
    BY <1>2 DEF Covered, LastWrites
  <1>4. ASSUME NEW s \in Nat, \A i \in RecordsAbove(f, c, 0) : f[i].seq <= s
        PROVE  Covered(f, c, s) = Replay(f, c, 0) /\ Replay(f, c, s) = {}
    <2>1. RecordsUpTo(f, c, s) = RecordsAbove(f, c, 0) /\ RecordsAbove(f, c, s) = {}
      BY <1>1, <1>4 DEF RecordsUpTo, RecordsAbove
    <2> QED
      BY <2>1, ReplayIs DEF Covered, LastWrites
  <1> QED
    BY <1>3, <1>4

(* Frames that are no records add nothing to a replay.                     *)
LEMMA ReplaySame ==
  ASSUME NEW f, NEW g, NEW s \in Nat, Begins(f, g), NoRecordAfter(f, g),
         Len(f) \in Nat, Len(g) \in Nat
  PROVE  Replay(g, Len(g), s) = Replay(f, Len(f), s)
  <1>1. RecordsAbove(g, Len(g), s) = RecordsAbove(f, Len(f), s)
    BY DEF Begins, NoRecordAfter, RecordsAbove
  <1>2. \A i \in RecordsAbove(f, Len(f), s) : f[i] = g[i]
    BY DEF Begins, RecordsAbove
  <1> QED
    BY <1>1, <1>2, ReplayIs, SameWrites

(* A record at the end of the log is applied to what was replayed.         *)
LEMMA ReplayGrows ==
  ASSUME NEW f, NEW g, NEW s \in Nat, NEW q \in Nat, NEW r, GoodLog(f),
         Begins(f, g), Len(g) = Len(f) + 1, q > s,
         g[Len(f) + 1] = [kind |-> "Record", seq |-> q, rec |-> r]
  PROVE  Replay(g, Len(g), s) = Applied(Replay(f, Len(f), s), q, r)
  <1> DEFINE n == Len(f) + 1
             old == RecordsAbove(f, Len(f), s)
             new == RecordsAbove(g, Len(g), s)
  <1>1. Len(f) \in Nat /\ n \in Nat
    BY DEF GoodLog
  <1>2. g[n].kind = "Record" /\ g[n].seq = q /\ g[n].rec = r /\ EntryAt(g, n) = [seq |-> q, rec |-> r]
    BY DEF EntryAt
  <1>3. new = old \cup {n} /\ (\A i \in old : i < n /\ i \in 1..Len(f) /\ g[i] = f[i])
    BY <1>1, <1>2 DEF Begins, RecordsAbove
  <1>4. \A i \in old : EntryAt(g, i) = EntryAt(f, i) /\ EntryAt(f, i).rec = f[i].rec
    BY <1>3 DEF EntryAt
  <1> HIDE DEF n, old, new
  <1>5. ASSUME NEW e
        PROVE  e \in LastWrites(g, new) <=> e \in Applied(LastWrites(f, old), q, r)
    <2>1. ASSUME e \in LastWrites(g, new)
          PROVE  e \in Applied(LastWrites(f, old), q, r)
      <3>1. PICK i \in new : /\ e = EntryAt(g, i)
                             /\ \A k \in new : g[k].rec.id = g[i].rec.id => k <= i
        BY <2>1, LastWritesMember
      <3>2. CASE i = n
        BY <1>2, <3>1, <3>2 DEF Applied
      <3>3. CASE i \in old
        <4>1. f[i].rec.id # r.id
          <5>1. ~(n <= i)
            BY <1>1, <1>3, <3>3
          <5> QED
            BY <1>2, <1>3, <3>1, <3>3, <5>1
        <4>2. e = EntryAt(f, i) /\ \A k \in old : f[k].rec.id = f[i].rec.id => k <= i
          BY <1>3, <1>4, <3>1, <3>3
        <4>3. e \in LastWrites(f, old) /\ e.rec.id # r.id
          BY <1>4, <3>3, <4>1, <4>2, LastWritesMember
        <4> QED
          BY <4>3 DEF Applied
      <3> QED
        BY <1>3, <3>2, <3>3
    <2>2. ASSUME e \in Applied(LastWrites(f, old), q, r)
          PROVE  e \in LastWrites(g, new)
      <3>1. CASE e = EntryAt(g, n)
        <4>1. n \in new /\ \A k \in new : k <= n
          BY <1>1, <1>3
        <4> QED
          BY <3>1, <4>1, LastWritesMember
      <3>2. CASE e \in LastWrites(f, old) /\ e.rec.id # r.id
        <4>1. PICK i \in old : /\ e = EntryAt(f, i)
                               /\ \A k \in old : f[k].rec.id = f[i].rec.id => k <= i
          BY <3>2, LastWritesMember
        <4>2. i \in new /\ e = EntryAt(g, i) /\ g[i].rec.id # r.id
          BY <1>3, <1>4, <3>2, <4>1
        <4>3. \A k \in new : g[k].rec.id = g[i].rec.id => k <= i
          BY <1>2, <1>3, <4>1, <4>2
        <4> QED
          BY <4>2, <4>3, LastWritesMember
      <3> QED
        BY <1>2, <2>2, <3>1, <3>2 DEF Applied
    <2> QED
      BY <2>1, <2>2
  <1>6. LastWrites(g, new) = Applied(LastWrites(f, old), q, r)
    BY <1>5
  <1> QED
    BY <1>6, ReplayIs DEF old, new

-----------------------------------------------------------------------------
(* The view.                                                               *)

(* Two ways to use the store: without rollbacks, or with rollbacks of new  *)
(* ids only and no barrier inside a transaction.                           *)
NoRollback == {"tx", "rollback"} \cap Verbs = {}
NoOverwrite == {"overwrite", "delete", "commit_in_tx", "rollback_in_tx",
                "rollback_fenced", "checkpoint_in_tx"} \cap Verbs = {}
Disciplined == "use_after_drop" \notin Verbs /\ (NoRollback \/ NoOverwrite)

BarriersBelow(f, s) == \A i \in 1..Len(f) : f[i].kind = "Commit" => f[i].seq <= s

OneWrite(f) ==
    \A i, j \in RecordsAbove(f, Len(f), 0) :
        f[i].rec.life = "live" /\ (f[i].rec.id = f[j].rec.id => i = j)

(* L0 is the replay of what the segment does not cover, the segment is the *)
(* live part of what it covers, and so is the one the manifest names.      *)
TiersReplay ==
    InUse =>
        /\ l0 = Replay(file, Len(file), checkpoint_seq)
        /\ seg = Live(Covered(file, Len(file), checkpoint_seq))

BarrierKnown == InUse => BarriersBelow(file, committed_seq)

ManifestReplay ==
    manifest # None =>
        TheSegment(manifest) = Live(Covered(file, Len(file), manifest.checkpoint_seq))

SealsAtBarrier == pc \in {"seal", "publish", "swap"} => acked = Len(file) /\ ~fenced

View == TiersReplay /\ BarrierKnown /\ ManifestReplay /\ SealsAtBarrier

CallView ==
    /\ pc = "ack" => ~in_tx
    /\ NoRollback => ~in_tx
    /\ NoRollback \/ OneWrite(file)

ViewInv == View /\ CallView

LEMMA GoodFile == LogOK => GoodLog(file) /\ AckedSeq = SeqAt(file, acked)
  BY LogTypes DEF LogOK, L!IInv, LogTyped, GoodLog, AckedSeq, SeqAt

LEMMA LastBarrierIsHighest ==
  ASSUME NEW f, GoodLog(f), EndsInBarrier(f)
  PROVE  BarriersBelow(f, SeqAt(f, Len(f)))
  <1> SUFFICES ASSUME NEW i \in 1..Len(f), f[i].kind = "Commit"
               PROVE  f[i].seq <= f[Len(f)].seq
    BY DEF BarriersBelow, SeqAt
  <1>1. Len(f) \in 1..Len(f) /\ f[Len(f)].kind = "Commit"
    BY DEF GoodLog, EndsInBarrier
  <1>2. f[i].seq \in Nat
    <2>1. f[i] \in L!Frame
      BY DEF GoodLog
    <2> QED
      BY <2>1, LogAssumption, L!FrameTypes
  <1>3. i = Len(f) \/ f[i].seq < f[Len(f)].seq
    BY <1>1 DEF GoodLog, L!Rising
  <1>4. f[Len(f)].seq \in Nat
    <2>1. f[Len(f)] \in L!Frame
      BY <1>1 DEF GoodLog
    <2> QED
      BY <2>1, LogAssumption, L!FrameTypes
  <1> QED
    BY <1>2, <1>3, <1>4

(* What a checkpoint covered stays covered.                                *)
LEMMA CoveredStays ==
  ASSUME LogOK, LogOK', L!AckedKept, NEW s \in Nat, s <= AckedSeq
  PROVE  Covered(file', Len(file'), s) = Covered(file, Len(file), s)
  <1>1. GoodLog(file) /\ GoodLog(file)' /\ AckedSeq = SeqAt(file, acked)
    BY GoodFile, PTL
  <1>2. GoodLog(file')
    BY <1>1 DEF GoodLog
  <1>3. /\ acked \in Nat /\ acked <= Len(file) /\ acked <= Len(file')
        /\ Len(file) \in Nat /\ Len(file') \in Nat
        /\ \A i \in 1..acked : file[i] = file'[i]
    <2>1. LogTyped /\ LogTyped'
      BY LogTypes, PTL
    <2> QED
      BY <2>1 DEF LogTyped, L!AckedKept
  <1>4. s <= SeqAt(file, acked)
    BY <1>1
  <1>5. Len(file) \in 0..Len(file) /\ Len(file') \in 0..Len(file')
    BY <1>3
  <1> QED
    BY <1>1, <1>2, <1>3, <1>4, <1>5, SameCovered

LEMMA ManifestReplayStays ==
  ASSUME LogOK, LogOK', L!AckedKept, ManifestOK, ManifestReplay, manifest' \in {manifest, None}
  PROVE  ManifestReplay'
  <1> SUFFICES ASSUME manifest' # None, manifest' = manifest
               PROVE  ManifestReplay'
    BY DEF ManifestReplay
  <1>1. manifest.checkpoint_seq \in Nat /\ manifest.checkpoint_seq <= AckedSeq
    BY DEF ManifestOK
  <1>2. Covered(file', Len(file'), manifest.checkpoint_seq)
        = Covered(file, Len(file), manifest.checkpoint_seq)
    BY <1>1, CoveredStays
  <1> QED
    BY <1>2 DEF ManifestReplay, TheSegment

(* What no record comes to, keeps its property of one write per id.        *)
LEMMA OneWriteStays ==
  ASSUME LogOK, LogOK', SubRecords, OneWrite(file)
  PROVE  OneWrite(file)'
  <1>1. LogTyped /\ LogTyped'
    BY LogTypes, PTL
  <1> SUFFICES ASSUME NEW i \in RecordsAbove(file', Len(file'), 0),
                      NEW j \in RecordsAbove(file', Len(file'), 0)
               PROVE  /\ file'[i].rec.life = "live"
                      /\ file'[i].rec.id = file'[j].rec.id => i = j
    BY DEF OneWrite
  <1>2. /\ i \in RecordsAbove(file, Len(file), 0) /\ file'[i] = file[i]
        /\ j \in RecordsAbove(file, Len(file), 0) /\ file'[j] = file[j]
    BY <1>1 DEF SubRecords, RecordsAbove, LogTyped
  <1> QED
    BY <1>2 DEF OneWrite

LEMMA TiersReplayStays ==
  ASSUME LogOK, LogOK', L!AckedKept, TiersOK, TiersReplay, UNCHANGED tiers,
         InUse' => InUse, Begins(file, file'), NoRecordAfter(file, file')
  PROVE  TiersReplay'
  <1> SUFFICES ASSUME InUse' PROVE TiersReplay'
    BY DEF TiersReplay
  <1>1. LogTyped /\ LogTyped'
    BY LogTypes, PTL
  <1>2. checkpoint_seq \in Nat /\ checkpoint_seq <= AckedSeq
    BY DEF TiersOK
  <1>3. /\ l0 = Replay(file, Len(file), checkpoint_seq)
        /\ seg = Live(Covered(file, Len(file), checkpoint_seq))
    BY DEF TiersReplay
  <1>4. Covered(file', Len(file'), checkpoint_seq) = Covered(file, Len(file), checkpoint_seq)
    BY <1>2, CoveredStays
  <1>5. Replay(file', Len(file'), checkpoint_seq) = Replay(file, Len(file), checkpoint_seq)
    <2>1. Len(file) \in Nat /\ Len(file') \in Nat
      BY <1>1 DEF LogTyped
    <2> QED
      BY <1>2, <2>1, ReplaySame
  <1>6. l0' = l0 /\ seg' = seg /\ checkpoint_seq' = checkpoint_seq
    BY DEF tiers
  <1> QED
    BY <1>3, <1>4, <1>5, <1>6 DEF TiersReplay

LEMMA OpenView ==
  ASSUME IInv, IInv', "use_after_drop" \notin Verbs, View, Open
  PROVE  TiersReplay' /\ BarrierKnown'
  <1>1. LogOK /\ LogOK' /\ ManifestOK
    BY DEF IInv
  <1>2. /\ L!AckedKept /\ EndsInBarrier(file') /\ committed_seq' = SeqAt(file', Len(file'))
    BY <1>1, OpenFacts DEF Open
  <1>3. GoodLog(file)' /\ LogTyped'
    BY <1>1, GoodFile, LogTypes, PTL
  <1>4. GoodLog(file') /\ Len(file') \in Nat
    BY <1>3 DEF GoodLog
  <1>5. BarrierKnown'
    BY <1>2, <1>4, LastBarrierIsHighest DEF BarrierKnown
  <1>6. PICK readable \in Readability(manifest, segfiles) :
          LET r == Recovery(file', Len(file'), manifest, readable)
          IN  /\ checkpoint_seq' = r.checkpoint_seq
              /\ seg' = r.seg
              /\ l0' = r.l0
    BY DEF Open
  <1> DEFINE ok == Honoured(file', Len(file'), manifest, readable)
  <1>7. /\ checkpoint_seq' = (IF ok THEN manifest.checkpoint_seq ELSE 0)
        /\ seg' = (IF ok THEN TheSegment(manifest) ELSE {})
        /\ l0' = Replay(file', Len(file'), checkpoint_seq')
    BY <1>6 DEF Recovery, TheSegment
  <1>8. seg' = Live(Covered(file', Len(file'), checkpoint_seq'))
    <2>1. CASE ok
      <3>1. /\ manifest # None /\ manifest.checkpoint_seq \in Nat
            /\ manifest.checkpoint_seq <= AckedSeq
        BY <1>1, <2>1 DEF Honoured, ManifestOK
      <3>2. Covered(file', Len(file'), manifest.checkpoint_seq)
            = Covered(file, Len(file), manifest.checkpoint_seq)
        BY <1>1, <1>2, <3>1, CoveredStays
      <3> QED
        BY <1>7, <2>1, <3>1, <3>2 DEF View, ManifestReplay
    <2>2. CASE ~ok
      <3>1. Covered(file', Len(file'), 0) = {}
        <4>1. Len(file') \in 0..Len(file')
          BY <1>4
        <4> QED
          BY <1>4, <4>1, CoveredBounds
      <3> QED
        BY <1>7, <2>2, <3>1 DEF Live
    <2> QED
      BY <2>1, <2>2
  <1> QED
    BY <1>5, <1>7, <1>8 DEF TiersReplay

LEMMA AppendView ==
  ASSUME IInv, IInv', View, Idle, NEW r \in Records, AppendRec(r),
         UNCHANGED <<seg, checkpoint_seq, mode>>
  PROVE  TiersReplay' /\ BarrierKnown'
  <1>1. LogOK /\ LogOK' /\ TiersOK /\ LogTyped
    BY LogTypes DEF IInv
  <1>2. pc = "idle" /\ ~fenced /\ in_tx' = in_tx /\ InUse
    BY DEF Idle, InUse, mode
  <1>3. BarriersBelow(file, committed_seq)
    BY <1>2 DEF View, BarrierKnown
  <1>4. CASE W!AppendRecord(r) /\ l0' = Applied(l0, next_seq, r) /\ pc' = AfterMutation
    <2>1. /\ L!AckedKept /\ Begins(file, file') /\ Len(file') = Len(file) + 1
          /\ file'[Len(file) + 1] = [kind |-> "Record", seq |-> next_seq, rec |-> r]
          /\ L!Below(file, next_seq) /\ committed_seq' = committed_seq
      BY <1>1, <1>4, AppendFacts
    <2>2. AckedSeq < next_seq /\ next_seq \in Nat /\ Len(file) \in Nat
          /\ AckedSeq \in Nat /\ checkpoint_seq \in Nat /\ checkpoint_seq <= AckedSeq
      BY <1>1, <2>1, AckedBelow DEF LogTyped, TiersOK
    <2>3. Replay(file', Len(file'), checkpoint_seq)
          = Applied(Replay(file, Len(file), checkpoint_seq), next_seq, r)
      <3>1. next_seq > checkpoint_seq
        BY <2>2
      <3>2. GoodLog(file)
        BY <1>1, GoodFile
      <3> QED
        BY <2>1, <2>2, <3>1, <3>2, ReplayGrows
    <2>4. Covered(file', Len(file'), checkpoint_seq) = Covered(file, Len(file), checkpoint_seq)
      BY <1>1, <2>1, <2>2, CoveredStays
    <2>5. TiersReplay'
      BY <1>2, <1>4, <2>3, <2>4 DEF View, TiersReplay
    <2>6. BarriersBelow(file', committed_seq')
      BY <1>3, <2>1, <2>2 DEF BarriersBelow, Begins
    <2> QED
      BY <2>5, <2>6 DEF BarrierKnown
  <1>5. CASE W!AppendFail /\ UNCHANGED <<l0, pc>>
    <2>1. /\ L!AckedKept /\ Begins(file, file') /\ NoRecordAfter(file, file')
          /\ committed_seq' = committed_seq
      BY <1>1, <1>5, FailFacts
    <2>2. TiersReplay'
      BY <1>1, <1>2, <1>5, <2>1, TiersReplayStays DEF View, tiers
    <2>3. file' = file \/ file' = Append(file, W!TornFrame)
      BY <1>5 DEF W!AppendFail, W!PartlyWritten
    <2>4. W!TornFrame.kind = "Torn" /\ Len(file) \in Nat
      BY <1>1 DEF W!TornFrame, LogTyped
    <2>5. BarriersBelow(file', committed_seq')
      BY <1>1, <1>3, <2>1, <2>3, <2>4 DEF BarriersBelow, LogTyped
    <2> QED
      BY <2>2, <2>5 DEF BarrierKnown
  <1> QED
    BY <1>4, <1>5 DEF AppendRec

(* A barrier, or the failure of one: nobody is left in a transaction.      *)
LEMMA BarrierView ==
  ASSUME IInv, IInv', View, CommitLog, UNCHANGED tiers, pc # "down",
         W!CommitFail => in_tx' = FALSE
  PROVE  TiersReplay' /\ BarrierKnown'
  <1>1. LogOK /\ LogOK' /\ TiersOK /\ LogTyped
    BY LogTypes DEF IInv
  <1>2. CASE W!Commit
    <2>1. /\ L!AckedKept /\ Begins(file, file') /\ NoRecordAfter(file, file')
          /\ Len(file') = Len(file) + 1 /\ file'[Len(file')].seq = next_seq
          /\ ~fenced /\ L!Below(file, next_seq) /\ committed_seq' = next_seq
      BY <1>1, <1>2, CommitFacts
    <2>2. TiersReplay'
      BY <1>1, <2>1, TiersReplayStays DEF View, InUse
    <2>3. BarriersBelow(file', committed_seq')
      BY <1>1, <2>1 DEF BarriersBelow, Begins, L!Below, LogTyped
    <2> QED
      BY <2>2, <2>3 DEF BarrierKnown
  <1>3. CASE W!CommitFail
    <2>1. fenced'
      BY <1>1, <1>3, FailFacts
    <2> QED
      BY <1>3, <2>1 DEF TiersReplay, BarrierKnown, InUse
  <1> QED
    BY <1>2, <1>3 DEF CommitLog

(* Nothing happens to the log. *)
LEMMA QuietView ==
  ASSUME IInv, IInv', View, UNCHANGED <<log, tiers>>, InUse' => InUse
  PROVE  TiersReplay' /\ BarrierKnown'
  <1>1. LogOK /\ LogOK' /\ TiersOK /\ L!AckedKept /\ LogTyped
    BY QuietLog, LogTypes DEF IInv
  <1>2. file' = file /\ committed_seq' = committed_seq
    BY DEF log
  <1>3. Begins(file, file') /\ NoRecordAfter(file, file')
    BY <1>1, <1>2 DEF Begins, NoRecordAfter, LogTyped
  <1>4. TiersReplay'
    BY <1>1, <1>3, TiersReplayStays DEF View
  <1> QED
    BY <1>2, <1>4 DEF View, BarrierKnown

(* Cutting a log at its last barrier is cutting its replay at the          *)
(* barrier's seq, if no write that is cut off has replaced one that stays. *)
LEMMA ReplayCut ==
  ASSUME NEW f, GoodLog(f), NEW g, Len(g) \in Nat, Begins(g, f), EndsInBarrier(g), NEW s \in Nat,
         \A e \in Replay(f, Len(f), s) : e.seq > SeqAt(g, Len(g)) =>
            \A i \in RecordsAbove(f, Len(f), s) :
               f[i].seq <= SeqAt(g, Len(g)) => f[i].rec.id # e.rec.id
  PROVE  Replay(g, Len(g), s) = {e \in Replay(f, Len(f), s) : e.seq <= SeqAt(g, Len(g))}
  <1> DEFINE is == RecordsAbove(f, Len(f), s)
             kept == RecordsAbove(g, Len(g), s)
  <1>1. Len(f) \in Nat /\ Len(g) <= Len(f) /\ \A i \in 1..Len(g) : g[i] = f[i]
    BY DEF GoodLog, Begins
  <1>2. ASSUME NEW i \in 1..Len(f), f[i].kind = "Record"
        PROVE  i <= Len(g) <=> f[i].seq <= SeqAt(g, Len(g))
    <2>1. f[i].seq \in Nat /\ f[i].seq > 0 /\ \A k \in 1..Len(f) : k < i => f[k].seq < f[i].seq
      BY <1>2, RecordFacts
    <2>2. CASE Len(g) = 0
      BY <1>1, <2>1, <2>2 DEF SeqAt
    <2>3. CASE Len(g) > 0
      <3> DEFINE c == Len(g)
      <3>1. /\ c \in 1..Len(f) /\ f[c].kind = "Commit" /\ SeqAt(g, c) = f[c].seq
            /\ c # i /\ f[c].seq \in Nat
        <4>1. c \in 1..Len(f) /\ f[c].kind = "Commit" /\ SeqAt(g, c) = f[c].seq /\ f[c] \in L!Frame
          BY <1>1, <2>3 DEF EndsInBarrier, SeqAt, GoodLog
        <4> QED
          BY <1>2, <4>1, LogAssumption, L!FrameTypes
      <3>2. i < c => f[i].seq < f[c].seq
        BY <3>1 DEF GoodLog, L!Rising
      <3>3. c < i => f[c].seq < f[i].seq
        BY <2>1, <3>1
      <3> HIDE DEF c
      <3>4. i <= c <=> f[i].seq <= SeqAt(g, c)
        BY <2>1, <3>1, <3>2, <3>3
      <3> QED
        BY <3>4 DEF c
    <2> QED
      BY <1>1, <2>2, <2>3
  <1>3. \A i \in is : /\ i \in 1..Len(f) /\ f[i].kind = "Record"
                      /\ EntryAt(f, i).seq = f[i].seq
                      /\ (i \in kept <=> f[i].seq <= SeqAt(g, Len(g)))
                      /\ (i \in kept => EntryAt(g, i) = EntryAt(f, i) /\ g[i] = f[i])
    BY <1>1, <1>2 DEF RecordsAbove, EntryAt
  <1>4. kept \subseteq is
    BY <1>1 DEF RecordsAbove
  <1>5. is \in SUBSET (1..Len(f)) /\ \A i \in is : EntryAt(f, i).rec = f[i].rec
    BY DEF RecordsAbove, EntryAt
  <1>6. \A e \in LastWrites(f, is) : e.seq > SeqAt(g, Len(g)) =>
           \A i \in kept : f[i].rec.id # e.rec.id
    BY <1>3, <1>4, ReplayIs
  <1>7. \A i \in is \ kept : f[i].seq > SeqAt(g, Len(g))
    <2> SUFFICES ASSUME NEW i \in is \ kept PROVE f[i].seq > SeqAt(g, Len(g))
      OBVIOUS
    <2>1. i \in 1..Len(f) /\ f[i].kind = "Record" /\ ~(f[i].seq <= SeqAt(g, Len(g)))
      BY <1>3
    <2>2. f[i].seq \in Nat
      BY <2>1, RecordFacts
    <2>3. SeqAt(g, Len(g)) \in Nat
      <3>1. Len(g) > 0 => Len(g) \in 1..Len(f) /\ g[Len(g)] = f[Len(g)] /\ f[Len(g)] \in L!Frame
        BY <1>1 DEF GoodLog
      <3> QED
        BY <1>1, <3>1, LogAssumption, L!FrameTypes DEF SeqAt
    <2> QED
      BY <2>1, <2>2, <2>3
  <1> HIDE DEF is, kept
  <1>8. ASSUME NEW e
        PROVE  e \in LastWrites(g, kept) <=> e \in LastWrites(f, is) /\ e.seq <= SeqAt(g, Len(g))
    <2>1. ASSUME e \in LastWrites(g, kept)
          PROVE  e \in LastWrites(f, is) /\ e.seq <= SeqAt(g, Len(g))
      <3>1. PICK i \in kept : /\ e = EntryAt(g, i)
                              /\ \A k \in kept : g[k].rec.id = g[i].rec.id => k <= i
        BY <2>1, LastWritesMember
      <3>2. i \in is /\ e = EntryAt(f, i) /\ f[i].seq <= SeqAt(g, Len(g)) /\ g[i] = f[i]
        BY <1>3, <1>4, <3>1
      <3>3. PICK j \in is : /\ i <= j /\ f[j].rec.id = f[i].rec.id
                            /\ EntryAt(f, j) \in LastWrites(f, is)
        BY <1>1, <1>5, <3>2, LastOfId
      <3>4. j \in kept
        <4>1. CASE j \notin kept
          <5>1. EntryAt(f, j).seq > SeqAt(g, Len(g)) /\ EntryAt(f, j).rec = f[j].rec
            BY <1>3, <1>5, <1>7, <3>3, <4>1
          <5> QED
            BY <1>6, <3>1, <3>3, <5>1
        <4> QED
          BY <4>1
      <3>5. j <= i
        BY <1>3, <3>1, <3>2, <3>3, <3>4
      <3>6. i = j
        BY <1>3, <3>2, <3>3, <3>5
      <3> QED
        BY <1>3, <3>2, <3>3, <3>6
    <2>2. ASSUME e \in LastWrites(f, is), e.seq <= SeqAt(g, Len(g))
          PROVE  e \in LastWrites(g, kept)
      <3>1. PICK i \in is : /\ e = EntryAt(f, i)
                            /\ \A k \in is : f[k].rec.id = f[i].rec.id => k <= i
        BY <2>2, LastWritesMember
      <3>2. i \in kept /\ EntryAt(g, i) = e /\ g[i] = f[i]
        BY <1>3, <2>2, <3>1
      <3>3. \A k \in kept : g[k].rec.id = g[i].rec.id => k <= i
        BY <1>3, <1>4, <3>1, <3>2
      <3> QED
        BY <3>2, <3>3, LastWritesMember
    <2> QED
      BY <2>1, <2>2
  <1>9. LastWrites(g, kept) = {e \in LastWrites(f, is) : e.seq <= SeqAt(g, Len(g))}
    BY <1>8
  <1> QED
    BY <1>9, ReplayIs DEF is, kept

(* A rollback that keeps every committed record keeps the view.            *)
LEMMA RollbackView ==
  ASSUME IInv, IInv', "use_after_drop" \notin Verbs, View, Rollback \/ DropTx,
         InUse, in_tx' = FALSE, RollbackKeeps
  PROVE  TiersReplay' /\ BarrierKnown'
  <1>1. LogOK /\ LogOK' /\ HandleOK /\ TiersOK /\ FlagsOK
    BY DEF IInv
  <1>2. /\ up = TRUE /\ seg' = seg /\ checkpoint_seq' = checkpoint_seq /\ l0' = RolledBack(l0)
    BY <1>1 DEF Rollback, DropTx, InUse, LogOK, L!IInv, L!TypeOK, FlagsOK
  <1>3. CASE W!Open
    <2>1. /\ L!AckedKept /\ EndsInBarrier(file') /\ committed_seq' = SeqAt(file', Len(file'))
          /\ Begins(file', file) /\ BarriersStay(file, file')
      BY <1>1, <1>3, OpenFacts
    <2>2. GoodLog(file) /\ GoodLog(file') /\ LogTyped /\ Len(file') \in Nat
      <3>1. GoodLog(file) /\ GoodLog(file)' /\ LogTyped
        BY <1>1, GoodFile, LogTypes, PTL
      <3> QED
        BY <3>1 DEF GoodLog
    <2>3. BarrierKnown'
      BY <2>1, <2>2, LastBarrierIsHighest DEF BarrierKnown
    <2>4. committed_seq = SeqAt(file', Len(file'))
      <3>1. BarriersBelow(file, committed_seq)
        BY <1>2 DEF View, BarrierKnown
      <3>2. Len(file') > 0 =>
               /\ Len(file') \in 1..Len(file) /\ file'[Len(file')] = file[Len(file')]
               /\ file[Len(file')].kind = "Commit" /\ file[Len(file')].seq \in Nat
               /\ SeqAt(file', Len(file')) = file[Len(file')].seq
        BY <2>1, <2>2 DEF Begins, EndsInBarrier, SeqAt, LogTyped
      <3>3. SeqAt(file', Len(file')) <= committed_seq
        BY <2>2, <3>1, <3>2 DEF SeqAt, BarriersBelow, LogTyped
      <3>4. CASE committed_seq = 0
        BY <2>2, <3>2, <3>3, <3>4 DEF SeqAt
      <3>5. CASE committed_seq > 0
        <4>1. PICK i \in 1..Len(file) : file[i].kind = "Commit" /\ file[i].seq = committed_seq
          BY <1>1, <1>2, <3>5 DEF HandleOK
        <4>2. i <= Len(file') /\ i \in Nat /\ Len(file') > 0
          BY <2>1, <2>2, <4>1 DEF BarriersStay
        <4>3. i = Len(file') \/ file[i].seq < file[Len(file')].seq
          BY <2>2, <3>2, <4>1, <4>2 DEF GoodLog, L!Rising
        <4> QED
          BY <2>2, <3>2, <3>3, <4>1, <4>2, <4>3 DEF LogTyped
      <3> QED
        BY <2>2, <3>4, <3>5 DEF LogTyped
    <2>5. checkpoint_seq \in Nat /\ checkpoint_seq <= AckedSeq
      BY <1>1 DEF TiersOK
    <2>6. /\ l0 = Replay(file, Len(file), checkpoint_seq)
          /\ seg = Live(Covered(file, Len(file), checkpoint_seq))
      BY <1>2 DEF View, TiersReplay
    <2>7. l0' = Replay(file', Len(file'), checkpoint_seq)
      <3>1. \A e \in Replay(file, Len(file), checkpoint_seq) : e.seq > SeqAt(file', Len(file')) =>
               \A i \in RecordsAbove(file, Len(file), checkpoint_seq) :
                  file[i].seq <= SeqAt(file', Len(file')) => file[i].rec.id # e.rec.id
        BY <2>4, <2>6 DEF RollbackKeeps
      <3> QED
        BY <1>2, <2>1, <2>2, <2>4, <2>5, <2>6, <3>1, ReplayCut DEF RolledBack
    <2>8. Covered(file', Len(file'), checkpoint_seq) = Covered(file, Len(file), checkpoint_seq)
      BY <1>1, <2>1, <2>5, CoveredStays
    <2> QED
      BY <1>2, <2>3, <2>6, <2>7, <2>8 DEF TiersReplay
  <1>4. CASE ~W!Open
    <2>1. fenced'
      BY <1>2, <1>4 DEF Rollback, DropTx, W!OpenFail
    <2> QED
      BY <1>2, <2>1 DEF TiersReplay, BarrierKnown, InUse
  <1> QED
    BY <1>3, <1>4

(* Where every id is written once, no entry has replaced another.          *)
OneWriteEach(f, s) ==
    \A e \in Replay(f, Len(f), s), i \in RecordsAbove(f, Len(f), s) :
        f[i].rec.id = e.rec.id => f[i].seq = e.seq

LEMMA OneWriteOnce ==
  ASSUME NEW f, GoodLog(f), OneWrite(f), NEW s \in Nat
  PROVE  OneWriteEach(f, s)
  <1> SUFFICES ASSUME NEW e \in Replay(f, Len(f), s), NEW i \in RecordsAbove(f, Len(f), s),
                      f[i].rec.id = e.rec.id
               PROVE  f[i].seq = e.seq
    BY DEF OneWriteEach
  <1>1. PICK j \in RecordsAbove(f, Len(f), s) : e = EntryAt(f, j)
    BY ReplayIs, LastWritesMember
  <1>2. \A k \in RecordsAbove(f, Len(f), s) : k \in RecordsAbove(f, Len(f), 0)
    BY RecordFacts DEF RecordsAbove
  <1>3. i = j
    BY <1>1, <1>2 DEF OneWrite, EntryAt
  <1> QED
    BY <1>1, <1>3 DEF EntryAt

(* After its barrier a checkpoint seals exactly what the log holds.        *)
LEMMA SealedView ==
  ASSUME IInv, View, pc \in {"seal", "publish", "swap"}
  PROVE  /\ Sealed.entries = Live(Covered(file, Len(file), committed_seq))
         /\ Replay(file, Len(file), committed_seq) = {}
  <1>1. /\ LogOK /\ TiersOK /\ LogTyped /\ GoodLog(file) /\ committed_seq = AckedSeq
        /\ acked = Len(file) /\ InUse
    BY LogTypes, GoodFile DEF IInv, CallOK, View, SealsAtBarrier, InUse
  <1>2. committed_seq \in Nat /\ checkpoint_seq \in Nat /\ Len(file) \in 0..Len(file)
    BY <1>1 DEF LogTyped, TiersOK
  <1>3. Sealed.entries = Live(Replay(file, Len(file), 0))
    <2>1. Merged(Live(Covered(file, Len(file), checkpoint_seq)),
                 Replay(file, Len(file), checkpoint_seq)) = Live(Replay(file, Len(file), 0))
      BY <1>1, <1>2, MergeSplit
    <2> QED
      BY <1>1, <2>1 DEF Sealed, View, TiersReplay
  <1>4. ASSUME NEW i \in RecordsAbove(file, Len(file), 0)
        PROVE  file[i].seq <= committed_seq
    <2>1. i \in 1..Len(file) /\ file[i].kind = "Record" /\ acked > 0
      BY <1>1, <1>2 DEF RecordsAbove
    <2>2. /\ acked \in 1..Len(file) /\ file[acked].kind = "Commit"
          /\ committed_seq = file[acked].seq
      BY <1>1, <1>2, <2>1 DEF LogOK, L!IInv, L!AckedCovered, AckedSeq
    <2>3. i < acked
      BY <1>1, <1>2, <2>1, <2>2
    <2>4. file[i].seq < file[acked].seq
      BY <1>1, <2>1, <2>2, <2>3 DEF GoodLog, L!Rising
    <2> QED
      BY <1>1, <2>1, <2>2, <2>4 DEF LogTyped
  <1>5. /\ Covered(file, Len(file), committed_seq) = Replay(file, Len(file), 0)
        /\ Replay(file, Len(file), committed_seq) = {}
    BY <1>1, <1>2, <1>4, CoveredBounds
  <1> QED
    BY <1>3, <1>5

LEMMA SwapView ==
  ASSUME IInv, IInv', View, Swap
  PROVE  TiersReplay' /\ BarrierKnown'
  <1>1. /\ pc = "swap" /\ UNCHANGED log /\ file' = file /\ InUse
    BY DEF Swap, log, InUse, View, SealsAtBarrier
  <1>2. CASE UNCHANGED tiers
    BY <1>1, <1>2, QuietView
  <1>3. CASE seg' = Sealed.entries /\ l0' = {} /\ checkpoint_seq' = CoveredSeq
    <2>1. BarrierKnown'
      BY <1>1 DEF View, BarrierKnown, log
    <2>2. TiersReplay'
      BY <1>1, <1>3, SealedView DEF TiersReplay, CoveredSeq
    <2> QED
      BY <2>1, <2>2
  <1> QED
    BY <1>2, <1>3 DEF Swap

(* A manifest that is written names no segment and covers nothing, or it   *)
(* names the segment just sealed and covers its barrier.                   *)
LEMMA ManifestView ==
  ASSUME IInv, IInv', View, L!AckedKept, RebuildPublish \/ RebuildFail \/ Publish
  PROVE  ManifestReplay'
  <1>1. LogOK /\ LogOK' /\ ManifestOK /\ ManifestReplay /\ GoodLog(file)
    BY GoodFile DEF IInv, View
  <1>2. file' = file
    BY <1>1, ExitFacts DEF RebuildPublish, RebuildFail, Publish, log
  <1>3. CASE manifest' = manifest
    BY <1>1, <1>3, ManifestReplayStays
  <1>4. CASE manifest' = ManifestOf(0, {})
    <2>1. manifest'.segments = {} /\ manifest'.checkpoint_seq = 0
      BY <1>4 DEF ManifestOf
    <2>2. Covered(file, Len(file), 0) = {}
      BY <1>1, CoveredBounds DEF GoodLog
    <2> QED
      BY <1>2, <2>1, <2>2 DEF ManifestReplay, TheSegment, Live
  <1>5. CASE Publish /\ manifest' = ManifestOf(CoveredSeq, {Sealed})
    <2>1. manifest'.segments = {Sealed} /\ manifest'.checkpoint_seq = committed_seq
      BY <1>5 DEF ManifestOf, CoveredSeq
    <2>2. Sealed.entries = Live(Covered(file, Len(file), committed_seq))
      BY <1>5, SealedView DEF Publish
    <2>3. TheSegment(manifest') = Sealed.entries
      BY <2>1 DEF TheSegment
    <2> QED
      BY <1>2, <2>1, <2>2, <2>3 DEF ManifestReplay, TheSegment
  <1>6. \/ manifest' = manifest \/ manifest' = ManifestOf(0, {})
        \/ Publish /\ manifest' = ManifestOf(CoveredSeq, {Sealed})
    BY DEF RebuildPublish, RebuildFail, Publish
  <1> QED
    BY <1>3, <1>4, <1>5, <1>6

(* Without overwrites the id of an accepted write is not in the log.       *)
LEMMA AppendOneWrite ==
  ASSUME IInv, View, Idle, OneWrite(file), NEW r \in Records, r.life = "live",
         \A e \in seg \cup l0 : e.rec.id # r.id, W!AppendRecord(r)
  PROVE  OneWrite(file')
  <1>1. LogOK /\ LogTyped /\ GoodLog(file) /\ checkpoint_seq \in Nat /\ InUse
    BY LogTypes, GoodFile DEF IInv, TiersOK, Idle, InUse, FlagsOK
  <1>2. /\ Begins(file, file') /\ Len(file') = Len(file) + 1
        /\ file'[Len(file) + 1] = [kind |-> "Record", seq |-> next_seq, rec |-> r]
    BY <1>1, AppendFacts
  <1>3. /\ l0 = Replay(file, Len(file), checkpoint_seq)
        /\ seg = Live(Covered(file, Len(file), checkpoint_seq))
    BY <1>1 DEF View, TiersReplay
  <1>4. ASSUME NEW i \in RecordsAbove(file, Len(file), 0)
        PROVE  file[i].rec.id # r.id
    <2>1. /\ i \in 1..Len(file) /\ file[i].kind = "Record" /\ file[i].seq \in Nat
          /\ EntryAt(file, i).rec = file[i].rec /\ file[i].rec.life = "live"
      BY <1>1, RecordFacts DEF RecordsAbove, OneWrite
    <2>2. \A k \in RecordsAbove(file, Len(file), 0) : file[k].rec.id = file[i].rec.id => k <= i
      BY <2>1 DEF OneWrite
    <2>3. CASE file[i].seq > checkpoint_seq
      <3>1. i \in RecordsAbove(file, Len(file), checkpoint_seq)
        BY <2>1, <2>3 DEF RecordsAbove
      <3>2. RecordsAbove(file, Len(file), checkpoint_seq) \subseteq RecordsAbove(file, Len(file), 0)
        BY <1>1 DEF RecordsAbove, LogTyped
      <3>3. EntryAt(file, i) \in l0
        BY <1>3, <2>2, <3>1, <3>2, ReplayIs, LastWritesMember
      <3> QED
        BY <2>1, <3>3
    <2>4. CASE file[i].seq <= checkpoint_seq
      <3>1. i \in RecordsUpTo(file, Len(file), checkpoint_seq)
        BY <2>1, <2>4 DEF RecordsUpTo
      <3>2. RecordsUpTo(file, Len(file), checkpoint_seq) \subseteq RecordsAbove(file, Len(file), 0)
        BY <1>1, RecordFacts DEF RecordsAbove, RecordsUpTo
      <3>3. EntryAt(file, i) \in Covered(file, Len(file), checkpoint_seq)
        BY <2>2, <3>1, <3>2, LastWritesMember DEF Covered
      <3>4. EntryAt(file, i) \in seg
        BY <1>3, <2>1, <3>3 DEF Live
      <3> QED
        BY <2>1, <3>4
    <2> QED
      BY <1>1, <2>1, <2>3, <2>4
  <1>5. \A i \in RecordsAbove(file', Len(file'), 0) :
           \/ i \in RecordsAbove(file, Len(file), 0) /\ file'[i] = file[i]
           \/ i = Len(file) + 1 /\ file'[i].rec = r
    BY <1>1, <1>2 DEF RecordsAbove, Begins, LogTyped
  <1> SUFFICES ASSUME NEW i \in RecordsAbove(file', Len(file'), 0),
                      NEW j \in RecordsAbove(file', Len(file'), 0)
               PROVE  /\ file'[i].rec.life = "live"
                      /\ file'[i].rec.id = file'[j].rec.id => i = j
    BY DEF OneWrite
  <1> QED
    BY <1>4, <1>5 DEF OneWrite

-----------------------------------------------------------------------------
(* The invariant of the view, action by action.                            *)

LEMMA ViewInit == Init => ViewInv
  <1> SUFFICES ASSUME Init PROVE ViewInv
    OBVIOUS
  <1>1. file = <<>>
    BY DEF Init, W!Init
  <1>2. OneWrite(file)
    BY <1>1 DEF OneWrite, RecordsAbove
  <1> QED
    BY <1>2 DEF Init, ViewInv, View, TiersReplay, BarrierKnown, ManifestReplay, SealsAtBarrier,
                CallView, InUse

(* Between the barrier of a checkpoint and the swap nothing comes to the   *)
(* log.                                                                    *)
LEMMA SealsStep ==
  ASSUME IInv, SealsAtBarrier, [Next]_vars
  PROVE  SealsAtBarrier'
  <1>0. LogOK
    BY DEF IInv
  <1>1. CASE Checkpoint /\ W!Commit
    BY <1>0, <1>1, CommitFacts DEF Checkpoint, Idle, SealsAtBarrier
  <1>2. CASE pc \in {"seal", "publish", "swap"} /\ UNCHANGED log
    BY <1>2 DEF SealsAtBarrier, log
  <1>3. ASSUME pc' \in {"seal", "publish", "swap"}
        PROVE  \/ Checkpoint /\ W!Commit
               \/ pc \in {"seal", "publish", "swap"} /\ UNCHANGED log
    <2>1. CASE Checkpoint
      BY <1>3, <2>1 DEF Checkpoint, Idle
    <2>2. CASE Seal \/ Publish \/ Swap \/ UNCHANGED vars
      BY <1>3, <2>2 DEF Seal, Publish, Swap, vars
    <2>3. CASE Open \/ OpenFail \/ OpenRefused \/ RebuildPublish \/ RebuildGc \/ RebuildFail
               \/ Exit \/ PowerLoss \/ LoseManifest \/ GcSegments
      BY <1>3, <2>3 DEF Open, OpenFail, OpenRefused, RebuildPublish, RebuildGc, RebuildFail,
                        Exit, PowerLoss, LoseManifest, GcSegments, NoStore
    <2>4. CASE \/ \E id \in Ids, d \in Dims, v \in Vals : Upsert(id, d, v)
               \/ \E id \in Ids : Delete(id)
      BY <1>3, <2>4 DEF Upsert, Delete, AppendRec, AfterMutation, Idle
    <2>5. CASE Autocommit \/ Commit \/ (\E m \in Metrics : SetMetric(m)) \/ Transaction
               \/ CommitTx \/ Rollback \/ DropTx
      BY <1>3, <2>5 DEF Autocommit, Commit, SetMetric, Transaction, CommitTx, Rollback, DropTx, Idle
    <2> QED
      BY <2>1, <2>2, <2>3, <2>4, <2>5 DEF Next
  <1> QED
    BY <1>1, <1>2, <1>3 DEF SealsAtBarrier

LEMMA CallViewStep ==
  ASSUME IInv, IInv', Disciplined, ViewInv, [Next]_vars,
         SubRecords \/ Upserted \/ Deleted
  PROVE  CallView'
  <1>1. LogOK /\ LogOK' /\ FlagsOK
    BY DEF IInv
  <1>2. /\ pc' = "ack" => ~in_tx'
        /\ NoRollback => ~in_tx'
    <2>1. CASE Seal \/ Publish \/ Swap \/ UNCHANGED vars
      BY <2>1 DEF Seal, Publish, Swap, vars, mode, ViewInv, CallView
    <2>2. CASE Open \/ OpenFail \/ OpenRefused \/ RebuildPublish \/ RebuildGc \/ RebuildFail
               \/ Exit \/ PowerLoss \/ LoseManifest \/ GcSegments
      BY <2>2 DEF Open, OpenFail, OpenRefused, RebuildPublish, RebuildGc, RebuildFail,
                  Exit, PowerLoss, LoseManifest, GcSegments, NoStore, mode, ViewInv, CallView
    <2>3. CASE \/ \E id \in Ids, d \in Dims, v \in Vals : Upsert(id, d, v)
               \/ \E id \in Ids : Delete(id)
      <3>1. in_tx' = in_tx /\ pc' \in {pc, AfterMutation} /\ pc = "idle"
        BY <2>3 DEF Upsert, Delete, AppendRec, mode, Idle
      <3> QED
        BY <3>1 DEF AfterMutation, ViewInv, CallView
    <2>4. CASE \/ Autocommit \/ Commit \/ (\E m \in Metrics : SetMetric(m))
               \/ CommitTx \/ Rollback \/ DropTx \/ Checkpoint
      BY <2>4 DEF Autocommit, Commit, SetMetric, CommitTx, Rollback, DropTx, Checkpoint,
                  EndTx, mode, Idle, ViewInv, CallView
    <2>5. CASE Transaction
      BY <2>5 DEF Transaction, Idle, NoRollback
    <2> QED
      BY <2>1, <2>2, <2>3, <2>4, <2>5 DEF Next
  <1>3. NoRollback \/ OneWrite(file)'
    <2> SUFFICES ASSUME ~NoRollback PROVE OneWrite(file')
      BY DEF OneWrite
    <2>1. OneWrite(file) /\ NoOverwrite
      BY DEF Disciplined, ViewInv, CallView
    <2>2. CASE SubRecords
      <3>1. OneWrite(file)'
        BY <1>1, <2>1, <2>2, OneWriteStays
      <3> QED
        BY <3>1 DEF OneWrite
    <2>3. CASE Upserted
      <3>1. PICK id \in Ids, d \in Dims, v \in Vals :
               Upsert(id, d, v) /\ LiveRecord(id, d, v) \in Records
               /\ W!AppendRecord(LiveRecord(id, d, v))
        BY <2>3 DEF Upserted
      <3>2. /\ LiveRecord(id, d, v).life = "live" /\ LiveRecord(id, d, v).id = id
            /\ Idle /\ \A e \in seg \cup l0 : e.rec.id # id
        BY <2>1, <3>1 DEF LiveRecord, Upsert, NoOverwrite
      <3> QED
        BY <2>1, <3>1, <3>2, AppendOneWrite DEF ViewInv
    <2>4. ~Deleted
      BY <2>1 DEF NoOverwrite, Deleted, Delete
    <2> QED
      BY <2>2, <2>3, <2>4
  <1> QED
    BY <1>2, <1>3 DEF CallView

(* A step loses nothing if a barrier that fails leaves nobody in a         *)
(* transaction, and a rollback keeps every committed record.               *)
LosesNothing ==
    \/ Open \/ OpenFail \/ OpenRefused \/ RebuildPublish \/ RebuildGc \/ RebuildFail
    \/ \E id \in Ids, d \in Dims, v \in Vals : Upsert(id, d, v)
    \/ \E id \in Ids : Delete(id)
    \/ \E m \in Metrics : SetMetric(m)
    \/ Transaction \/ Seal \/ Publish \/ Swap \/ GcSegments
    \/ Exit \/ PowerLoss \/ LoseManifest \/ UNCHANGED vars
    \/ (Autocommit \/ Commit \/ CommitTx \/ Checkpoint) /\ in_tx' = FALSE
    \/ (Rollback \/ DropTx) /\ InUse /\ in_tx' = FALSE /\ RollbackKeeps

LEMMA LosingIsAStep == LosesNothing => [Next]_vars
  BY DEF LosesNothing, Next

LEMMA ViewKept ==
  ASSUME IInv, "use_after_drop" \notin Verbs, View, LosesNothing
  PROVE  View'
  <1>1. IInv' /\ L!AckedKept /\ [Next]_vars
    BY LogSteps, LosingIsAStep
  <1>2. LogOK /\ LogOK' /\ ManifestOK
    BY <1>1 DEF IInv
  <1>3. SealsAtBarrier'
    BY <1>1, SealsStep DEF View
  <1>4. ManifestReplay'
    <2>1. CASE RebuildPublish \/ RebuildFail \/ Publish
      BY <1>1, <2>1, ManifestView
    <2>2. CASE manifest' \in {manifest, None}
      BY <1>1, <1>2, <2>2, ManifestReplayStays DEF View
    <2>3. Open \/ OpenFail \/ OpenRefused \/ Rollback \/ DropTx => manifest' = manifest
      BY DEF Open, OpenFail, OpenRefused, Rollback, DropTx, disk
    <2>4. RebuildGc \/ Seal \/ Swap \/ GcSegments \/ Checkpoint => manifest' = manifest
      BY DEF RebuildGc, Seal, Swap, GcSegments, Checkpoint, disk
    <2>5. Autocommit \/ Commit \/ CommitTx \/ Transaction \/ Exit \/ PowerLoss => manifest' = manifest
      BY DEF Autocommit, Commit, CommitTx, Transaction, Exit, PowerLoss, disk
    <2>6. (\E m \in Metrics : SetMetric(m)) \/ UNCHANGED vars => manifest' = manifest
      BY DEF SetMetric, vars, disk
    <2>7. ASSUME \/ \E id \in Ids, d \in Dims, v \in Vals : Upsert(id, d, v)
                 \/ \E id \in Ids : Delete(id)
          PROVE  manifest' = manifest
      BY <2>7 DEF Upsert, Delete, disk
    <2>8. LoseManifest => manifest' = None
      BY DEF LoseManifest
    <2> QED
      BY <1>1, <2>1, <2>2, <2>3, <2>4, <2>5, <2>6, <2>7, <2>8 DEF Next
  <1> DEFINE goal == TiersReplay' /\ BarrierKnown'
  <1>5. pc' = "down" => goal
    BY DEF TiersReplay, BarrierKnown, InUse
  <1>6. OpenFail \/ OpenRefused \/ RebuildFail \/ Exit \/ PowerLoss \/ LoseManifest => goal
    BY <1>5 DEF OpenFail, OpenRefused, RebuildFail, Exit, PowerLoss, LoseManifest, NoStore
  <1>7. Open => goal
    BY <1>1, OpenView
  <1>8. (Rollback \/ DropTx) /\ InUse /\ in_tx' = FALSE /\ RollbackKeeps => goal
    BY <1>1, RollbackView
  <1>9. Swap => goal
    BY <1>1, SwapView
  <1>10. ASSUME UNCHANGED <<log, tiers>>, InUse' => InUse PROVE goal
    BY <1>1, <1>10, QuietView
  <1>11. RebuildPublish \/ RebuildGc \/ Seal \/ Publish \/ GcSegments => goal
    <2> SUFFICES ASSUME RebuildPublish \/ RebuildGc \/ Seal \/ Publish \/ GcSegments PROVE goal
      OBVIOUS
    <2>1. UNCHANGED <<log, tiers>> /\ fenced' = fenced /\ in_tx' = in_tx /\ pc # "down"
      BY DEF RebuildPublish, RebuildGc, Seal, Publish, GcSegments, log, mode
    <2> QED
      BY <1>10, <2>1 DEF InUse
  <1>12. (\E m \in Metrics : SetMetric(m)) \/ Transaction \/ UNCHANGED vars => goal
    <2> SUFFICES ASSUME (\E m \in Metrics : SetMetric(m)) \/ Transaction \/ UNCHANGED vars PROVE goal
      OBVIOUS
    <2>1. UNCHANGED <<log, tiers>> /\ (InUse' => InUse)
      BY DEF SetMetric, Transaction, vars, log, mode, InUse, Idle
    <2> QED
      BY <1>10, <2>1
  <1>13. ASSUME \/ \E id \in Ids, d \in Dims, v \in Vals : Upsert(id, d, v)
                \/ \E id \in Ids : Delete(id)
         PROVE  goal
    <2>1. ASSUME NEW id \in Ids, NEW d \in Dims, NEW v \in Vals, Upsert(id, d, v)
          PROVE  goal
      <3>1. LiveRecord(id, d, v) \in Records
        BY DEF LiveRecord, Records, Record
      <3>2. /\ AppendRec(LiveRecord(id, d, v)) /\ Idle
            /\ UNCHANGED <<seg, checkpoint_seq, mode>>
        BY <2>1 DEF Upsert, LiveRecord
      <3> QED
        BY <1>1, <3>1, <3>2, AppendView
    <2>2. ASSUME NEW id \in Ids, Delete(id)
          PROVE  goal
      <3>1. dim \in Dims
        <4>1. seg # {} \/ l0 # {}
          BY <2>2 DEF Delete, IsLive
        <4> QED
          BY <4>1 DEF IInv, TiersOK, ScalarsOK
      <3>2. Gravestone(id) \in Records
        BY <3>1 DEF Gravestone, Records, Tombstone
      <3>3. /\ AppendRec(Gravestone(id)) /\ Idle
            /\ UNCHANGED <<seg, checkpoint_seq, mode>>
        BY <2>2 DEF Delete, Gravestone, tiers
      <3> QED
        BY <1>1, <3>2, <3>3, AppendView
    <2> HIDE DEF goal
    <2> QED
      BY <1>13, <2>1, <2>2
  <1>14. ASSUME Autocommit \/ Commit \/ CommitTx \/ Checkpoint, in_tx' = FALSE PROVE goal
    <2>1. CommitLog /\ UNCHANGED tiers /\ pc # "down"
      BY <1>14 DEF Autocommit, Commit, CommitTx, Checkpoint, CommitLog, Idle
    <2> QED
      BY <1>1, <1>14, <2>1, BarrierView
  <1> HIDE DEF goal
  <1>15. goal
    BY <1>6, <1>7, <1>8, <1>9, <1>11, <1>12, <1>13, <1>14 DEF LosesNothing
  <1> QED
    BY <1>3, <1>4, <1>15 DEF View, goal

(* Of the two ways to use the store no step loses anything.                *)
LEMMA DisciplinedStep ==
  ASSUME IInv, Disciplined, ViewInv, [Next]_vars
  PROVE  LosesNothing
  <1>1. FlagsOK
    BY DEF IInv
  <1>2. ASSUME Autocommit \/ Commit \/ CommitTx \/ Checkpoint PROVE in_tx' = FALSE
    <2>1. CASE Autocommit
      BY <1>1, <2>1, Zenon DEF Autocommit, ViewInv, CallView, FlagsOK, mode
    <2>2. CASE Commit
      BY <1>1, <2>2, Zenon DEF Commit, ViewInv, CallView, FlagsOK, mode, Disciplined, NoOverwrite
    <2>3. CASE CommitTx
      BY <2>3 DEF CommitTx, EndTx
    <2>4. CASE Checkpoint
      BY <1>1, <2>4, Zenon DEF Checkpoint, ViewInv, CallView, FlagsOK, mode, Disciplined, NoOverwrite
    <2> QED
      BY <1>2, <2>1, <2>2, <2>3, <2>4
  <1>3. ASSUME Rollback \/ DropTx PROVE InUse /\ in_tx' = FALSE /\ RollbackKeeps
    <2>1. NoOverwrite /\ OneWrite(file)
      BY <1>3 DEF Disciplined, NoRollback, Rollback, DropTx, ViewInv, CallView
    <2>2. InUse /\ in_tx' = FALSE
      <3>1. CASE Rollback
        <4>1. ~in_tx /\ ~fenced /\ in_tx' = in_tx
          BY <2>1, <3>1 DEF Rollback, NoOverwrite, mode
        <4>2. in_tx' = FALSE
          BY <1>1, <4>1, Zenon DEF FlagsOK
        <4> QED
          BY <3>1, <4>1, <4>2 DEF Rollback, InUse
      <3>2. CASE DropTx
        BY <3>2 DEF DropTx, EndTx, InUse
      <3> QED
        BY <1>3, <3>1, <3>2
    <2>3. l0 = Replay(file, Len(file), checkpoint_seq) /\ checkpoint_seq \in Nat /\ GoodLog(file)
      BY <2>2, GoodFile DEF ViewInv, View, TiersReplay, IInv, TiersOK
    <2>4. OneWriteEach(file, checkpoint_seq)
      BY <2>1, <2>3, OneWriteOnce
    <2>5. /\ committed_seq \in Nat /\ l0 \subseteq Entry
          /\ \A e \in Entry : e.seq \in Nat
      BY LogTypes DEF IInv, LogTyped, TiersOK, Entry
    <2>6. ASSUME NEW e \in l0, e.seq > committed_seq,
                 NEW i \in RecordsAbove(file, Len(file), checkpoint_seq),
                 file[i].seq <= committed_seq
          PROVE  file[i].rec.id # e.rec.id
      BY <2>3, <2>4, <2>5, <2>6 DEF OneWriteEach
    <2> QED
      BY <2>2, <2>6 DEF RollbackKeeps
  <1> QED
    BY <1>2, <1>3 DEF LosesNothing, Next

LEMMA ViewStep ==
  ASSUME IInv, Disciplined, ViewInv, [Next]_vars
  PROVE  ViewInv'
  <1>1. IInv' /\ (SubRecords \/ Upserted \/ Deleted) /\ "use_after_drop" \notin Verbs
    BY LogSteps DEF Disciplined
  <1>2. CallView'
    BY <1>1, CallViewStep
  <1>3. View'
    BY <1>1, DisciplinedStep, ViewKept DEF ViewInv
  <1> QED
    BY <1>2, <1>3 DEF ViewInv

LEMMA ViewInvariance ==
  ASSUME Disciplined
  PROVE  Spec => [](IInv /\ ViewInv)
  <1>1. Init => IInv /\ ViewInv
    BY InitStep, ViewInit
  <1>2. IInv /\ ViewInv /\ [Next]_vars => (IInv /\ ViewInv)'
    <2> SUFFICES ASSUME IInv, ViewInv, [Next]_vars PROVE (IInv /\ ViewInv)'
      OBVIOUS
    <2>1. IInv'
      BY NextStep DEF Disciplined
    <2>2. ViewInv'
      BY ViewStep
    <2> QED
      BY <2>1, <2>2
  <1> QED
    BY <1>1, <1>2, PTL DEF Spec

LEMMA ViewNow ==
  ASSUME IInv, View, InUse
  PROVE  Merged(seg, l0) = Live(Replay(file, Len(file), 0))
  <1>1. GoodLog(file) /\ checkpoint_seq \in Nat /\ Len(file) \in 0..Len(file)
    BY GoodFile DEF IInv, TiersOK, GoodLog
  <1> QED
    BY <1>1, MergeSplit DEF View, TiersReplay

(* The store shows what replaying the whole log from its start would give, *)
(* at every step of every call and after any faults.  (upsert, delete,     *)
(* rollback, checkpoint, open_with)                                        *)
THEOREM ViewFollowsLog ==
  ASSUME Disciplined
  PROVE  Spec => []ViewIsReplay
  <1>1. IInv /\ ViewInv => ViewIsReplay
    BY ViewNow DEF ViewIsReplay, InUse, ViewInv
  <1> QED
    BY <1>1, ViewInvariance, PTL

(* What a recovery that ends at c, beyond the acknowledged frames, shows.  *)
LEMMA RecoveredView ==
  ASSUME IInv, ManifestReplay, NEW f, GoodLog(f), NEW c \in 0..Len(f), acked <= c,
         \A i \in 1..acked : f[i] = file[i], NEW readable
  PROVE  LET r == Recovery(f, c, manifest, readable)
         IN  Merged(r.seg, r.l0) = Live(Replay(f, c, 0))
  <1> DEFINE r == Recovery(f, c, manifest, readable)
             ok == Honoured(f, c, manifest, readable)
             base == IF ok THEN manifest.checkpoint_seq ELSE 0
  <1>1. /\ r.seg = (IF ok THEN TheSegment(manifest) ELSE {})
        /\ r.l0 = Replay(f, c, base)
    BY DEF Recovery, TheSegment
  <1>2. LogOK /\ ManifestOK /\ LogTyped /\ GoodLog(file) /\ AckedSeq = SeqAt(file, acked)
    BY LogTypes, GoodFile DEF IInv
  <1>3. base \in Nat /\ r.seg = Live(Covered(f, c, base))
    <2>1. CASE ok
      <3>1. /\ manifest # None /\ manifest.checkpoint_seq \in Nat
            /\ manifest.checkpoint_seq <= SeqAt(file, acked)
        BY <1>2, <2>1 DEF Honoured, ManifestOK
      <3>2. /\ acked \in Nat /\ Len(file) \in 0..Len(file) /\ acked <= Len(file)
            /\ \A i \in 1..acked : file[i] = f[i]
        BY <1>2 DEF LogTyped
      <3>3. Covered(file, Len(file), manifest.checkpoint_seq) = Covered(f, c, manifest.checkpoint_seq)
        BY <1>2, <3>1, <3>2, SameCovered
      <3>4. base = manifest.checkpoint_seq /\ r.seg = TheSegment(manifest)
        BY <1>1, <2>1
      <3> QED
        BY <3>1, <3>3, <3>4 DEF ManifestReplay
    <2>2. CASE ~ok
      <3>1. base = 0 /\ r.seg = {}
        BY <1>1, <2>2
      <3> QED
        BY <3>1, CoveredBounds DEF Live
    <2> QED
      BY <2>1, <2>2
  <1> HIDE DEF ok, base, r
  <1>4. Merged(r.seg, r.l0) = Live(Replay(f, c, 0))
    BY <1>1, <1>3, MergeSplit
  <1> QED
    BY <1>4 DEF r

(* Whatever step of whatever call a crash interrupts, and whether or not   *)
(* the derived files can be used, an open that succeeds shows exactly the  *)
(* records of the log it recovered.  (open_with)                           *)
THEOREM CrashesRecover ==
  ASSUME Disciplined
  PROVE  Spec => []CrashRecovers
  <1>1. IInv /\ ViewInv => CrashRecovers
    <2> SUFFICES ASSUME IInv, ViewInv, NEW f \in W!CrashImages,
                        NEW n \in 0..Len(f), NEW c \in 0..Len(f), Found(f, n, c),
                        NEW readable \in Readability(manifest, segfiles)
                 PROVE  LET r == Recovery(f, c, manifest, readable)
                        IN  Merged(r.seg, r.l0) = Live(Replay(f, c, 0))
      BY DEF CrashRecovers
    <2>1. LogOK /\ ManifestReplay
      BY DEF IInv, ViewInv, View
    <2>2. GoodLog(f) /\ \A i \in 1..acked : f[i] = file[i]
      BY <2>1, ImageFacts DEF GoodLog
    <2>3. acked <= c
      BY <2>1, ImageKeepsBarrier
    <2> QED
      BY <2>1, <2>2, <2>3, RecoveredView
  <1> QED
    BY <1>1, ViewInvariance, PTL

(* With nothing waiting for a barrier, closing the store and opening it    *)
(* again changes nothing that can be read.  (store.rs, "Reopen             *)
(* equivalence")                                                           *)
THEOREM ReopenShowsTheSame ==
  ASSUME Disciplined
  PROVE  Spec => []ReopenEquivalence
  <1>1. IInv /\ ViewInv => ReopenEquivalence
    <2> SUFFICES ASSUME IInv, ViewInv, pc = "idle", ~fenced, file # <<>>,
                        file[Len(file)].kind = "Commit",
                        NEW n \in 0..Len(file), NEW c \in 0..Len(file), Found(file, n, c),
                        NEW readable \in Readability(manifest, segfiles)
                 PROVE  LET r == Recovery(file, c, manifest, readable)
                        IN  Merged(r.seg, r.l0) = Merged(seg, l0)
      BY DEF ReopenEquivalence
    <2>1. LogOK /\ LogTyped /\ GoodLog(file) /\ ManifestReplay /\ L!TornLast(file)
      BY LogTypes, GoodFile DEF IInv, ViewInv, View, LogOK, L!IInv
    <2>2. Len(file) \in 1..Len(file)
      BY <2>1 DEF LogTyped
    <2>3. n = Len(file)
      <3>1. n < Len(file) => file[n + 1].kind = "Torn" /\ n + 1 \in 1..Len(file)
        BY <2>1 DEF Found, W!Scanned, LogTyped
      <3> QED
        BY <2>1, <2>2, <3>1 DEF L!TornLast, LogTyped
    <2>4. c = Len(file)
      BY <2>1, <2>2, <2>3 DEF Found, W!LastBarrier, LogTyped
    <2>5. acked <= c
      BY <2>1, <2>4 DEF LogTyped
    <2>6. LET r == Recovery(file, c, manifest, readable)
          IN  Merged(r.seg, r.l0) = Live(Replay(file, c, 0))
      BY <2>1, <2>5, RecoveredView
    <2>7. Merged(seg, l0) = Live(Replay(file, c, 0))
      BY <2>4, ViewNow DEF InUse, ViewInv
    <2> QED
      BY <2>6, <2>7
  <1> QED
    BY <1>1, ViewInvariance, PTL

-----------------------------------------------------------------------------
(* Dropped transactions.                                                   *)

(* Under connect a transaction begins at a barrier, and no other barrier   *)
(* comes while it lives.                                                   *)
TxInv ==
    /\ pc = "down" => in_tx = FALSE
    /\ pc # "down" => autocommit
    /\ in_tx =>
          /\ tx_base \in 0..Len(file)
          /\ tx_base > 0 => file[tx_base].kind = "Commit"
          /\ \A i \in 1..Len(file) : i > tx_base => file[i].kind # "Commit"

LEMMA TxAppend ==
  ASSUME IInv, TxInv, pc = "idle", NEW r \in Records, AppendRec(r), UNCHANGED mode
  PROVE  TxInv'
  <1>1. LogOK /\ LogTyped
    BY LogTypes DEF IInv
  <1>2. pc' # "down" /\ autocommit' /\ in_tx' = in_tx /\ tx_base' = tx_base
    <2>1. pc' # "down"
      BY DEF AppendRec, AfterMutation
    <2>2. autocommit' /\ in_tx' = in_tx /\ tx_base' = tx_base
      BY Zenon DEF TxInv, mode
    <2> QED
      BY <2>1, <2>2
  <1>3. /\ Begins(file, file') /\ Len(file') \in Nat
        /\ \A i \in 1..Len(file') : i > Len(file) => file'[i].kind # "Commit"
    <2>1. CASE W!AppendRecord(r)
      <3>1. /\ Begins(file, file') /\ Len(file') = Len(file) + 1
            /\ file'[Len(file) + 1] = [kind |-> "Record", seq |-> next_seq, rec |-> r]
        BY <1>1, <2>1, AppendFacts
      <3>2. file'[Len(file) + 1].kind = "Record"
        BY <3>1
      <3> QED
        BY <1>1, <3>1, <3>2 DEF LogTyped
    <2>2. CASE W!AppendFail
      <3>1. Begins(file, file')
        BY <1>1, <2>2, FailFacts
      <3>2. file' = file \/ file' = Append(file, W!TornFrame)
        BY <2>2 DEF W!AppendFail, W!PartlyWritten
      <3>3. W!TornFrame.kind = "Torn"
        BY DEF W!TornFrame
      <3> QED
        BY <1>1, <3>1, <3>2, <3>3 DEF LogTyped
    <2> QED
      BY <2>1, <2>2 DEF AppendRec
  <1>4. in_tx' =>
          /\ tx_base' \in 0..Len(file')
          /\ tx_base' > 0 => file'[tx_base'].kind = "Commit"
          /\ \A i \in 1..Len(file') : i > tx_base' => file'[i].kind # "Commit"
    BY <1>1, <1>2, <1>3 DEF TxInv, Begins, LogTyped
  <1> QED
    BY <1>2, <1>4 DEF TxInv

LEMMA TxStep ==
  ASSUME IInv, ViewInv, NothingWaits, TxInv, "use_after_drop" \notin Verbs, NoOverwrite,
         "open" \notin Modes, [Next]_vars
  PROVE  TxInv'
  <1>1. LogOK /\ LogTyped /\ FlagsOK
    BY LogTypes DEF IInv
  <1>2. ASSUME in_tx' = FALSE, autocommit' \/ pc' = "down" PROVE TxInv'
    BY <1>2 DEF TxInv
  <1>3. CASE Open
    <2>1. \A m \in Modes : m = "connect"
      BY StoreAssumption
    <2>2. in_tx' = FALSE /\ autocommit'
      BY <1>3, <2>1 DEF Open
    <2> QED
      BY <1>2, <2>2
  <1>4. CASE OpenFail \/ OpenRefused \/ LoseManifest
    <2>1. pc = "down" /\ pc' = "down" /\ in_tx' = in_tx
      BY <1>4 DEF OpenFail, OpenRefused, LoseManifest, mode
    <2>2. in_tx' = FALSE
      BY <2>1, Zenon DEF TxInv
    <2> QED
      BY <1>2, <2>1, <2>2
  <1>5. CASE RebuildFail \/ Exit \/ PowerLoss
    BY <1>2, <1>5 DEF RebuildFail, Exit, PowerLoss, NoStore
  <1>6. ASSUME UNCHANGED <<log, mode>>, pc # "down", pc' # "down" PROVE TxInv'
    <2>1. /\ file' = file /\ in_tx' = in_tx /\ tx_base' = tx_base /\ autocommit' = autocommit
      BY <1>6 DEF log, mode
    <2> QED
      BY <1>6, <2>1 DEF TxInv
  <1>7. CASE UNCHANGED vars
    BY <1>7 DEF TxInv, vars, log, mode
  <1>8. CASE RebuildPublish \/ RebuildGc \/ Seal \/ Publish \/ Swap \/ GcSegments
             \/ \E m \in Metrics : SetMetric(m)
    <2>1. UNCHANGED <<log, mode>> /\ pc # "down" /\ pc' # "down"
      BY <1>8 DEF RebuildPublish, RebuildGc, Seal, Publish, Swap, GcSegments, SetMetric, Idle
    <2> QED
      BY <1>6, <2>1
  <1>9. CASE \E id \in Ids, d \in Dims, v \in Vals : Upsert(id, d, v)
    <2>1. PICK id \in Ids, d \in Dims, v \in Vals : Upsert(id, d, v)
      BY <1>9
    <2>2. LiveRecord(id, d, v) \in Records
      BY DEF LiveRecord, Records, Record
    <2>3. AppendRec(LiveRecord(id, d, v)) /\ pc = "idle" /\ UNCHANGED mode
      BY <2>1 DEF Upsert, LiveRecord, Idle
    <2> QED
      BY <2>2, <2>3, TxAppend
  <1>10. ~\E id \in Ids : Delete(id)
    BY DEF Delete, NoOverwrite
  <1>11. CASE Autocommit \/ Commit \/ CommitTx \/ Checkpoint
    <2>1. in_tx' = FALSE
      <3>1. CASE Autocommit
        BY <1>1, <3>1, Zenon DEF Autocommit, ViewInv, View, CallView, FlagsOK, mode
      <3>2. CASE Commit
        BY <1>1, <3>2, Zenon DEF Commit, FlagsOK, mode, NoOverwrite
      <3>3. CASE CommitTx
        BY <3>3 DEF CommitTx, EndTx
      <3>4. CASE Checkpoint
        BY <1>1, <3>4, Zenon DEF Checkpoint, FlagsOK, mode, NoOverwrite
      <3> QED
        BY <1>11, <3>1, <3>2, <3>3, <3>4
    <2>2. autocommit' = autocommit /\ pc # "down"
      BY <1>11 DEF Autocommit, Commit, CommitTx, Checkpoint, EndTx, mode, Idle
    <2>3. autocommit'
      BY <2>2, Zenon DEF TxInv
    <2> QED
      BY <1>2, <2>1, <2>3
  <1>12. CASE Rollback \/ DropTx
    <2>1. in_tx' = FALSE
      <3>1. CASE Rollback
        BY <1>1, <3>1, Zenon DEF Rollback, FlagsOK, mode, NoOverwrite
      <3>2. CASE DropTx
        BY <3>2 DEF DropTx, EndTx
      <3> QED
        BY <1>12, <3>1, <3>2
    <2>2. autocommit' = autocommit /\ pc # "down"
      BY <1>12 DEF Rollback, DropTx, EndTx, mode
    <2>3. autocommit'
      BY <2>2, Zenon DEF TxInv
    <2> QED
      BY <1>2, <2>1, <2>3
  <1>13. CASE Transaction
    <2>1. /\ pc = "idle" /\ ~fenced /\ ~in_tx /\ file' = file /\ tx_base' = Len(file)
          /\ autocommit' = autocommit /\ pc' = pc
      BY <1>13 DEF Transaction, Idle, log
    <2>2. EndsInBarrier(file) /\ autocommit'
      BY <2>1 DEF TxInv, NothingWaits
    <2>3. tx_base' \in 0..Len(file') /\ (tx_base' > 0 => file'[tx_base'].kind = "Commit")
          /\ \A i \in 1..Len(file') : ~(i > tx_base')
      BY <1>1, <2>1, <2>2 DEF EndsInBarrier, LogTyped
    <2> QED
      BY <2>1, <2>2, <2>3 DEF TxInv
  <1> QED
    BY <1>3, <1>4, <1>5, <1>7, <1>8, <1>9, <1>10, <1>11, <1>12, <1>13 DEF Next

(* A step that drops a live transaction leaves the view of the log as it   *)
(* was when the transaction began.                                         *)
LEMMA AbortStep ==
  ASSUME IInv, ViewInv, NothingWaits, TxInv, "use_after_drop" \notin Verbs, NoOverwrite,
         [Next]_vars, Aborts
  PROVE  Merged(seg', l0') = Live(Replay(file, tx_base, 0))
  <1>1. LogOK /\ LogTyped /\ FlagsOK /\ TxInv
    BY LogTypes DEF IInv
  <1>2. in_tx /\ ~in_tx' /\ up' /\ ~fenced' /\ acked' = acked
    BY DEF Aborts
  <1>3. DropTx /\ W!Open
    <2>1. ~(Open \/ OpenFail \/ OpenRefused \/ LoseManifest)
      BY <1>1, <1>2 DEF Open, OpenFail, OpenRefused, LoseManifest, TxInv
    <2>2. ~(RebuildFail \/ Exit \/ PowerLoss)
      <3>1. W!ProcessExit \/ W!PowerLoss => ~up'
        BY <1>1, ExitFacts, PowerFacts
      <3> QED
        BY <1>2, <3>1 DEF RebuildFail, Exit, PowerLoss
    <2>3. ~(RebuildPublish \/ RebuildGc \/ Seal \/ Publish \/ Swap \/ GcSegments)
      BY <1>2 DEF RebuildPublish, RebuildGc, Seal, Publish, Swap, GcSegments, mode
    <2>4. ~((\E m \in Metrics : SetMetric(m)) \/ Autocommit \/ Commit \/ Rollback \/ Checkpoint
            \/ Transaction \/ UNCHANGED vars)
      BY <1>2 DEF SetMetric, Autocommit, Commit, Rollback, Checkpoint, Transaction, vars, mode
    <2>5. ~\E id \in Ids, d \in Dims, v \in Vals : Upsert(id, d, v)
      BY <1>2 DEF Upsert, mode
    <2>6. ~\E id \in Ids : Delete(id)
      BY <1>2 DEF Delete, mode
    <2>7. ~CommitTx
      <3>1. W!Commit => acked' > acked
        BY <1>1, CommitFacts DEF LogTyped
      <3>2. W!CommitFail => fenced'
        BY <1>1, FailFacts
      <3>3. acked \in Nat
        BY <1>1 DEF LogTyped
      <3> QED
        BY <1>2, <3>1, <3>2, <3>3 DEF CommitTx, CommitLog
    <2>8. DropTx
      BY <2>1, <2>2, <2>3, <2>4, <2>5, <2>6, <2>7 DEF Next
    <2> QED
      BY <1>2, <2>8 DEF DropTx
  <1>4. /\ Begins(file', file) /\ BarriersStay(file, file') /\ EndsInBarrier(file')
    BY <1>1, <1>3, OpenFacts
  <1>5. IInv' /\ View' /\ InUse'
    <2>1. Disciplined
      BY DEF Disciplined
    <2>2. IInv' /\ ViewInv'
      BY <2>1, NextStep, ViewStep
    <2>3. InUse'
      BY <1>2, <1>3 DEF InUse, DropTx
    <2> QED
      BY <2>2, <2>3 DEF ViewInv
  <1>6. Merged(seg', l0') = Live(Replay(file', Len(file'), 0))
    <2>1. (Merged(seg, l0) = Live(Replay(file, Len(file), 0)))'
      BY <1>5, ViewNow, PTL
    <2> QED
      BY <2>1 DEF Merged, Live, Replay, RecordsAbove
  <1>7. Len(file') = tx_base
    <2>1. Len(file') \in Nat
      <3>1. LogTyped'
        BY <1>5, LogTypes, PTL DEF IInv
      <3> QED
        BY <3>1 DEF LogTyped
    <2>2. Len(file') > 0 => Len(file') \in 1..Len(file) /\ file[Len(file')].kind = "Commit"
      BY <1>1, <1>4, <2>1 DEF Begins, EndsInBarrier, LogTyped
    <2>3. tx_base \in 0..Len(file)
      BY <1>2 DEF TxInv
    <2>4. Len(file') <= tx_base
      BY <1>1, <1>2, <2>1, <2>2, <2>3 DEF TxInv, LogTyped
    <2>5. tx_base <= Len(file')
      BY <1>1, <1>2, <1>4, <2>1, <2>3 DEF TxInv, BarriersStay, LogTyped
    <2> QED
      BY <1>1, <2>1, <2>3, <2>4, <2>5 DEF LogTyped
  <1>8. Replay(file', Len(file'), 0) = Replay(file, tx_base, 0)
    <2>1. RecordsAbove(file', tx_base, 0) = RecordsAbove(file, tx_base, 0)
      BY <1>4, <1>7 DEF RecordsAbove, Begins
    <2>2. \A i \in RecordsAbove(file, tx_base, 0) : file[i] = file'[i]
      BY <1>4, <1>7 DEF RecordsAbove, Begins
    <2> QED
      BY <1>7, <2>1, <2>2, ReplayIs, SameWrites
  <1> QED
    BY <1>6, <1>8

(* Dropping a transaction under connect restores what the store showed     *)
(* when it began, for transactions of new ids: whatever failed in between, *)
(* and whatever else the log holds.  (Transaction::drop, rollback)         *)
THEOREM AbortsUndo ==
  ASSUME "use_after_drop" \notin Verbs, NoOverwrite, "open" \notin Modes
  PROVE  Spec => AbortUndoesTx
  <1>1. Init => NothingWaits /\ TxInv
    BY DEF Init, NothingWaits, TxInv
  <1> DEFINE inv == IInv /\ ViewInv /\ NothingWaits /\ TxInv
  <1>2. Disciplined
    BY DEF Disciplined
  <1>3. inv /\ [Next]_vars => inv'
    <2> SUFFICES ASSUME inv, [Next]_vars PROVE inv'
      OBVIOUS
    <2>1. IInv' /\ ViewInv' /\ NothingWaits' /\ TxInv'
      BY <1>2, NextStep, ViewStep, WaitsStep, TxStep
    <2> QED
      BY <2>1
  <1>4. inv /\ [Next]_vars =>
           [Aborts => Merged(seg', l0') = Live(Replay(file, tx_base, 0))]_vars
    BY AbortStep
  <1>5. Init => inv
    BY <1>1, InitStep, ViewInit
  <1> HIDE DEF inv
  <1> QED
    BY <1>3, <1>4, <1>5, PTL DEF Spec, AbortUndoesTx

-----------------------------------------------------------------------------
(* The store implements Collection.                                        *)

(* The views at these barriers, and at the last. *)
Outcomes == {ViewAt(file, c) : c \in Ends}
LastSaved == ViewAt(file, LastEnd)

NoBarrierAfter(f, c) == \A i \in 1..Len(f) : i > c => f[i].kind # "Commit"

-----------------------------------------------------------------------------
(* What the calls of the log do to its barriers.                           *)

LEMMA SameView ==
  ASSUME NEW f, NEW g, NEW c \in Nat, \A i \in 1..c : f[i] = g[i]
  PROVE  ViewAt(f, c) = ViewAt(g, c)
  <1>1. RecordsAbove(f, c, 0) = RecordsAbove(g, c, 0)
    BY DEF RecordsAbove
  <1>2. \A i \in RecordsAbove(f, c, 0) : f[i] = g[i]
    BY DEF RecordsAbove
  <1>3. Replay(f, c, 0) = Replay(g, c, 0)
    BY <1>1, <1>2, SameWrites, ReplayIs
  <1> QED
    BY <1>3 DEF ViewAt

(* There is a last barrier to end at, and it is the last one of the file.  *)
LastEndFacts ==
    /\ LastEnd \in Ends /\ \A d \in Ends : d <= LastEnd
    /\ Ends \subseteq 0..Len(file) /\ Len(file) \in Nat /\ synced \in 0..Len(file)
    /\ NoBarrierAfter(file, LastEnd)

LEMMA LastEndIs == LogOK => LastEndFacts
  <1> SUFFICES ASSUME LogOK PROVE LastEndFacts
    OBVIOUS
  <1> DEFINE S == {i \in 1..Len(file) : file[i].kind = "Commit"}
  <1>1. Len(file) \in Nat /\ synced \in 0..Len(file)
    BY LogTypes DEF LogTyped
  <1>2. \E c \in Ends : (\A d \in Ends : d <= c) /\ \A i \in S : i <= c
    <2>1. CASE S = {}
      <3>1. 0 \in Ends /\ \A d \in Ends : d = 0
        BY <1>1, <2>1 DEF Ends
      <3> QED
        BY <2>1, <3>1
    <2>2. CASE S # {}
      <3>1. S \in SUBSET (1..Len(file))
        OBVIOUS
      <3>2. PICK m \in S : \A k \in S : k <= m
        <4> HIDE DEF S
        <4> QED
          BY <1>1, <2>2, <3>1, LastExists
      <3>3. m \in Ends
        BY <1>1, <3>2 DEF Ends
      <3>4. \A d \in Ends : d <= m
        BY <1>1, <3>2 DEF Ends
      <3> QED
        BY <3>2, <3>3, <3>4
    <2> QED
      BY <2>1, <2>2
  <1>3. LastEnd \in Ends /\ \A d \in Ends : d <= LastEnd
    BY <1>2 DEF LastEnd
  <1>4. Ends \subseteq 0..Len(file)
    BY DEF Ends
  <1>5. NoBarrierAfter(file, LastEnd)
    BY <1>1, <1>2, <1>3, <1>4 DEF NoBarrierAfter
  <1> QED
    BY <1>1, <1>3, <1>4, <1>5 DEF LastEndFacts

LEMMA LastEndNext ==
  ASSUME LogOK'
  PROVE  /\ LastEnd' \in Ends' /\ \A d \in Ends' : d <= LastEnd'
         /\ Ends' \subseteq 0..Len(file') /\ Len(file') \in Nat /\ synced' \in 0..Len(file')
         /\ NoBarrierAfter(file', LastEnd')
  <1>1. LastEndFacts'
    BY LastEndIs, PTL
  <1> QED
    BY <1>1 DEF LastEndFacts

(* Frames that are no barriers come to the end of the log.                 *)
LEMMA EndsStay ==
  ASSUME LogOK, LogOK', Begins(file, file'), NoBarrierAfter(file', Len(file)), synced' = synced
  PROVE  Outcomes' = Outcomes /\ LastSaved' = LastSaved
  <1>1. /\ LastEnd \in Ends /\ \A d \in Ends : d <= LastEnd
        /\ Ends \subseteq 0..Len(file) /\ Len(file) \in Nat /\ synced \in 0..Len(file)
    BY LastEndIs DEF LastEndFacts
  <1>2. /\ LastEnd' \in Ends' /\ \A d \in Ends' : d <= LastEnd'
        /\ Ends' \subseteq 0..Len(file') /\ Len(file') \in Nat
    BY LastEndNext
  <1>3. Len(file) <= Len(file') /\ \A i \in 1..Len(file) : file'[i] = file[i]
    BY DEF Begins
  <1>4. Ends' = Ends
    <2>1. ASSUME NEW c \in Ends'  PROVE c \in Ends
      <3>1. /\ c \in 0..Len(file') /\ (c > 0 => file'[c].kind = "Commit")
            /\ \A i \in (c + 1)..synced : file'[i].kind # "Commit"
        BY <2>1 DEF Ends
      <3>2. c \in 0..Len(file)
        BY <1>1, <1>2, <1>3, <3>1 DEF NoBarrierAfter
      <3>3. c > 0 => file[c].kind = "Commit"
        BY <1>1, <1>3, <3>1, <3>2
      <3>4. \A i \in (c + 1)..synced : i \in 1..Len(file)
        BY <1>1, <3>2
      <3>5. \A i \in (c + 1)..synced : file[i].kind # "Commit"
        BY <1>3, <3>1, <3>4
      <3> QED  BY <3>2, <3>3, <3>5 DEF Ends
    <2>2. ASSUME NEW c \in Ends  PROVE c \in Ends'
      <3>1. /\ c \in 0..Len(file) /\ (c > 0 => file[c].kind = "Commit")
            /\ \A i \in (c + 1)..synced : file[i].kind # "Commit"
        BY <2>2 DEF Ends
      <3>2. c \in 0..Len(file') /\ (c > 0 => file'[c].kind = "Commit")
        BY <1>1, <1>2, <1>3, <3>1
      <3>3. \A i \in (c + 1)..synced : i \in 1..Len(file)
        BY <1>1, <3>1
      <3>4. \A i \in (c + 1)..synced : file'[i].kind # "Commit"
        BY <1>3, <3>1, <3>3
      <3> QED  BY <3>2, <3>4 DEF Ends
    <2> QED
      BY <2>1, <2>2
  <1>5. LastEnd' = LastEnd
    BY <1>1, <1>2, <1>4
  <1>6. \A c \in Ends : ViewAt(file', c) = ViewAt(file, c)
    BY <1>1, <1>3, SameView
  <1> QED
    BY <1>1, <1>4, <1>5, <1>6 DEF Outcomes, LastSaved

(* The log is cut, not before its last barrier.                            *)
LEMMA EndsCut ==
  ASSUME LogOK, LogOK', Begins(file', file), BarriersStay(file, file'),
         synced' \in {synced, Len(file')}
  PROVE  /\ Outcomes' \subseteq Outcomes
         /\ LastSaved' = LastSaved /\ LastSaved \in Outcomes'
  <1>1. /\ LastEnd \in Ends /\ \A d \in Ends : d <= LastEnd
        /\ Ends \subseteq 0..Len(file) /\ Len(file) \in Nat /\ synced \in 0..Len(file)
        /\ NoBarrierAfter(file, LastEnd)
    BY LastEndIs DEF LastEndFacts
  <1>2. /\ LastEnd' \in Ends' /\ \A d \in Ends' : d <= LastEnd'
        /\ Ends' \subseteq 0..Len(file') /\ Len(file') \in Nat /\ synced' \in 0..Len(file')
    BY LastEndNext
  <1>3. Len(file') <= Len(file) /\ \A i \in 1..Len(file') : file[i] = file'[i]
    BY DEF Begins
  <1>4. \A i \in 1..Len(file) : file[i].kind = "Commit" => i <= Len(file')
    BY <1>1, <1>3 DEF BarriersStay
  <1>5. \A c \in Ends' : c \in Ends
    <2> SUFFICES ASSUME NEW c \in Ends'  PROVE c \in Ends
      OBVIOUS
    <2>1. /\ c \in 0..Len(file') /\ (c > 0 => file'[c].kind = "Commit")
          /\ \A i \in (c + 1)..synced' : file'[i].kind # "Commit"
      BY DEF Ends
    <2>2. c \in 0..Len(file) /\ (c > 0 => file[c].kind = "Commit")
      BY <1>1, <1>2, <1>3, <2>1
    <2>3. \A i \in (c + 1)..synced : file[i].kind # "Commit"
      <3> SUFFICES ASSUME NEW i \in (c + 1)..synced, file[i].kind = "Commit"  PROVE FALSE
        OBVIOUS
      <3>1. i \in 1..Len(file) /\ i \in Int
        BY <1>1, <2>1
      <3>2. i \in 1..Len(file') /\ i \in (c + 1)..synced'
        BY <1>2, <1>4, <2>1, <3>1
      <3> QED  BY <1>3, <2>1, <3>2
    <2> QED  BY <2>2, <2>3 DEF Ends
  <1>6. LastEnd \in Ends'
    BY <1>1, <1>2, <1>3, <1>4 DEF Ends, NoBarrierAfter
  <1>7. LastEnd' = LastEnd
    BY <1>1, <1>2, <1>5, <1>6
  <1>8. \A c \in Ends' : ViewAt(file', c) = ViewAt(file, c)
    BY <1>2, <1>3, SameView
  <1> QED
    BY <1>5, <1>6, <1>7, <1>8 DEF Outcomes, LastSaved

LEMMA TornKind == W!TornFrame.kind = "Torn"
  BY DEF W!TornFrame

LEMMA AppendEnds ==
  ASSUME LogOK, (\E p \in Records : W!AppendRecord(p)) \/ W!AppendFail
  PROVE  Outcomes' = Outcomes /\ LastSaved' = LastSaved
  <1>1. LogTyped
    BY LogTypes
  <1>2. ASSUME NEW p \in Records, W!AppendRecord(p)
        PROVE  /\ LogOK' /\ Begins(file, file') /\ synced' = synced
               /\ NoBarrierAfter(file', Len(file))
    <2>1. /\ LogOK' /\ Begins(file, file') /\ Len(file') = Len(file) + 1
          /\ file'[Len(file) + 1] = [kind |-> "Record", seq |-> next_seq, rec |-> p]
      BY <1>2, AppendFacts
    <2>2. synced' = synced
      BY <1>2 DEF W!AppendRecord
    <2>3. [kind |-> "Record", seq |-> next_seq, rec |-> p].kind = "Record"
      OBVIOUS
    <2> QED
      BY <1>1, <2>1, <2>2, <2>3 DEF NoBarrierAfter, LogTyped
  <1>3. CASE W!AppendFail
    <2>1. LogOK' /\ Begins(file, file')
      BY <1>3, FailFacts
    <2>2. synced' = synced /\ (file' = file \/ file' = Append(file, W!TornFrame))
      BY <1>3 DEF W!AppendFail, W!PartlyWritten
    <2>3. NoBarrierAfter(file', Len(file))
      BY <1>1, <2>2, TornKind DEF NoBarrierAfter, LogTyped
    <2> QED
      BY <2>1, <2>2, <2>3, EndsStay
  <1> QED
    BY <1>2, <1>3, EndsStay

(* After its barrier the log can end only there.                           *)
LEMMA CommitEnds ==
  ASSUME LogOK, W!Commit
  PROVE  LastSaved' = ViewAt(file', Len(file')) /\ Outcomes' = {ViewAt(file', Len(file'))}
  <1>1. LogOK' /\ file'[Len(file')].kind = "Commit" /\ Len(file') = Len(file) + 1
    BY CommitFacts
  <1>2. synced' = Len(file') /\ Len(file) \in Nat
    BY LogTypes DEF W!Commit, W!SyncedByCommit, LogTyped
  <1>3. LastEnd' \in Ends' /\ Ends' \subseteq 0..Len(file') /\ Len(file') \in Nat
    BY <1>1, LastEndNext
  <1>4. \A c \in Ends' : c = Len(file')
    BY <1>1, <1>2, <1>3 DEF Ends
  <1> QED
    BY <1>3, <1>4 DEF Outcomes, LastSaved

(* A barrier that failed may be one to end at, or not.                     *)
LEMMA CommitFailEnds ==
  ASSUME LogOK, W!CommitFail
  PROVE  \/ Outcomes' = Outcomes
         \/ Outcomes' = Outcomes \cup {ViewAt(file', Len(file'))}
  <1>1. LogTyped
    BY LogTypes
  <1>2. LogOK' /\ Begins(file, file') /\ up /\ ~fenced
    BY FailFacts
  <1>3. synced' = synced
    BY DEF W!CommitFail
  <1>4. CASE file' = file \/ file' = Append(file, W!TornFrame)
    <2>1. NoBarrierAfter(file', Len(file))
      BY <1>1, <1>4, TornKind DEF NoBarrierAfter, LogTyped
    <2> QED
      BY <1>2, <1>3, <2>1, EndsStay
  <1>5. CASE file' = W!Written(W!CommitFrame(next_seq))
    <2>1. /\ Len(file') = Len(file) + 1 /\ file'[Len(file')].kind = "Commit"
          /\ \A i \in 1..Len(file) : file'[i] = file[i]
      <3> DEFINE fr == W!CommitFrame(next_seq)
      <3>1. fr.kind = "Commit"
        BY DEF W!CommitFrame
      <3>2. ~past_end
        BY <1>2 DEF LogOK, L!IInv, L!Usable
      <3>3. file' = file \o <<>> \o <<fr>>
        BY <1>5, <3>2 DEF W!Written
      <3>4. fr \in L!Frame
        <4>1. fr = L!CommitFrame(next_seq)
          BY DEF W!CommitFrame, L!CommitFrame
        <4> QED
          BY <1>1, <4>1, LogAssumption, L!FrameTypes DEF LogTyped
      <3> HIDE DEF fr
      <3>5. file \in Seq(L!Frame) /\ <<fr>> \in Seq(L!Frame) /\ file \o <<>> = file
        BY <1>1, <3>4 DEF LogTyped
      <3> QED
        BY <1>1, <3>1, <3>3, <3>5 DEF LogTyped
    <2>2. Ends \subseteq 0..Len(file) /\ Len(file) \in Nat /\ synced \in 0..Len(file)
      BY LastEndIs DEF LastEndFacts
    <2>3. Ends' = Ends \cup {Len(file')}
      <3>1. Len(file') \in Ends'
        BY <1>3, <2>1, <2>2 DEF Ends
      <3>2. \A c \in Ends : c \in Ends'
        BY <1>3, <2>1, <2>2 DEF Ends
      <3>3. \A c \in Ends' : c \in Ends \/ c = Len(file')
        BY <1>3, <2>1, <2>2 DEF Ends
      <3> QED
        BY <3>1, <3>2, <3>3
    <2>4. \A c \in Ends : ViewAt(file', c) = ViewAt(file, c)
      BY <2>1, <2>2, SameView
    <2> QED
      BY <2>3, <2>4 DEF Outcomes
  <1> QED
    BY <1>4, <1>5 DEF W!CommitFail, W!PartlyWritten

LEMMA OpenEnds ==
  ASSUME LogOK, W!Open
  PROVE  /\ Outcomes' \subseteq Outcomes /\ LastSaved \in Outcomes'
         /\ LastSaved' = LastSaved /\ LastSaved' = ViewAt(file', Len(file'))
  <1>1. LogOK' /\ Begins(file', file) /\ BarriersStay(file, file') /\ EndsInBarrier(file')
    BY OpenFacts
  <1>2. synced' \in {synced, Len(file')}
    <2>1. PICK n \in 0..Len(file), c \in 0..Len(file) :
              /\ L!Scanned(file, n) /\ L!LastBarrier(file, n, c) /\ file' = SubSeq(file, 1, c)
              /\ synced' = (IF c < Len(file) THEN c ELSE synced)
      BY SameLooks DEF W!Open, W!SurvivePoint, W!SyncedByOpen
    <2> QED
      BY <2>1, CutFacts
  <1>3. /\ Outcomes' \subseteq Outcomes /\ LastSaved \in Outcomes' /\ LastSaved' = LastSaved
    BY <1>1, <1>2, EndsCut
  <1>4. LastEnd' = Len(file')
    <2>1. LastEnd' \in 0..Len(file') /\ Len(file') \in Nat /\ NoBarrierAfter(file', LastEnd')
      BY <1>1, LastEndNext
    <2> QED
      BY <1>1, <2>1 DEF EndsInBarrier, NoBarrierAfter
  <1> QED
    BY <1>3, <1>4 DEF LastSaved

LEMMA OpenFailEnds ==
  ASSUME LogOK, W!OpenFailEffect, fenced' = up
  PROVE  Outcomes' \subseteq Outcomes /\ Outcomes' # {}
  <1>1. LogOK' /\ Begins(file', file) /\ BarriersStay(file, file')
    BY OpenFailFacts
  <1>2. synced' \in {synced, Len(file')}
    <2>1. CASE synced' = synced
      BY <2>1
    <2>2. ASSUME NEW n \in 0..Len(file), NEW c \in 0..Len(file),
                 W!Scanned(file, n), W!LastBarrier(file, n, c), file' = SubSeq(file, 1, c),
                 synced' = (IF synced < c THEN synced ELSE c)
          PROVE  synced' \in {synced, Len(file')}
      BY <2>2, SameLooks, CutFacts
    <2> QED
      BY <2>1, <2>2 DEF W!OpenFailEffect
  <1> QED
    BY <1>1, <1>2, EndsCut

LEMMA RefusedEnds ==
  ASSUME LogOK, pc = "down", FlagsOK, OpenRefused
  PROVE  Outcomes' \subseteq Outcomes /\ Outcomes' # {}
  <1>1. ~up /\ UNCHANGED <<up, next_seq, committed_seq, past_end, fenced, acked>>
    BY DEF FlagsOK, OpenRefused
  <1>2. PICK n \in 0..Len(file), c \in 0..Len(file) :
            /\ Found(file, n, c) /\ file' = SubSeq(file, 1, W!SurvivePoint(n, c))
            /\ synced' = W!SyncedByOpen(W!SurvivePoint(n, c))
    BY DEF OpenRefused
  <1>3. LogOK' /\ Begins(file', file) /\ BarriersStay(file, file')
    BY <1>1, <1>2, RefusedFacts
  <1>4. synced' \in {synced, Len(file')}
    <2>1. /\ L!Scanned(file, n) /\ L!LastBarrier(file, n, c) /\ file' = SubSeq(file, 1, c)
          /\ synced' = (IF c < Len(file) THEN c ELSE synced)
      BY <1>2, SameLooks DEF Found, W!SurvivePoint, W!SyncedByOpen
    <2> QED
      BY <2>1, CutFacts
  <1> QED
    BY <1>3, <1>4, EndsCut

LEMMA ExitEnds ==
  ASSUME LogOK, W!ProcessExit
  PROVE  Outcomes' = Outcomes /\ Outcomes # {}
  <1>1. LogOK' /\ file' = file /\ synced' = synced
    BY ExitFacts DEF W!ProcessExit
  <1>2. Ends' = Ends
    BY <1>1 DEF Ends
  <1>3. LastEnd \in Ends
    BY LastEndIs DEF LastEndFacts
  <1> QED
    BY <1>1, <1>2, <1>3 DEF Outcomes

LEMMA PowerEnds ==
  ASSUME LogOK, W!PowerLoss
  PROVE  Outcomes' \subseteq Outcomes /\ Outcomes' # {}
  <1>1. LogOK' /\ LogTyped
    BY PowerFacts, LogTypes
  <1>2. LastEnd' \in Ends' /\ Ends' \subseteq 0..Len(file') /\ Len(file') \in Nat
    BY <1>1, LastEndNext
  <1>3. PICK k \in synced..Len(file) :
            file' = SubSeq(file, 1, k) \/ file' = Append(SubSeq(file, 1, k), W!TornFrame)
    <2>1. file' \in W!CrashImages /\ Len(file) \in Nat /\ synced \in 0..Len(file)
      BY <1>1 DEF W!PowerLoss, LogTyped
    <2>2. \A k \in synced..(Len(file) - 1) : k \in synced..Len(file)
      BY <2>1
    <2>3. CASE \E k \in synced..Len(file) : file' = SubSeq(file, 1, k)
      BY <2>3
    <2>4. CASE \E k \in synced..(Len(file) - 1) : file' = Append(SubSeq(file, 1, k), W!TornFrame)
      BY <2>2, <2>4
    <2> QED
      BY <2>1, <2>3, <2>4 DEF W!CrashImages
  <1>4. /\ k \in 0..Len(file) /\ Len(SubSeq(file, 1, k)) = k
        /\ \A i \in 1..k : SubSeq(file, 1, k)[i] = file[i]
    BY <1>1 DEF LogTyped
  <1>5. /\ k <= Len(file') /\ Len(file') <= k + 1
        /\ \A i \in 1..k : file'[i] = file[i]
        /\ NoBarrierAfter(file', k)
    <2>1. SubSeq(file, 1, k) \in Seq(L!Frame)
      BY <1>1, <1>4 DEF LogTyped
    <2> HIDE DEF NoBarrierAfter
    <2>2. CASE file' = SubSeq(file, 1, k)
      BY <1>4, <2>2 DEF NoBarrierAfter
    <2>3. CASE file' = Append(SubSeq(file, 1, k), W!TornFrame)
      BY <1>4, <2>1, <2>3, TornKind DEF NoBarrierAfter
    <2> QED
      BY <1>3, <2>2, <2>3
  <1>6. synced' = Len(file') /\ synced \in Nat /\ synced <= k
    BY <1>1, <1>4 DEF W!PowerLoss, LogTyped
  <1>7. ASSUME NEW c \in Ends'
        PROVE  c \in Ends /\ ViewAt(file', c) = ViewAt(file, c)
    <2>1. c \in 0..k
      BY <1>2, <1>4, <1>5 DEF Ends, NoBarrierAfter
    <2>2. c \in Ends
      BY <1>1, <1>2, <1>4, <1>5, <1>6, <2>1 DEF Ends, LogTyped
    <2> QED
      BY <1>4, <1>5, <2>1, <2>2, SameView
  <1> QED
    BY <1>2, <1>7 DEF Outcomes

-----------------------------------------------------------------------------
(* The steps of Collection, in the terms of the store.                     *)

Refined == Promise!Next \/ UNCHANGED Promise!vars

Showing == Contents(Merged(seg, l0))

LEMMA AsCrash ==
  ASSUME ~InUse', Outcomes' # {}, Outcomes' \subseteq Outcomes
  PROVE  Refined
  BY DEF Refined, Promise!Next, Promise!Crash, Promise!Gone, Outcomes

LEMMA AsStutter ==
  ASSUME InUse' <=> InUse, fenced' = fenced, Outcomes' = Outcomes, LastSaved' = LastSaved,
         Showing' = Showing
  PROVE  Refined
  BY DEF Refined, Promise!vars, Outcomes, LastSaved, Showing

LEMMA AsPut ==
  ASSUME InUse, InUse', ~fenced, ~fenced', Outcomes' = Outcomes, LastSaved' = LastSaved,
         NEW r \in Record, Showing' = {x \in Showing : x.id # r.id} \cup {r}
  PROVE  Refined
  BY DEF Refined, Promise!Next, Promise!Put, Promise!Without, Outcomes, LastSaved, Showing

LEMMA AsRemove ==
  ASSUME InUse, InUse', ~fenced, ~fenced', Outcomes' = Outcomes, LastSaved' = LastSaved,
         NEW id \in Ids, Showing' = {x \in Showing : x.id # id}, Showing' # Showing
  PROVE  Refined
  BY DEF Refined, Promise!Next, Promise!Remove, Promise!Without, Outcomes, LastSaved, Showing

LEMMA AsSave ==
  ASSUME InUse, InUse', ~fenced, ~fenced', Outcomes' = {Showing}, LastSaved' = Showing,
         Showing' = Showing
  PROVE  Refined
  BY DEF Refined, Promise!Next, Promise!Save, Outcomes, LastSaved, Showing

LEMMA AsFailWrite ==
  ASSUME InUse, InUse', ~fenced, fenced', Outcomes' = Outcomes, LastSaved' = LastSaved,
         Showing' = Showing
  PROVE  Refined
  BY DEF Refined, Promise!Next, Promise!FailWrite, Outcomes, LastSaved, Showing

LEMMA AsFailSave ==
  ASSUME InUse, ~InUse', ~fenced, Outcomes' = Outcomes \cup {Showing}
  PROVE  Refined
  BY DEF Refined, Promise!Next, Promise!FailSave, Promise!Gone, Outcomes, Showing

LEMMA AsRollback ==
  ASSUME InUse, InUse', ~fenced', Outcomes' \subseteq Outcomes, LastSaved \in Outcomes',
         LastSaved' = LastSaved, Showing' = LastSaved
  PROVE  Refined
  BY DEF Refined, Promise!Next, Promise!Rollback, Outcomes, LastSaved, Showing

LEMMA AsOpen ==
  ASSUME ~InUse, InUse', ~fenced', Outcomes' \subseteq Outcomes,
         Showing' \in Outcomes', LastSaved' = Showing'
  PROVE  Refined
  BY DEF Refined, Promise!Next, Promise!Open, Outcomes, LastSaved, Showing

-----------------------------------------------------------------------------
(* The steps of the store.                                                 *)

LEMMA ShowingNow == IInv /\ View /\ InUse => Showing = ViewAt(file, Len(file))
  BY ViewNow DEF Showing, ViewAt

LEMMA ShowingNext ==
  ASSUME IInv', View', InUse'
  PROVE  Showing' = ViewAt(file', Len(file'))
  <1>1. (IInv /\ View /\ InUse => Showing = ViewAt(file, Len(file)))'
    BY ShowingNow, PTL
  <1> QED
    BY <1>1

LEMMA QuietRefines ==
  ASSUME UNCHANGED <<log, seg, l0>>, InUse' <=> InUse
  PROVE  Refined
  <1>1. file' = file /\ synced' = synced /\ fenced' = fenced /\ seg' = seg /\ l0' = l0
    BY DEF log
  <1>2. Ends' = Ends
    BY <1>1 DEF Ends
  <1>3. LastEnd' = LastEnd
    BY <1>2 DEF LastEnd
  <1>4. Outcomes' = Outcomes /\ LastSaved' = LastSaved /\ Showing' = Showing
    BY <1>1, <1>2, <1>3 DEF Outcomes, LastSaved, Showing
  <1> QED
    BY <1>1, <1>4, AsStutter

LEMMA SwapRefines ==
  ASSUME IInv, View, IInv', View', Swap
  PROVE  Refined
  <1>1. /\ file' = file /\ synced' = synced /\ fenced' = fenced
        /\ InUse /\ InUse'
    BY DEF Swap, log, mode, View, SealsAtBarrier, InUse
  <1>2. Ends' = Ends
    BY <1>1 DEF Ends
  <1>3. LastEnd' = LastEnd
    BY <1>2 DEF LastEnd
  <1>4. Outcomes' = Outcomes /\ LastSaved' = LastSaved
    BY <1>1, <1>2, <1>3 DEF Outcomes, LastSaved
  <1>5. Showing' = Showing
    BY <1>1, ShowingNow, ShowingNext
  <1> QED
    BY <1>1, <1>4, <1>5, AsStutter

LEMMA OpenRefines ==
  ASSUME IInv, IInv', View', Open
  PROVE  Refined
  <1>1. LogOK /\ ~InUse /\ W!Open
    BY DEF IInv, Open, InUse
  <1>2. pc' # "down" /\ ~fenced' /\ InUse'
    BY <1>1, OpenFacts DEF Open, InUse
  <1>3. /\ Outcomes' \subseteq Outcomes /\ LastSaved \in Outcomes' /\ LastSaved' = LastSaved
        /\ LastSaved' = ViewAt(file', Len(file'))
    BY <1>1, OpenEnds
  <1>4. Showing' = LastSaved'
    BY <1>2, <1>3, ShowingNext
  <1> QED
    BY <1>1, <1>2, <1>3, <1>4, AsOpen

LEMMA GoneRefines ==
  ASSUME IInv, OpenFail \/ OpenRefused \/ RebuildFail \/ Exit \/ PowerLoss
  PROVE  Refined
  <1>1. LogOK /\ FlagsOK
    BY DEF IInv
  <1>2. ~InUse'
    BY DEF OpenFail, OpenRefused, RebuildFail, Exit, PowerLoss, NoStore, InUse
  <1>3. CASE OpenFail
    BY <1>1, <1>2, <1>3, OpenFailEnds, AsCrash DEF OpenFail, W!OpenFail
  <1>4. CASE OpenRefused
    <2>1. pc = "down"
      BY <1>4 DEF OpenRefused
    <2> QED
      BY <1>1, <1>2, <1>4, <2>1, RefusedEnds, AsCrash
  <1>5. CASE RebuildFail \/ Exit
    BY <1>1, <1>2, <1>5, ExitEnds, AsCrash DEF RebuildFail, Exit
  <1>6. CASE PowerLoss
    BY <1>1, <1>2, <1>6, PowerEnds, AsCrash DEF PowerLoss
  <1> QED
    BY <1>3, <1>4, <1>5, <1>6

(* A failed write leaves a transaction that can only roll back, or, where  *)
(* there is none, a store that its client lets go.                         *)
LEMMA FailedWriteRefines ==
  ASSUME IInv, Idle, W!AppendFail, UNCHANGED <<seg, l0, mode, pc>>
  PROVE  Refined
  <1>1. LogOK /\ FlagsOK /\ InUse /\ ~fenced
    BY DEF IInv, Idle, InUse
  <1>2. fenced' /\ pc' = "idle" /\ in_tx' = in_tx
    BY <1>1, FailFacts DEF Idle, mode
  <1>3. Outcomes' = Outcomes /\ LastSaved' = LastSaved
    BY <1>1, AppendEnds
  <1>4. Showing' = Showing
    BY DEF Showing
  <1>5. CASE in_tx
    BY <1>1, <1>2, <1>3, <1>4, <1>5, AsFailWrite DEF InUse
  <1>6. CASE ~in_tx
    <2>1. Outcomes # {}
      BY <1>1, LastEndIs DEF LastEndFacts, Outcomes
    <2>2. ~InUse'
      BY <1>2, <1>6 DEF InUse
    <2> QED
      BY <1>3, <2>1, <2>2, AsCrash
  <1> QED
    BY <1>5, <1>6

(* What a record applied to L0 does to the view. *)
LEMMA AppliedShows ==
  ASSUME IInv, IInv', NEW r \in Records, l0' = Applied(l0, next_seq, r), seg' = seg
  PROVE  Showing' = {x \in Showing : x.id # r.id} \cup (IF r.life = "live" THEN {r} ELSE {})
  <1>1. Merged(seg, l0) = {e \in seg : ~Shadowed(e)} \cup Live(l0)
    BY MergedIs DEF IInv
  <1>2. Merged(seg', l0') = {e \in seg' : ~(\E o \in l0' : o.rec.id = e.rec.id)} \cup Live(l0')
    <2>1. (TiersOK => Merged(seg, l0) = {e \in seg : ~Shadowed(e)} \cup Live(l0))'
      BY MergedIs, PTL
    <2> QED
      BY <2>1 DEF IInv, Shadowed
  <1> DEFINE n == [seq |-> next_seq, rec |-> r]
  <1>3. n.rec = r
    OBVIOUS
  <1>4. l0' = {e \in l0 : e.rec.id # r.id} \cup {n}
    BY DEF Applied
  <1> HIDE DEF n
  <1>5. \A e \in seg : (\E o \in l0' : o.rec.id = e.rec.id) <=> Shadowed(e) \/ e.rec.id = r.id
    BY <1>3, <1>4 DEF Shadowed
  <1>6. \A e : e \in Live(l0') <=>
                 (e \in Live(l0) /\ e.rec.id # r.id) \/ (e = n /\ r.life = "live")
    BY <1>3, <1>4 DEF Live
  <1>7. \A e : e \in Merged(seg', l0') <=>
                 (e \in Merged(seg, l0) /\ e.rec.id # r.id) \/ (e = n /\ r.life = "live")
    BY <1>1, <1>2, <1>5, <1>6
  <1>8. Contents(Merged(seg', l0')) = {x \in Contents(Merged(seg, l0)) : x.id # r.id}
                                      \cup (IF r.life = "live" THEN {r} ELSE {})
    BY <1>3, <1>7 DEF Contents
  <1> QED
    BY <1>8 DEF Showing

LEMMA WriteRefines ==
  ASSUME IInv, IInv', Idle, NEW r \in Records, AppendRec(r), UNCHANGED <<seg, mode>>,
         r.life = "live" => r \in Record,
         r.life # "live" => r.id \in Ids /\ IsLive(r.id)
  PROVE  Refined
  <1>1. LogOK /\ InUse /\ ~fenced
    BY DEF IInv, Idle, InUse
  <1>2. CASE W!AppendFail /\ UNCHANGED <<l0, pc>>
    BY <1>2, FailedWriteRefines
  <1>3. CASE W!AppendRecord(r) /\ l0' = Applied(l0, next_seq, r) /\ pc' = AfterMutation
    <2>1. ~fenced' /\ InUse'
      BY <1>1, <1>3, AppendFacts DEF AfterMutation, InUse
    <2>2. Outcomes' = Outcomes /\ LastSaved' = LastSaved
      BY <1>1, <1>3, AppendEnds
    <2>3. Showing' = {x \in Showing : x.id # r.id} \cup (IF r.life = "live" THEN {r} ELSE {})
      BY <1>3, AppliedShows
    <2>4. CASE r.life = "live"
      BY <1>1, <2>1, <2>2, <2>3, <2>4, AsPut
    <2>5. CASE r.life # "live"
      <3>1. \E x \in Showing : x.id = r.id
        <4>1. Merged(seg, l0) = {e \in seg : ~Shadowed(e)} \cup Live(l0)
          BY MergedIs DEF IInv
        <4>2. \E e \in Merged(seg, l0) : e.rec.id = r.id
          BY <2>5, <4>1 DEF IsLive, Shadowed
        <4> QED
          BY <4>2 DEF Showing, Contents
      <3>2. Showing' = {x \in Showing : x.id # r.id}
        BY <2>3, <2>5
      <3>3. Showing' # Showing
        BY <3>1, <3>2
      <3> QED
        BY <1>1, <2>1, <2>2, <2>5, <3>2, <3>3, AsRemove
    <2> QED
      BY <2>4, <2>5
  <1> QED
    BY <1>2, <1>3 DEF AppendRec

LEMMA MutationRefines ==
  ASSUME IInv, IInv',
         \/ \E id \in Ids, d \in Dims, v \in Vals : Upsert(id, d, v)
         \/ \E id \in Ids : Delete(id)
  PROVE  Refined
  <1>1. ASSUME NEW id \in Ids, NEW d \in Dims, NEW v \in Vals, Upsert(id, d, v)
        PROVE  Refined
    <2> DEFINE r == LiveRecord(id, d, v)
    <2>1. r \in Record /\ r \in Records /\ r.life = "live"
      BY DEF LiveRecord, Records, Record
    <2>2. /\ AppendRec(r) /\ Idle /\ UNCHANGED <<seg, mode>>
      BY <1>1 DEF Upsert, LiveRecord
    <2> HIDE DEF r
    <2> QED
      BY <2>1, <2>2, WriteRefines
  <1>2. ASSUME NEW id \in Ids, Delete(id)
        PROVE  Refined
    <2> DEFINE r == Gravestone(id)
    <2>1. dim \in Dims
      <3>1. seg # {} \/ l0 # {}
        BY <1>2 DEF Delete, IsLive
      <3> QED
        BY <3>1 DEF IInv, TiersOK, ScalarsOK
    <2>2. r \in Records /\ r.life = "tombstone" /\ r.id = id
      BY <2>1 DEF Gravestone, Records, Tombstone
    <2>3. /\ AppendRec(r) /\ Idle /\ UNCHANGED <<seg, mode>> /\ IsLive(id)
      BY <1>2 DEF Delete, Gravestone
    <2> HIDE DEF r
    <2> QED
      BY <2>2, <2>3, WriteRefines
  <1> QED
    BY <1>1, <1>2

(* A barrier saves what the store shows; one that failed may have, and     *)
(* leaves a store that its client lets go.                                 *)
LEMMA CommitRefines ==
  ASSUME IInv, View, IInv', View',
         Autocommit \/ Commit \/ CommitTx \/ Checkpoint, in_tx' = FALSE
  PROVE  Refined
  <1>1. LogOK /\ LogOK' /\ FlagsOK
    BY DEF IInv
  <1>2. CommitLog /\ UNCHANGED <<seg, l0>> /\ pc # "down" /\ pc' # "down"
    BY DEF Autocommit, Commit, CommitTx, Checkpoint, CommitLog, Idle, tiers
  <1>3. Showing' = Showing
    BY <1>2 DEF Showing
  <1>4. CASE W!Commit
    <2>1. ~fenced /\ ~fenced' /\ InUse /\ InUse'
      BY <1>1, <1>2, <1>4, CommitFacts DEF InUse
    <2>2. Showing' = ViewAt(file', Len(file'))
      BY <2>1, ShowingNext
    <2>3. LastSaved' = ViewAt(file', Len(file')) /\ Outcomes' = {ViewAt(file', Len(file'))}
      BY <1>1, <1>4, CommitEnds
    <2> QED
      BY <1>3, <2>1, <2>2, <2>3, AsSave
  <1>5. CASE W!CommitFail
    <2>1. /\ ~fenced /\ fenced' /\ Begins(file, file') /\ NoRecordAfter(file, file')
      BY <1>1, <1>5, FailFacts
    <2>2. InUse /\ ~InUse'
      BY <1>2, <2>1 DEF InUse
    <2>3. Len(file) \in Nat /\ Len(file') \in Nat
      BY <1>1, LastEndIs, LastEndNext DEF LastEndFacts
    <2>4. ViewAt(file', Len(file')) = Showing
      <3>1. Replay(file', Len(file'), 0) = Replay(file, Len(file), 0)
        BY <2>1, <2>3, ReplaySame
      <3> QED
        BY <2>2, <3>1, ShowingNow DEF ViewAt
    <2>5. CASE Outcomes' = Outcomes
      <3>1. Outcomes # {}
        BY <1>1, LastEndIs DEF LastEndFacts, Outcomes
      <3> QED
        BY <2>2, <2>5, <3>1, AsCrash
    <2>6. CASE Outcomes' = Outcomes \cup {ViewAt(file', Len(file'))}
      BY <2>1, <2>2, <2>4, <2>6, AsFailSave
    <2> QED
      BY <1>1, <1>5, <2>5, <2>6, CommitFailEnds
  <1> QED
    BY <1>2, <1>4, <1>5 DEF CommitLog

(* A rollback returns to the last barrier.  Under this use no guard is     *)
(* alive when it is called, or it ends one.                                *)
LEMMA RollbackRefines ==
  ASSUME IInv, View, IInv', View', "use_after_drop" \notin Verbs,
         Rollback \/ DropTx, InUse, in_tx' = FALSE
  PROVE  Refined
  <1>1. LogOK /\ FlagsOK
    BY DEF IInv
  <1>2. up = TRUE /\ pc' = "idle"
    BY <1>1 DEF Rollback, DropTx, InUse, LogOK, L!IInv, L!TypeOK, FlagsOK
  <1>3. CASE W!Open
    <2>1. ~fenced' /\ InUse'
      BY <1>1, <1>2, <1>3, OpenFacts DEF InUse
    <2>2. /\ Outcomes' \subseteq Outcomes /\ LastSaved \in Outcomes' /\ LastSaved' = LastSaved
          /\ LastSaved' = ViewAt(file', Len(file'))
      BY <1>1, <1>3, OpenEnds
    <2>3. Showing' = LastSaved
      BY <2>1, <2>2, ShowingNext
    <2> QED
      BY <1>2, <2>1, <2>2, <2>3, AsRollback
  <1>4. CASE ~W!Open
    <2>1. W!OpenFailEffect /\ fenced' /\ fenced' = up
      BY <1>2, <1>4 DEF Rollback, DropTx, W!OpenFail
    <2>2. ~InUse'
      BY <1>2, <2>1 DEF InUse
    <2> QED
      BY <1>1, <2>1, <2>2, OpenFailEnds, AsCrash
  <1> QED
    BY <1>3, <1>4

LEMMA StepRefines ==
  ASSUME IInv, View, "use_after_drop" \notin Verbs, LosesNothing
  PROVE  Refined
  <1>1. IInv' /\ View'
    BY LosingIsAStep, NextStep, ViewKept
  <1>2. RebuildPublish \/ RebuildGc \/ Seal \/ Publish \/ GcSegments => Refined
    <2> SUFFICES ASSUME RebuildPublish \/ RebuildGc \/ Seal \/ Publish \/ GcSegments PROVE Refined
      OBVIOUS
    <2>1. /\ UNCHANGED <<log, seg, l0>> /\ fenced' = fenced /\ in_tx' = in_tx
          /\ pc # "down" /\ pc' # "down"
      BY DEF RebuildPublish, RebuildGc, Seal, Publish, GcSegments, log, mode, tiers
    <2> QED
      BY <2>1, QuietRefines DEF InUse
  <1>3. ASSUME (\E m \in Metrics : SetMetric(m)) \/ Transaction \/ LoseManifest \/ UNCHANGED vars
        PROVE  Refined
    <2>1. UNCHANGED <<log, seg, l0>> /\ (InUse' <=> InUse)
      BY <1>3 DEF SetMetric, Transaction, LoseManifest, vars, log, mode, tiers, InUse, Idle
    <2> QED
      BY <2>1, QuietRefines
  <1>4. ASSUME \/ \E id \in Ids, d \in Dims, v \in Vals : Upsert(id, d, v)
               \/ \E id \in Ids : Delete(id)
        PROVE  Refined
    BY <1>1, <1>4, MutationRefines
  <1>5. Open \/ Swap \/ ((Rollback \/ DropTx) /\ InUse /\ in_tx' = FALSE /\ RollbackKeeps)
          => Refined
    BY <1>1, OpenRefines, SwapRefines, RollbackRefines
  <1>6. (Autocommit \/ Commit \/ CommitTx \/ Checkpoint) /\ in_tx' = FALSE => Refined
    BY <1>1, CommitRefines
  <1>7. OpenFail \/ OpenRefused \/ RebuildFail \/ Exit \/ PowerLoss => Refined
    BY GoneRefines
  <1> QED
    BY <1>2, <1>3, <1>4, <1>5, <1>6, <1>7 DEF LosesNothing

(* A new store shows nothing, and nothing is what a crash leaves.          *)
LEMMA InitRefines == Init => Promise!Init
  <1> SUFFICES ASSUME Init PROVE Promise!Init
    OBVIOUS
  <1>1. file = <<>> /\ synced = 0 /\ ~InUse
    BY DEF Init, W!Init, InUse
  <1>2. Ends = {0}
    BY <1>1 DEF Ends
  <1>3. ViewAt(file, 0) = {}
    <2>1. RecordsAbove(file, 0, 0) = {}
      BY DEF RecordsAbove
    <2>2. Replay(file, 0, 0) = {}
      BY <2>1, ReplayIs, LastWritesMember
    <2> QED
      BY <2>2 DEF ViewAt, Live, Contents
  <1> QED
    BY <1>1, <1>2, <1>3 DEF Promise!Init

-----------------------------------------------------------------------------
(* Every behaviour of the store is one of Collection, for any ids, vectors,*)
(* faults and bounds: what was committed survives as a whole, a commit that *)
(* failed shows whole or not at all, and what was rolled back, deleted or  *)
(* replaced never returns.  (upsert, delete, commit, rollback, checkpoint, *)
(* open_with)                                                              *)
THEOREM StoreIsACollection ==
  ASSUME Disciplined
  PROVE  Spec => ImplementsCollection
  <1> DEFINE inv == IInv /\ ViewInv
  <1>1. Init => Promise!Init
    BY InitRefines
  <1>2. inv /\ [Next]_vars => [Promise!Next]_Promise!vars
    BY DisciplinedStep, StepRefines DEF Refined, ViewInv, Disciplined
  <1>3. Spec => []inv
    BY ViewInvariance
  <1> HIDE DEF inv
  <1> QED
    BY <1>1, <1>2, <1>3, PTL DEF Spec, ImplementsCollection, Promise!Spec
=============================================================================
