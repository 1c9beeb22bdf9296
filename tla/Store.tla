-------------------------------- MODULE Store --------------------------------
(***************************************************************************)
(* The store of crates/engine/src/store.rs: the single writer over the     *)
(* write-ahead log (module Wal), the records in RAM since the last         *)
(* checkpoint (l0), the sealed segment, and the manifest that names it     *)
(* (segments.rs).                                                          *)
(*                                                                         *)
(* A call that does several durable things is several steps, so that a     *)
(* crash or an I/O error can come between any two of them: checkpoint is   *)
(* commit, seal, publish, swap, collect; an open that rebuilds is recover, *)
(* publish, collect; a mutation under autocommit is append, commit.  pc    *)
(* names the step that comes next, and the store accepts calls at "idle".  *)
(*                                                                         *)
(* atomic_write and the file system (crate durable-fs, outside this        *)
(* repository) are modelled from their use: a file appears whole or not at *)
(* all, and a file written by a call that returned Ok survives.            *)
(***************************************************************************)
EXTENDS Integers, Sequences, FiniteSets

CONSTANTS
    Ids,            \* external ids
    IntIds,         \* those of kind Int; the others are of kind Str
    Dims,           \* the vector lengths the client tries
    Vals,           \* the contents of a record: vector, text, metadata
    Metrics,        \* the distance metrics
    None,           \* the absent value of an Option
    Modes,          \* subset of {"open", "connect"}: how the client opens
    Verbs,          \* the calls of the API the client makes, besides upsert
                    \* and commit: "delete", "metric", "tx", "rollback",
                    \* "checkpoint"; and the ones it makes although it had
                    \* better not: see the guards that name them
    Faults,         \* the faults that happen: "io", "exit", "power",
                    \* "loss" of a manifest or segment
    MaxFrames,      \* bound: frames in the log
    MaxSeq,         \* bound: the highest seq handed out
    MaxGen          \* bound: the highest generation

ASSUME StoreAssumption ==
    /\ IntIds \subseteq Ids
    /\ Dims \subseteq Nat \ {0}
    /\ None \notin Ids /\ None \notin Vals /\ None \notin Metrics
    /\ Modes \subseteq {"open", "connect"}
    /\ {MaxFrames, MaxSeq, MaxGen} \subseteq Nat

VARIABLES
    \* the log (module Wal)
    file, synced, up, next_seq, committed_seq, past_end, fenced, acked,
    \* the other files
    manifest,       \* the MANIFEST file, or None
    segfiles,       \* the segment files in the directory
    \* the Store value
    dim, id_kind, metric, generation, checkpoint_seq,
    seg,            \* the entries of the open segment reader
    l0,             \* L0::live
    autocommit, in_tx,
    pc,             \* the step the call in progress takes next
    tx_base         \* history: the frames of the log when the live
                    \* transaction began

log == <<file, synced, up, next_seq, committed_seq, past_end, fenced, acked>>
disk == <<manifest, segfiles>>
schema == <<dim, id_kind>>
tiers == <<seg, l0, checkpoint_seq>>
mode == <<autocommit, in_tx, tx_base>>
vars == <<log, disk, schema, metric, generation, tiers, mode, pc>>

(***************************************************************************)
(* Records (records.rs).  A tombstone has a zero vector of the collection  *)
(* dim and no contents.                                                    *)
(***************************************************************************)
Record == [id : Ids, dim : Dims, val : Vals, life : {"live"}]
Tombstone == [id : Ids, dim : Dims, val : {None}, life : {"tombstone"}]
Records == Record \cup Tombstone
Kind(id) == IF id \in IntIds THEN "int" ELSE "str"

ASSUME NoneAssumption == None \notin Records /\ None \notin {"int", "str"}

W == INSTANCE Wal WITH Payload <- Records, NoPayload <- None,
                       RetryCommit <- FALSE

(* A record and the seq it was appended under: a value of L0::live, and a  *)
(* SegmentEntry.                                                           *)
Entry == [seq : Nat \ {0}, rec : Records]

(* The contents of a segment file, and of MANIFEST. *)
Segment == [generation : 1..MaxGen, entries : SUBSET Entry]
Manifest == [generation : 0..MaxGen, checkpoint_seq : Nat, dim : Dims \cup {0},
             id_kind : {"int", "str", None}, metric : Metrics \cup {None},
             segments : SUBSET Segment]

ASSUME ManifestAssumption == None \notin Manifest

AppliedTwice(t, s, r) == t \cup {[seq |-> s, rec |-> r]}    \* mutant: keeps both
AppliedFirst(t, s, r) ==    \* mutant: the first write of an id stays
    IF \E e \in t : e.rec.id = r.id THEN t ELSE t \cup {[seq |-> s, rec |-> r]}
(* L0::apply: the last write of an id wins. *)
Applied(t, s, r) == {e \in t : e.rec.id # r.id} \cup {[seq |-> s, rec |-> r]}

(***************************************************************************)
(* Reads                                                                   *)
(***************************************************************************)
Live(es) == {e \in es : e.rec.life = "live"}

(* merged_live: the entry with the highest seq of each id, tombstones out. *)
MergedLive(sg, t) ==    \* mutant: tombstones leave before the supersede rule
    {e \in Live(sg \cup t) : \A o \in Live(sg \cup t) : o.rec.id = e.rec.id => o.seq <= e.seq}
Merged(sg, t) ==
    Live({e \in sg \cup t : \A o \in sg \cup t : o.rec.id = e.rec.id => o.seq <= e.seq})

(* is_live: the L0 entry of an id decides, whatever its seq. *)
IsLive(id) ==
    IF \E e \in l0 : e.rec.id = id
    THEN \E e \in Live(l0) : e.rec.id = id
    ELSE \E e \in seg : e.rec.id = id

(* get: the entries it can return for an id; at most one. *)
Get(id) ==
    IF ~IsLive(id) THEN {}
    ELSE IF \E e \in Live(l0) : e.rec.id = id
    THEN {e \in l0 : e.rec.id = id}
    ELSE {e \in Live(seg) : e.rec.id = id}

ShadowedByLive(e) == \E o \in Live(l0) : o.rec.id = e.rec.id    \* mutant
Shadowed(e) == \E o \in l0 : o.rec.id = e.rec.id

(* The candidates of text_search_filtered: sealed records not shadowed by  *)
(* an L0 entry of any lifecycle, and the live records of L0.               *)
TextCandidates == {e \in Live(seg) : ~Shadowed(e)} \cup Live(l0)

(***************************************************************************)
(* Replay of the log                                                       *)
(***************************************************************************)
(* The records of the first c frames of f with a seq above s. *)
RecordsAbove(f, c, s) == {i \in 1..c : f[i].kind = "Record" /\ f[i].seq > s}

(* What applying them in order leaves in an empty L0. *)
Replay(f, c, s) ==
    LET is == RecordsAbove(f, c, s)
    IN  {[seq |-> f[i].seq, rec |-> f[i].rec] :
            i \in {j \in is : \A k \in is : f[k].rec.id = f[j].rec.id => k <= j}}

(* apply_replayed fixes dim and id kind from the first record when the     *)
(* manifest had none, and fails the open on a record of another.           *)
ReplayedSchema(f, c, s, d, k) ==
    {s2 \in (Dims \cup {0}) \X {"int", "str", None} :
        /\ \A i \in RecordsAbove(f, c, s) : f[i].rec.dim = s2[1] /\ Kind(f[i].rec.id) = s2[2]
        /\ IF d = 0 /\ RecordsAbove(f, c, s) # {} THEN s2[1] # 0 ELSE s2[1] = d
        /\ IF k = None /\ RecordsAbove(f, c, s) # {} THEN s2[2] # None ELSE s2[2] = k}

(***************************************************************************)
(* Recovery (open_with, apply_replayed), from a file f whose recovery ends *)
(* at the barrier c, a manifest m, and whether the segments it names can   *)
(* be opened.                                                              *)
(***************************************************************************)
Found(f, n, c) == W!Scanned(f, n) /\ W!LastBarrier(f, n, c) /\ W!Monotone(f, n)

SeqAt(f, c) == IF c = 0 THEN 0 ELSE f[c].seq

Honoured(f, c, m, readable) ==
    m # None /\ m.checkpoint_seq <= SeqAt(f, c) /\ readable

Opened(m) == m.dim > 0 \/ m.segments # {}

(* What the open returns.  `schemas' has the one <<dim, id_kind>> of the   *)
(* new store, or is empty when the open fails on the records; `v1' is the  *)
(* refusal of a manifest without an id kind.                               *)
Recovery(f, c, m, readable) ==
    LET ok   == Honoured(f, c, m, readable)
        base == IF ok THEN m.checkpoint_seq ELSE 0
    IN  [rebuilt        |-> ~ok,
         v1             |-> ok /\ Opened(m) /\ m.id_kind = None,
         schemas        |-> ReplayedSchema(f, c, base, IF ok THEN m.dim ELSE 0,
                                IF ok /\ Opened(m) THEN m.id_kind ELSE None),
         metric         |-> IF ok THEN m.metric ELSE None,
         generation     |-> IF ok THEN m.generation ELSE 0,
         checkpoint_seq |-> base,
         seg            |-> IF ok THEN UNION {g.entries : g \in m.segments} ELSE {},
         l0             |-> Replay(f, c, base)]

Accepted(r) == ~r.v1 /\ r.schemas # {}

(* Can the segments of m be opened?  Not when a file is missing; when the  *)
(* faults include loss, not always when it is there.                       *)
Readability(m, fs) ==
    IF m = None \/ (m # None /\ m.segments = {}) THEN {TRUE}
    ELSE IF ~(m.segments \subseteq fs) THEN {FALSE}
    ELSE IF "loss" \in Faults THEN {TRUE, FALSE} ELSE {TRUE}

Open ==
    /\ pc = "down"
    /\ W!Open
    /\ \E readable \in Readability(manifest, segfiles) :
        LET r == Recovery(file', Len(file'), manifest, readable)
        IN  /\ Accepted(r)
            /\ \E s \in r.schemas : dim' = s[1] /\ id_kind' = s[2]
            /\ metric' = r.metric
            /\ generation' = r.generation
            /\ checkpoint_seq' = r.checkpoint_seq
            /\ seg' = r.seg
            /\ l0' = r.l0
            /\ pc' = (IF r.rebuilt THEN "rebuild_publish" ELSE "idle")
    /\ \E m \in Modes : autocommit' = (m = "connect")
    /\ in_tx' = FALSE
    /\ tx_base' = 0
    /\ UNCHANGED disk

(* The open fails in the log. *)
OpenFail ==
    /\ pc = "down"
    /\ "io" \in Faults
    /\ W!OpenFail
    /\ UNCHANGED <<disk, schema, metric, generation, tiers, mode, pc>>

(* The open fails after the log was recovered and cut: the manifest cannot *)
(* be read, or it or a replayed record is refused.                         *)
OpenRefused ==
    /\ pc = "down"
    /\ \E n, c \in 0..Len(file) :
        /\ Found(file, n, c)
        /\ \E readable \in Readability(manifest, segfiles) :
              "io" \in Faults \/ ~Accepted(Recovery(file, c, manifest, readable))
        /\ file' = SubSeq(file, 1, W!SurvivePoint(n, c))
        /\ synced' = W!SyncedByOpen(W!SurvivePoint(n, c))
    /\ UNCHANGED <<up, next_seq, committed_seq, past_end, fenced, acked,
                   disk, schema, metric, generation, tiers, mode, pc>>

(* The Store value is gone. *)
NoStore ==
    /\ pc' = "down"
    /\ dim' = 0
    /\ id_kind' = None
    /\ metric' = None
    /\ generation' = 0
    /\ checkpoint_seq' = 0
    /\ seg' = {}
    /\ l0' = {}
    /\ autocommit' = FALSE
    /\ in_tx' = FALSE
    /\ tx_base' = 0

ManifestOf(ckpt, segments) ==
    [generation |-> generation, checkpoint_seq |-> ckpt, dim |-> dim,
     id_kind |-> id_kind, metric |-> metric, segments |-> segments]

(* The end of a rebuild: an empty manifest replaces the one that cannot be *)
(* honoured, and only then are the segment files removed.                  *)
RebuildPublish ==
    /\ pc = "rebuild_publish"
    /\ manifest' = ManifestOf(0, {})
    /\ pc' = "rebuild_gc"
    /\ UNCHANGED <<log, segfiles, schema, metric, generation, tiers, mode>>

RebuildGc ==
    /\ pc = "rebuild_gc"
    /\ segfiles' = {}
    /\ pc' = "idle"
    /\ UNCHANGED <<log, manifest, schema, metric, generation, tiers, mode>>

(* An I/O error in either fails the open. *)
RebuildFail ==
    /\ "io" \in Faults
    /\ \/ /\ pc = "rebuild_publish"
          /\ manifest' \in {manifest, ManifestOf(0, {})}
          /\ UNCHANGED segfiles
       \/ /\ pc = "rebuild_gc"
          /\ segfiles' \in SUBSET segfiles
          /\ UNCHANGED manifest
    /\ W!ProcessExit
    /\ NoStore

(***************************************************************************)
(* Mutations                                                               *)
(***************************************************************************)
Idle == pc = "idle" /\ ~fenced

AfterMutationNoDefer == IF autocommit THEN "ack" ELSE "idle"    \* mutant
AfterMutationNoHook == "idle"    \* mutant
(* maybe_autocommit: a live transaction defers to its own commit. *)
AfterMutation == IF autocommit /\ ~in_tx THEN "ack" ELSE "idle"

AppendRec(r) ==
    \/ /\ W!AppendRecord(r)
       /\ l0' = Applied(l0, next_seq, r)
       /\ pc' = AfterMutation
    \/ /\ "io" \in Faults
       /\ W!AppendFail
       /\ UNCHANGED <<l0, pc>>

SchemaAllowsInL0(id, d) ==    \* mutant: "first write" means an empty L0
    l0 = {} \/ (dim \in {0, d} /\ id_kind \in {None, Kind(id)})
SchemaAllows(id, d) == dim \in {0, d} /\ id_kind \in {None, Kind(id)}

(* upsert.  The first write fixes dim and id kind, before the append. *)
Upsert(id, d, v) ==
    /\ Idle
    /\ SchemaAllows(id, d)
    /\ "overwrite" \in Verbs \/ \A e \in seg \cup l0 : e.rec.id # id
    /\ dim' = d
    /\ id_kind' = Kind(id)
    /\ AppendRec([id |-> id, dim |-> d, val |-> v, life |-> "live"])
    /\ UNCHANGED <<disk, metric, generation, seg, checkpoint_seq, mode>>

Delete(id) ==
    /\ Idle
    /\ "delete" \in Verbs
    /\ IsLive(id)
    /\ AppendRec([id |-> id, dim |-> dim, val |-> None, life |-> "tombstone"])
    /\ UNCHANGED <<disk, schema, metric, generation, seg, checkpoint_seq, mode>>

(* Wal::commit on behalf of the store. *)
CommitLog == W!Commit \/ ("io" \in Faults /\ W!CommitFail)

(* The second half of a mutation under autocommit. *)
Autocommit ==
    /\ pc = "ack"
    /\ CommitLog
    /\ pc' = "idle"
    /\ UNCHANGED <<disk, schema, metric, generation, tiers, mode>>

Commit ==
    /\ Idle
    /\ ~in_tx \/ "commit_in_tx" \in Verbs
    /\ CommitLog
    /\ UNCHANGED <<disk, schema, metric, generation, tiers, mode, pc>>

SetMetric(m) ==
    /\ Idle
    /\ "metric" \in Verbs
    /\ metric \in {None, m}
    /\ metric' = m
    /\ UNCHANGED <<log, disk, schema, generation, tiers, mode, pc>>

(***************************************************************************)
(* Transactions and rollback                                               *)
(***************************************************************************)
Transaction ==
    /\ Idle
    /\ "tx" \in Verbs
    /\ ~in_tx
    /\ in_tx' = TRUE
    /\ tx_base' = Len(file)
    /\ UNCHANGED <<log, disk, schema, metric, generation, tiers, autocommit, pc>>

EndTx == in_tx' = FALSE /\ tx_base' = 0 /\ UNCHANGED autocommit

CommitTx ==
    /\ Idle
    /\ in_tx
    /\ EndTx
    /\ CommitLog
    /\ UNCHANGED <<disk, schema, metric, generation, tiers, pc>>

RolledBackNothing(t) == t    \* mutant: L0 keeps the aborted records
(* rollback drops the L0 entries above the committed seq ... *)
RolledBack(t) == {e \in t : e.seq <= committed_seq}

(* ... and opens the log again over the old handle. *)
Rollback ==
    /\ pc = "idle"
    /\ "rollback" \in Verbs
    /\ ~in_tx \/ "rollback_in_tx" \in Verbs
    /\ ~fenced \/ "rollback_fenced" \in Verbs
    /\ l0' = RolledBack(l0)
    /\ W!Open \/ ("io" \in Faults /\ W!OpenFail)
    /\ UNCHANGED <<disk, schema, metric, generation, seg, checkpoint_seq, mode, pc>>

(* A rollback loses no committed record: no entry that it drops from L0    *)
(* replaced one that a barrier of the log covers and no segment has.       *)
RollbackKeeps ==
    \A e \in l0 : e.seq > committed_seq =>
        \A i \in RecordsAbove(file, Len(file), checkpoint_seq) :
            file[i].seq <= committed_seq => file[i].rec.id # e.rec.id

(* The guard is dropped uncommitted, on an error path too.  An error of    *)
(* the rollback is swallowed: the client may go on using the store.        *)
DropTx ==
    /\ pc = "idle"
    /\ in_tx
    /\ EndTx
    /\ l0' = RolledBack(l0)
    /\ \/ W!Open
       \/ /\ "io" \in Faults
          /\ W!OpenFailEffect
          /\ fenced' = (fenced \/ "use_after_drop" \notin Verbs)
    /\ UNCHANGED <<disk, schema, metric, generation, seg, checkpoint_seq, pc>>

(***************************************************************************)
(* Checkpoint: commit; seal the merged view into a new segment file;       *)
(* publish a manifest that names it; swap it in and empty L0; remove the   *)
(* replaced segment files.                                                 *)
(***************************************************************************)
Sealed == [generation |-> generation, entries |-> Merged(seg, l0)]

Checkpoint ==
    /\ Idle
    /\ "checkpoint" \in Verbs
    /\ id_kind # None \/ "checkpoint_empty" \in Verbs
    /\ ~in_tx \/ "checkpoint_in_tx" \in Verbs
    /\ generation < MaxGen
    /\ \/ /\ W!Commit
          /\ generation' = generation + 1
          /\ pc' = "seal"
       \/ /\ "io" \in Faults
          /\ W!CommitFail
          /\ UNCHANGED <<generation, pc>>
    /\ UNCHANGED <<disk, schema, metric, tiers, mode>>

Seal ==
    /\ pc = "seal"
    /\ \/ /\ segfiles' = segfiles \cup {Sealed}
          /\ pc' = "publish"
       \/ /\ "io" \in Faults
          /\ segfiles' \in {segfiles, segfiles \cup {Sealed}}
          /\ pc' = "idle"
    /\ UNCHANGED <<log, manifest, schema, metric, generation, tiers, mode>>

CoveredSeqNext == next_seq    \* mutant: one past the barrier
(* The seq a checkpoint covers: the barrier it committed, which is above   *)
(* every sealed record.                                                    *)
CoveredSeq == committed_seq

Publish ==
    /\ pc = "publish"
    /\ LET m == ManifestOf(CoveredSeq, {Sealed})
       IN  \/ manifest' = m /\ pc' = "swap"
           \/ "io" \in Faults /\ manifest' \in {manifest, m} /\ pc' = "idle"
    /\ UNCHANGED <<log, segfiles, schema, metric, generation, tiers, mode>>

(* The new segment file is read back; an error leaves the old tiers. *)
Swap ==
    /\ pc = "swap"
    /\ \/ /\ seg' = Sealed.entries
          /\ l0' = {}
          /\ checkpoint_seq' = CoveredSeq
          /\ pc' = "gc"
       \/ /\ "io" \in Faults
          /\ UNCHANGED tiers
          /\ pc' = "idle"
    /\ UNCHANGED <<log, disk, schema, metric, generation, mode>>

NotReplacedOlder(m) == {g \in segfiles : g.generation > m.generation}    \* mutant
(* gc_segments keeps the files the manifest names. *)
NotReplaced(m) == segfiles \cap m.segments

GcSegments ==
    /\ pc = "gc"
    /\ \/ segfiles' = NotReplaced(manifest)
       \/ /\ "io" \in Faults
          /\ \E kept \in SUBSET segfiles :
                segfiles' = kept \cup NotReplaced(manifest)
    /\ pc' = "idle"
    /\ UNCHANGED <<log, manifest, schema, metric, generation, tiers, mode>>

(***************************************************************************)
(* The environment                                                         *)
(***************************************************************************)
(* The store is dropped between calls, or the process dies in one. *)
Exit ==
    /\ pc = "idle" \/ "exit" \in Faults
    /\ W!ProcessExit
    /\ NoStore
    /\ UNCHANGED disk

PowerLoss ==
    /\ "power" \in Faults
    /\ W!PowerLoss
    /\ NoStore
    /\ UNCHANGED disk

(* The MANIFEST is gone at the next open. *)
LoseManifest ==
    /\ "loss" \in Faults
    /\ pc = "down"
    /\ manifest' = None
    /\ UNCHANGED <<log, segfiles, schema, metric, generation, tiers, mode, pc>>

-----------------------------------------------------------------------------
Init ==
    /\ W!Init
    /\ manifest = None
    /\ segfiles = {}
    /\ pc = "down"
    /\ dim = 0
    /\ id_kind = None
    /\ metric = None
    /\ generation = 0
    /\ checkpoint_seq = 0
    /\ seg = {}
    /\ l0 = {}
    /\ autocommit = FALSE
    /\ in_tx = FALSE
    /\ tx_base = 0

Next ==
    \/ Open
    \/ OpenFail
    \/ OpenRefused
    \/ RebuildPublish
    \/ RebuildGc
    \/ RebuildFail
    \/ \E id \in Ids, d \in Dims, v \in Vals : Upsert(id, d, v)
    \/ \E id \in Ids : Delete(id)
    \/ Autocommit
    \/ Commit
    \/ \E m \in Metrics : SetMetric(m)
    \/ Transaction
    \/ CommitTx
    \/ Rollback
    \/ DropTx
    \/ Checkpoint
    \/ Seal
    \/ Publish
    \/ Swap
    \/ GcSegments
    \/ Exit
    \/ PowerLoss
    \/ LoseManifest

Spec == Init /\ [][Next]_vars

-----------------------------------------------------------------------------
(* The shape of the state.  L0 and the sealed segment have one entry per   *)
(* id, as the HashMap and the merge give them.                             *)
OnePerId(es) == \A e, o \in es : e.rec.id = o.rec.id => e = o

TypeOK ==
    /\ W!TypeOK
    /\ l0 \subseteq Entry /\ OnePerId(l0)
    /\ seg \subseteq Entry /\ OnePerId(seg)
    /\ \A g \in segfiles : g.generation \in 1..MaxGen /\ g.entries \subseteq Entry
    /\ manifest # None =>
          /\ manifest.generation \in 0..MaxGen
          /\ manifest.checkpoint_seq \in Nat
          /\ manifest.dim \in Dims \cup {0}
          /\ manifest.id_kind \in {"int", "str", None}
          /\ manifest.metric \in Metrics \cup {None}
    /\ dim \in Dims \cup {0}
    /\ id_kind \in {"int", "str", None}
    /\ metric \in Metrics \cup {None}
    /\ generation \in 0..MaxGen
    /\ checkpoint_seq \in Nat
    /\ autocommit \in BOOLEAN
    /\ in_tx \in BOOLEAN
    /\ pc \in {"down", "rebuild_publish", "rebuild_gc", "idle", "ack",
               "seal", "publish", "swap", "gc"}
    /\ up <=> pc # "down"
    /\ tx_base \in Nat

(* The three ways the store finds a record give one answer: get, which     *)
(* asks L0 first and never compares seqs; the merged view of scan,         *)
(* exact_top_k and checkpoint, which compares seqs; and the candidates of  *)
(* text search, which shadows sealed records by id.                        *)
ReadPathsAgree ==
    pc = "idle" =>
        /\ \A id \in Ids : Get(id) = {e \in Merged(seg, l0) : e.rec.id = id}
        /\ TextCandidates = Merged(seg, l0)

(* The store shows what the log says and nothing else: at every step of    *)
(* every call, the merged view of the tiers is what replaying the whole    *)
(* log from its start would give.  (upsert, delete, rollback, checkpoint)  *)
ViewIsReplay ==
    pc # "down" /\ ~fenced =>
        Merged(seg, l0) = Live(Replay(file, Len(file), 0))

(* A crash between any two steps, of a checkpoint or a rebuild too, leaves *)
(* files that open to the committed records of the log, whichever way the  *)
(* open goes: "the store view equals the pre-close view".  (open_with)     *)
CrashRecovers ==
    \A f \in W!CrashImages : \A n, c \in 0..Len(f) :
        Found(f, n, c) =>
            \A readable \in Readability(manifest, segfiles) :
                LET r == Recovery(f, c, manifest, readable)
                IN  r.schemas # {} => Merged(r.seg, r.l0) = Live(Replay(f, c, 0))

(* No crash leaves a store that its own open refuses.  (open_with)         *)
Reopenable ==
    \A f \in W!CrashImages : \A n, c \in 0..Len(f) :
        Found(f, n, c) =>
            \A readable \in Readability(manifest, segfiles) :
                Accepted(Recovery(f, c, manifest, readable))

(* The manifest never promises what is not there: the segments it names    *)
(* exist, they hold no record above its checkpoint_seq, and every file a   *)
(* crash can leave still has that barrier, so that no crash alone sends an *)
(* open down the rebuild path.  (checkpoint: commit before publish, publish *)
(* before the removal of old segments)                                     *)
ManifestHonest ==
    manifest # None =>
        /\ manifest.segments \subseteq segfiles
        /\ \A g \in manifest.segments : \A e \in g.entries : e.seq <= manifest.checkpoint_seq
        /\ \A f \in W!CrashImages : \A n, c \in 0..Len(f) :
              Found(f, n, c) => manifest.checkpoint_seq <= SeqAt(f, c)

(* dim and id kind are fixed by the first write: no two records of the log *)
(* and the tiers differ in either, and the store agrees with them.         *)
(* (upsert, apply_replayed)                                                *)
SchemaUniform ==
    /\ \A i, j \in RecordsAbove(file, Len(file), 0) :
          /\ file[i].rec.dim = file[j].rec.dim
          /\ Kind(file[i].rec.id) = Kind(file[j].rec.id)
    /\ pc # "down" =>
          \A e \in seg \cup l0 : e.rec.dim = dim /\ Kind(e.rec.id) = id_kind

(* Under connect, a mutation outside a transaction has its barrier when it *)
(* returns: nothing in the log waits for one, so no call can roll it back  *)
(* and no crash can drop it.  (maybe_autocommit)                           *)
AutocommitDurable ==
    pc = "idle" /\ ~fenced /\ autocommit /\ ~in_tx /\ file # <<>> =>
        file[Len(file)].kind = "Commit"

(* Dropping a transaction restores what the store showed when it began:    *)
(* "roll back everything since Store::transaction on drop".                *)
Aborts == in_tx /\ ~in_tx' /\ up' /\ ~fenced' /\ acked' = acked

AbortUndoesTx ==
    [][Aborts => Merged(seg', l0') = Live(Replay(file, tx_base, 0))]_vars

(* "Reopen equivalence: the store view equals the pre-close view."  With    *)
(* nothing waiting for a barrier, closing the store and opening it again   *)
(* shows the same records.  (store.rs:20)                                  *)
ReopenEquivalence ==
    pc = "idle" /\ ~fenced /\ file # <<>> /\ file[Len(file)].kind = "Commit" =>
        \A n, c \in 0..Len(file) :
            Found(file, n, c) =>
                \A readable \in Readability(manifest, segfiles) :
                    LET r == Recovery(file, c, manifest, readable)
                    IN  Merged(r.seg, r.l0) = Merged(seg, l0)
=============================================================================
