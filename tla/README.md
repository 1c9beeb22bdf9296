# A verification of omendb-vector in TLA+

This directory models the storage engine of `crates/engine` in TLA+, checks the
models with TLC, and proves theorems about them with TLAPS. `PROJECT.json` lists
the components, the runs, the hazards the properties aim at, what the runs found,
and, for every definition that models code, the lines it stands for.

## The system

omendb-vector is an embedded vector store: a Rust library, one writer, calls that
return when they are done. There are no threads and no messages. What makes it hard
is the disk: a call does several durable things, any of them can fail, the process
or the machine can stop between any two, and the next open must put together a log,
a manifest and segment files into the store that was there before.

| component | state | operations | what makes it correct |
|---|---|---|---|
| write-ahead log, `wal.rs` | the file; a handle with `next_seq` and `committed_seq` | `append`, `commit`, `open` (which recovers) | what `commit` acknowledged is recovered, whole; nothing else is; recovery never refuses what the log wrote |
| frame codec, `codec.rs` | none | encode, decode with a torn tail | a torn frame ends the scan and is never mistaken for a frame |
| record codec, `records.rs` | none | build, encode, decode, validation | what is encoded decodes to itself, and no part of it passes for a record |
| store, `store.rs` | the log handle, L0 (records since the checkpoint), the open segments, dim, id kind, metric, generation, the modes `autocommit` and `in_tx` | `open`/`connect`, `upsert`, `add`, `delete`, `commit`, `rollback`, `transaction`, `checkpoint`, `set_metric`, reads | the view is what the log says; a reopen shows the same; an abort undoes exactly its own writes |
| segments and manifest, `segments.rs` | segment files, `MANIFEST` | write, publish, load, collect | the manifest never names what is not there, nor covers what the log has not committed |
| indexes, `index/` | one per segment: flat, or an HNSW graph | build, search | a structurally sound graph; results equal the exact scan where it promises that |
| filter, `filter/` | none | evaluate; parse a where-string | the parser builds the filter the string means |
| text, `text/` | postings per query | tokenize, BM25 | statistics of exactly the candidates |
| planner, `planner.rs` | none | reciprocal rank fusion | deterministic, by rank only |
| python binding, `crates/python` | the store it holds | conversions, batched `add` and `delete`, `get`, the searches, `connect` | a call that raises leaves the prefix of its batch; what was put in comes out; a filter binds every path |
| bench, errors | | | not modelled |

How they interact: every mutation goes log first, L0 second; `commit` and
`checkpoint` and, under `connect`, every mutation outside a transaction, end with a
barrier in the log. `checkpoint` writes the merged view of segments and L0 to a new
segment, publishes a manifest that names it and the barrier it covers, swaps it in,
and collects the old files. `open` recovers the log (and truncates it to the last
barrier), takes the manifest if the log has its barrier and its segments open, and
otherwise rebuilds everything from the log. `rollback` cuts L0 back and opens the
log again, which truncates it.

The code outside the repository that the engine stands on is `durable-fs`
(`atomic_write`, `sync_file_all`, `fsync_dir`). It is modelled from its use: an
atomic write leaves the old file or the new one, and after it returned the new one;
`sync_file_all` makes the whole file survive a power loss.

## The modules

| module | what it is |
|---|---|
| `Wal` | the log: file, handle, recovery, the failures of each call |
| `DurableLog` | what the log promises, without frames or seqs |
| `WalRefinement` | the log implements `DurableLog` |
| `WalProofs` | the theorems about `Wal`, and that it implements `DurableLog` |
| `Store` | the store over the log, which it takes with `INSTANCE Wal` |
| `Collection` | what the store promises, without a log, tiers or files |
| `StoreRefinement` | the store implements `Collection` |
| `StoreProofs` | the store's inductive invariant, and what follows from it; its schema, and stores that open again |
| `StoreViewProofs` | the view is the replay of the log: recovery, reopening, aborts; the store implements `Collection` |
| `Codec` | the bytes of records and of frames |
| `Files` | the log and a segment as bytes, damaged and read back |
| `FilesProofs` | the theorems about records as bytes, and about damaged files |
| `Sums`, `SumProofs` | sums and products of sequences; lemmas on them and on what is defined place by place |
| `Query` | the queries over the states of `Store`: vectors, text, both; under a filter |
| `Binding` | the clients of `Query`: the python binding, its batches and `connect` |
| `QueryProofs` | the theorems about what the clients in `Binding` do and what their queries answer |
| `Hnsw` | the graph index: building it and searching it |
| `HnswProofs` | the theorems about `Hnsw` |
| `Filter` | predicates on metadata, and their numbers |
| `Where` | filters: built, or parsed from a where-string, then matched |
| `WhereGrammar` | the grammar of where-strings, which the parser follows |
| `WhereProofs` | the theorems about `Where` |
| `MCWal`, `MCStore`, `MCQuery`, `MCBinding`, `MCFiles`, `MCHnsw`, `MCWhere` | instances for TLC |

### Wal

`file` is the sequence of frames a reader of the file sees, `synced` how many of its
frames an fsync has covered. A region that does not decode (a partial frame, a bad
CRC, a hole) is one `Torn` frame. `up`, `next_seq` and `committed_seq` are the
handle. `past_end` says that the cursor of the handle is beyond the end of the file:
a failed recovery of a second handle truncates the file under the first, and the
next write of the first leaves a hole of zeros, which is a torn region.

`fenced` and `acked` are history variables. A call that returned an error obliges
the client to drop the handle and open again (`wal.rs:36`); `fenced` records that it
has to, and the usual client does. With `RetryCommit` it calls `commit` once more
instead after its fsync failed. `acked` is the number of frames that the last
successful `commit` acknowledged.

| action | code |
|---|---|
| `AppendRecord`, `AppendFail` | `append`, and its `write_all` failing with nothing or a part of the frame written |
| `Commit`, `CommitFail` | `commit`, failing in the write or in the fsync |
| `Open`, `OpenFail` | `open_with_class` and `open_or_recover`, failing before the truncation or between it and its sync |
| `ProcessExit` | the handle goes, the page cache stays |
| `PowerLoss` | the synced frames stay, then any prefix of the rest, then possibly a torn frame |

Abstractions: writes reach the disk in file order, so that a power loss keeps a
prefix. A truncation that was not synced is not undone by a power loss; if it were,
the file would be one that the truncating open had started from, since every
acknowledgment syncs. Creation of the file and of its header is one step, `start_seq`
is 1 (nothing in the code writes another value), and no `Checkpoint` frame occurs
(nothing writes one).

### Store

The `Store` value is `dim`, `id_kind`, `metric`, `generation`, `checkpoint_seq`,
`seg` (the entries of the open segment), `l0`, `autocommit` and `in_tx`; on disk are
`manifest`, `segfiles` and the log. A call that does several durable things is
several actions, and `pc` is the one that comes next:

| call | actions |
|---|---|
| `open`, `connect` | `Open` (log, manifest, replay), and after a rebuild `RebuildPublish`, `RebuildGc`; `OpenFail`, `OpenRefused`, `RebuildFail` |
| `upsert`, `delete` | `Upsert` or `Delete`, then `Autocommit` under `connect` outside a transaction |
| `add` | a sequence of `Upsert`, then one more `Commit` under `connect` |
| `commit`, `set_metric` | `Commit`, `SetMetric` |
| `transaction`, its `commit`, its drop | `Transaction`, `CommitTx`, `DropTx` |
| `rollback` | `Rollback` |
| `checkpoint` | `Checkpoint` (the barrier), `Seal`, `Publish`, `Swap`, `GcSegments` |

With `io` among the `Faults` each of them can fail where the code can return an
error. `Verbs` and `Modes` say which calls the client makes, so that a run can ask
about one use of the API. Some verbs allow what a careful client avoids: a commit, a
rollback or a checkpoint through a live guard (`commit_in_tx`, `rollback_in_tx`,
`checkpoint_in_tx`), a rollback on a store whose last call failed
(`rollback_fenced`), a checkpoint before the first record (`checkpoint_empty`), going
on with the store after a guard was dropped and its rollback failed, which the client
cannot see (`use_after_drop`). `overwrite` is an upsert of an id that has an entry.

Abstractions: a segment file is its generation and its entries, and is readable or
not; with `loss` among the faults a manifest may disappear between two opens, and
a segment that is there may fail to open. A record is an id, a length, a lifecycle
and one value for the rest. Ids of kind `Int` and `Str` are two sets.

### Collection and StoreRefinement

`Collection` is the store as its client sees it: `state` (closed, open, or open with
nothing left but a rollback), `view` (the records it shows), `saved` (what a rollback
returns to) and `outcomes`, the views that a crash may leave. There is one outcome after a
`Save`; a save that returned an error adds one, and the next open decides between them.

`StoreRefinement` says what these are in a store: the view is the merged view of the
tiers, the outcomes are what the log holds at each barrier that a recovery may still end
at, and what is saved is what it holds at the last. A store whose last call failed is
closed to its client (`wal.rs:36` tells him to drop it), except with a live guard, whose
drop is a rollback. Manifest and segments are not in the mapping: `ImplementsCollection`
says that they never decide what a client sees. A step of a checkpoint or of a rebuild
is a stutter, but for the barrier at the start of the checkpoint, which is a `Save`.

| `Store` | `Collection` |
|---|---|
| `Open` | `Open` |
| `Upsert`, `Delete` | `Put`, `Remove`; failing, `FailWrite` under a guard and `Crash` without |
| `Autocommit`, `Commit`, `CommitTx`, `Checkpoint` | `Save`; failing, `FailSave` or `Crash` |
| `Rollback`, `DropTx` | `Rollback`; failing, `Crash` |
| `OpenFail`, `OpenRefused`, `RebuildFail`, `Exit`, `PowerLoss` | `Crash` |
| all others | a stutter |

### Codec and Files

`Codec` is `records.rs` and `codec.rs` at the level of bytes, with the widths as
constants: `Base` values of a byte, `W16`, `W32` and `W64` bytes of an integer. A number
is its bit pattern; of an f32 only the two patterns above the finite ones matter, an
infinity and the NaN that stands for "untracked". `Encode` and `Encodable` (its checks)
are `Record::encode`; `Decode` is `Record::decode`, a chain of cursors each of which is
broken once one before it is, and the loops over the vector and over the metadata are
functions of how many elements were read; `FrameAt` and `DecodeFrames` are the loop of
`decode_frames`, a function of how many frames were looked for. The checksum is one byte with
many values that no two contents of the instance share: that a CRC-32 detects a damage is
an assumption, what the code does with it is not. That strings are UTF-8 is left out.

`Files` builds a record with the builder (`New`, `WithNorm`, `WithText`, `WithMeta`,
`AsTombstone`), or writes a file: a segment (`WriteSegment`), or a log (`CreateLog`,
`AppendRecord`, `Commit`). Then one damage may happen to the file: it is cut short at any
byte, zeroed from any byte on, or one byte changes. `intact` says how many leading
bytes are as they were, and `wrote` what was put into the file: the entries of a segment, the
frames of a log. `Frames` are the frames of either, and `EndOf` says where they lie. So the
assumption on the checksum is a formula of this module, `DamageShows`: where a frame was
written, no frame can be read that reaches into the damage. `SegmentOpen` and `LogOpen` are `SegmentReader::open` and
`open_or_recover`, up to what they do to the file. `Wal` relies on `DamagedLogIsPrefix`
(a log that is damaged reads as a prefix, so a region that does not decode may be one
`Torn` frame), `Store` on `SealedWholeOrRefused` (a segment is readable and whole, or not
readable).

### Query

`Query` extends `Store` with the queries and adds no state. One query vector and one
metric give each record one score, and only the order of scores matters, so the content
of a record has its score, with 0 for a record that the metric cannot score, besides
its text and metadata.

| operator | code |
|---|---|
| `ExactTopK` | `exact_top_k`, the flat scan of the merged view |
| `Search` | `search`: the segment's index and a scan of L0 give `pool` candidates each, merged by id, the best score first |
| `FilteredTopK` | `filtered_exact_top_k` |
| `Tokenize`, `ScoreTerm`, `ScoreDoc`, `TextTopK` | `text/`, and `text_search_filtered` on the candidates of both tiers |
| `RrfFuse`, `Paths`, `Hybrid` | `rrf_fuse` and `hybrid_search_rrf_filtered` |

`Search` and `ExactTopK` return equal scores in no fixed order (a `HashMap` is
iterated), so they have a set of answers; the others break ties by id and have one.
A stable sort is `InOrder`, which gives the member of a set that comes after i - 1 others
its place i; what the code adds up in a loop is `Sum`. A token begins where a character
is alphanumeric and the one before it is not, and goes on to the end of the run.

BM25 is computed in integers. The logarithm of the idf is the area under 1/x, unit by
unit, in thousandths, and the rest of a score a fraction that is rounded down. Two scores
that differ in the model by rounding only may be a tie in f32, or the other way round,
and a score that rounds down to nothing is positive there. No property here depends on it:
they compare scores of the same function, or say of a text path only that its hits match
and come once each. The gains of the fusion are exact: 1 / (60 + rank) over a common
denominator, the product of all the 60 + i up to the largest window. The code adds them
up in f64 and rounds the sum to f32, which tells two sums apart whose relative distance
is above 2^-23. Of two records of which one is ahead in every path, the sums have a
relative distance of at least 1 / (61 + window), since each term has, so this holds for
windows of some million hits; beyond, the two may tie in f32.

The segment's index is the exact one; what the graph index returns
is the subject of `Hnsw`.

### Binding

`Binding` composes `Query` (and so `Store`, the log and `Filter`) with a client of
python. `call` is the batch in progress, `taken` how many of its items the store has,
`asked` the metric that `connect` sets next, `before` (a history variable) what `get`
showed when the call began.

| code | actions and operators |
|---|---|
| `PyStore::open` and `connect` of `__init__.py` | `BeginConnect`, `LockMetric`, `RefuseMetric` |
| `PyStore::add`, `upsert`, `delete`; `Store::add` under autocommit | `Begin`, then `TakeItem` for each item, then `Return`; or `Raise` where an item is refused |
| `commit`, `rollback`, `checkpoint` | the actions of `Store`, between calls |
| `py_to_id`, `to_meta_value`, `from_meta_value`, `record_dict`, `coerce_where`, `build_filter` | `ToId`, `ToMeta`, `FromMeta`, `RecordDict`, `CoerceWhere`, `PredicateOf` |
| `search` | `PySearch` |

A python value has a kind, so that a bool where an int is asked for, an int that no i64
holds, the float that is not a number, and a value of no accepted type are inputs. A
metadata dict is a set of pairs. The bounds of a range in a `where` argument are numbers
(`WhereOK`); what others do is the subject of `Where`.
The binding's `add` and the engine's differ in when a batch is converted (item by item,
or before the call) and in the barrier at its end; `Begin` and `Return` have both.

### Hnsw

`vectors`, `levels`, `links`, `entry` and `max_level` are the fields of `HnswIndex`;
`links[a][l]` is a set. `build` and `search` are loops in loops, and a step of the
model is a turn of the innermost one. `pc`, `node` (0 in a query), `q`, `k`, `lc` and
`ep` are the local variables of the call, `visited`, `cands` and `results` those of
`search_layer`.

| code | actions |
|---|---|
| `build`, the start of `insert_node` | `InsertFirst`, `Insert`, `Built` |
| `search`, as an exact scan or as a walk | `QueryAll`, `Query` |
| `greedy_closest` and the loop around it | `Hop`, `Descend` |
| `search_layer` | `BeginBeam`, `Pop`, `Visit` |
| `select_heuristic` and the links of the new node | `Connect` |
| back links, cut by `select_heuristic` | `LinkBack` |
| the next layer down, the end of `insert_node` | `NextLayer`, `Finish` |
| sorting and truncating the hits | `Answer` |

Vectors are values with a distance. Nothing is assumed of the distance but that it is
a natural number: neither symmetry nor the triangle inequality, so what is proved
holds of cosine as well as of L2. The level of a node is a pseudo-random draw in the
code and any level in the model. Where the code's order of neighbours, or of equal
distances, would decide, the model takes any. Left out: queries in another metric
than the graph's (they are exact scans), validation of the input, NaN (see the
hazards).

### Filter and Where

`Filter` has i64 and f64. Reals are counted in halves, so that there are numbers between
the integers. The finite floats are a constant, `Floats`, and so are those of them with an
even mantissa. `FilterAssumption` says what the code relies on: the integers up to `Exact`
(2^53) are floats, `Inf` is above all of them, where the next float would be, and of
two neighbouring floats with a number between them one is even, which decides a tie. A
number is rounded to the nearest float (`Nearest`), beyond the largest one to an infinity.
`SecondFloats` is the instance for TLC, made like f64: halves up to half of `Exact`,
integers up to it, every second integer beyond. `NextUp`, `NextDown`, `ExactInt` and
`AsF64` are the conversions of the code on these. `NaN` is a value of its own, which is equal to
nothing (`MetaEq`).

`Where` is a client that builds a filter with `and` or parses one, and matches it
against the metadata of a record. The parser is the recursive descent of
`filter/parse.rs` step by step: `stack` is its call stack, `pc` the point it has
reached in the innermost call, and tokens are chosen as they are read, so that a run
visits every viable prefix and every token that may follow it. A token is a word (a
keyword is a word that the parser looks for), punctuation, an operator, a numeral or
a string; bytes and escapes are left out. The evaluation is `BoolNode::matches` in the
same manner: `node` is the node it is at, and a node whose left side is being evaluated
waits on the stack (`EvalFirst`, `EvalLeaf`); what comes back decides it, or sends the
evaluation to the right side (`EvalReturn`, `EvalSecond`).

`OrExpr`, `AndExpr` and `PrimaryOrNot` of `WhereGrammar` are the reference for the
parser: the grammar from the head of `parse.rs`, by every way to divide a sequence of
tokens.

### Mutants

Definitions marked `mutant` are variants with a plausible mistake, kept beside the
definition they vary. Nothing uses them; putting one in the place of its neighbour
must make a property fail, which shows that the property depends on that line of the
code. `PROJECT.json` pairs each property of a passing run with such a variant.

## What is checked

One property is about liveness, `CallsReturn` of `Hnsw`: an insertion or a query comes
to its end. It is checked under weak fairness of `Step`, the steps inside a call,
because a call is a loop of the thread that made it; what begins a call has no
fairness. Elsewhere none is assumed: the engine has no background work and waits for
nobody, and a client may stop calling at any time. Runs may deadlock only in `where`,
where a record has been matched or a string refused, and in `files`, where a file has
been damaged.

Runs that pass:

| run | asks | bounds |
|---|---|---|
| `wal` | acknowledged frames survive and stay as they are; recovery accepts every crash image; the log implements `DurableLog` | 2 records, 5 frames, 6 seqs |
| `store` | the view is the replay of the log, before and after any crash, rebuild or reopen; the read paths agree; the manifest is honest; autocommit leaves nothing open; the store implements `Collection` | 2 ids, 2 dims, 5 frames, 2 generations; I/O errors, exits, power losses, loss of derived files |
| `store_tx` | a dropped guard restores the view from before it; the store implements `Collection` with rollbacks; dim and id kind never mix; every crash leaves a store that opens | 2 ids of two kinds, 2 dims, a metric, 5 frames, `connect`; the same faults |
| `binding` | a call that raises leaves the prefix it took, and `get` shows what was put in; a published metric stays; filters bind every path; no query depends on the tier a record is in; fusion respects its paths; `search` has exactly the answers of the flat scan while L0 supersedes no sealed record | 3 clients: queries of 3 ids, batches of 2 items, connects with 2 metrics; 4 frames, 1 generation, process exits; k, pool and window up to 3 |
| `files` | encode and decode are inverse on what encode accepts; a segment opens whole or not at all; a damaged log recovers as a prefix; the checksum shows every damage | bytes of 3 bits, lengths of 1 and 2 bytes; records with 2 metadata entries, 2 entries in a segment, 4 frames in a log; one damage at any byte |
| `hnsw` | walks stay on layers that exist; the entry is on top; degrees are bounded; only full lists are cut; no node is a dead end; a beam keeps the closest; a wide beam is exact; calls return | 4 vectors, of 4 values, 2 layers, M = 1, M0 = 2, beams of 2 |
| `where` | the parser follows the grammar; comparisons and ranges mean what they say at the edges of i64 and of the exact floats; NaN is an error | 11 tokens over AND, OR, NOT, groups and comparisons, 8 with IS NULL and IN; i64 of 4 bits, floats exact up to 4; 2 range predicates; 2 values of a field |

Why the bounds suffice for the cases that matter: five frames hold a record, its
barrier, a second record of the same id, its barrier and one frame of a third batch,
which is a committed prefix, an overwritten or deleted record, and a tail to tear or
roll back. Seqs go one past the frames, because recovery drops frames and not the
seqs they had. Two generations hold a checkpoint, a segment that is replaced, and
the collection of the old file. Two ids tell "this id" from "another", two kinds and
two lengths tell right from wrong.

For a query, three ids are the least for which a pool of the k best of each tier could
be too small, and for which BM25 has a tie, a better and a worse document. The clients of
`binding` are three because their questions are independent: what is asked with a
text, a score and a filter does not need batches, and what a batch leaves does not need
scores. Their records have integers at the edge of the exact floats, at the edge of i64
and beyond it, a half, a float that is not a number, a string in the place of an id, no
text, and a score of none.
One generation is one checkpoint, with records before and after it; more are in
`store`. The rollback of this client keeps away from the finding below (`RollbackKeeps`),
because a view that has lost a record differs from the replay for that reason alone.
Bytes of three bits hold the codes of every field with values to spare, and let a
string be as long as its length field can say in seven bytes.

Four vectors with M = 1 and M0 = 2 are the least graph where lists overflow on both layers, are cut, and leave links that are not returned; three
directions on a half circle and a vector without one give distances that are equal,
different, and the largest there is; one node more than fits a beam makes the beam
drop something. Eleven tokens are three comparisons and two operators, which is where
precedence and associativity differ; eight hold a list of two and a group around
`IS NOT NULL`. A comparison is tried on every number, and on pairs of those at the
edges. With four bits and the integers up to 4 exact, every conversion meets
numbers below, at and beyond its edge.

Runs that TLC refutes, each a place where the code does something else than its
documentation says (`findings` in `PROJECT.json` quotes both sides):

| run | shows |
|---|---|
| `store_rollback_loss` | rollback of an overwrite loses the committed record from the view until the next open |
| `store_empty_checkpoint` | a checkpoint of an empty store makes it impossible to open |
| `store_search` | `search` returns a sealed record that was deleted or replaced in L0 |
| `filter_range` | a range from 0.0 to 1.0 does not match 0.5 |
| `codec_long_id` | a record with an id longer than 16 bits can count is written and cannot be read |

Overwrites and deletes are in `store` (without rollback) and rollbacks in `store_tx` (of new
ids only), because the two together are the first of these findings.

The models show more that the passing runs keep apart by their constants, and that a
reader can see by changing a cfg:

- Calling `commit` again on the same handle after its fsync failed returns Ok and writes
  a second frame with the seq of the first; recovery refuses the file (`RetryCommit =
  TRUE` in `MCWal.cfg`: `AckedRecoverable` fails). `wal.rs:36` tells the caller to drop the
  handle after an error of `append`, and says nothing of `commit`.
- `Drop` of a guard swallows the error of its rollback and keeps a log whose tail was
  not cut: after a commit of that handle a reopen shows the aborted records
  (`tx` and `use_after_drop` among the `Verbs` of `MCStore.cfg`: `ReopenEquivalence` fails), while
  `store.rs:1028` says that the store remains usable.
- A checkpoint or a commit through a live guard makes the guard's writes permanent:
  its drop goes back to the last barrier (`checkpoint_in_tx` in `MCStoreTx.cfg`:
  `AbortUndoesTx` fails). If the fsync of that barrier fails, the drop also takes the
  writes out of L0 and finds the barrier in the log, so that view and log part
  (with `ViewIsReplay` among the invariants of that cfg, TLC finds it).
- Under `open`, writes before a transaction that were not committed go with it when
  it is dropped (`Modes = {"open"}` in `MCStoreTx.cfg`: `AbortUndoesTx` fails).
- A rollback after a commit whose fsync failed takes the committed seq of the old
  handle and the barrier that the new one finds, so that L0 drops records that the
  log keeps (`rollback_fenced`, with `ReopenEquivalence`).
- `set_metric` stays in RAM until a checkpoint. A rebuild after the loss of derived
  files forgets a published metric: a later open has none, and another one can be set
  (`loss` among the `Faults` of `MCBinding.cfg`: `MetricFixed` fails).
- `x > 5` becomes the range from the integer 6, and the float 5.5 does not match it, while
  `parse.rs:272` says "(X, +inf)". `ComparisonsMean` excludes this one case; without the
  conjunct on `Real(x) % 2` the run `where` finds it.
- An exclusive bound beyond i64 (`x < 9223372036854775809`) is a float, and the float
  before it is smaller than the largest i64, which rounds above it: `NoIntegerMissed` is
  about literals that are i64 for this reason. `mod.rs:12` declares the boundary.
- A float that is not a number is stored and comes back from `get`, and a filter with
  the metadata that came back does not find the record, since `meta_eq` compares floats
  with `==` (without its last line, `FilterBindsEveryPath` fails in `binding`).
- A text of exactly as many bytes as the pattern for "no text" counts (u32::MAX) passes the
  check of `records.rs:254`, and its payload does not decode (`Texts <- MCTextOfNone` in
  `MCFiles.cfg`: `EncodedDecodes` fails). Its frame is too long for its own length as well.
- `Wal::committed_seq` after an open may name a barrier that no fsync covered: an
  open that has nothing to truncate does not sync. It acknowledges nothing, so no
  acknowledged record is at stake.

Things the models do not show or do not judge, met while reading: `parse.rs:341` says that a
doubled quote in a string stands for one, and the code ends the string there;
`store.rs:404` says that a query with another metric than the collection's is an error,
and no query looks at the collection's metric (in the binding the locked metric is only
the default); `omendb_vector/__init__.py:32` says that the metric persists in the manifest, which
it does from the next checkpoint on; a filtered search with a zero vector under cosine
returns nothing where the unfiltered one raises (`store.rs:787` and `store.rs:865`); a
python `True` is stored as the integer 1, so that `flag = true` in a where-string never
finds it; an int that no i64 holds becomes the nearest float; `delete` takes a list only,
though `lib.rs:420` says "single id or list", and `get` of a list of one returns a dict; `codec.rs:23`
says that frames of an unknown kind are skipped, and `decode_frames` ends the scan at
one.

## What is proved

### The log

`WalProofs` proves for every set of payloads and all bounds, under the assumption
that the client does not retry (`~RetryCommit`; `RetryCommit = TRUE` in `MCWal.cfg` gives
the counterexample):

| theorem | statement |
|---|---|
| `Invariance` | `Spec => []IInv` |
| `TypeCorrect` | `Spec => []TypeOK` |
| `RecoveryNeverRefuses` | `Spec => []RecoveryAccepts` |
| `AckedSurvives` | `Spec => []AckedRecoverable` |
| `AckedNeverChanges` | `Spec => AckedImmutable` |

None of the properties is inductive. That recovery never refuses a file needs the
seqs of every frame that can ever be scanned to increase, those behind a frame that
is torn now included, and `next_seq` to be above all of them while the handle may
write. That acknowledged frames survive needs the acknowledged frame to be a barrier
below `synced` with no torn frame before it, and a handle whose cursor is past the
end to be one that may not write. `IInv` says these things; the proof takes each
action in turn, and lemmas about what a scan finds in a prefix of a file carry the
step of `Open` and of `PowerLoss`. The theorems use `WalAssumption` and the
library's facts about sequences, nothing else.

`LogIsDurable`, under the same assumption, is
`Spec => ImplementsDurableLog`: batches are recovered whole or not at all, in order,
those acknowledged always, and a record that was discarded never becomes part of a later
batch. `WalRefinement` gives the batches of a file by position: the k-th barrier is the
one with k barriers up to it, its batch are the payloads between it and the one before. So
nothing is folded over the file, and what is needed is how the number of barriers changes
with it: a record lengthens what waits, a barrier closes one more batch, a file cut at m
frames has the batches that are closed within m frames and no others. The invariant is that
of `WalProofs`; it says which barriers a recovery may end at.

### The store

Nine of the properties of the runs `store` and `store_tx` are invariants, one is an action
property and one is the refinement of `Collection`; all of them are theorems, for any sets of ids, lengths, contents and
metrics, any bounds, and any choice of `Modes`, `Faults` and `Verbs` that the third column
allows. None of it is about a client that goes on with a store after the rollback in a
guard's drop failed (`use_after_drop` is not among the `Verbs`): the code promises
nothing of it that holds, see above.

| theorem | statement | for |
|---|---|---|
| `StoreProofs!Invariance` | `Spec => []IInv` | all other verbs |
| `TypeCorrect` | `Spec => []TypeOK` | all other verbs |
| `ReadsAgree` | `Spec => []ReadPathsAgree` | all other verbs |
| `ManifestKeepsItsWord` | `Spec => []ManifestHonest` | all other verbs |
| `ConnectIsDurable` | `Spec => []AutocommitDurable` | all other verbs |
| `SchemaNeverMixes` | `Spec => []SchemaUniform` | all other verbs |
| `AlwaysReopens` | `Spec => []Reopenable` | no `checkpoint_empty` |
| `StoreViewProofs!ViewFollowsLog` | `Spec => []ViewIsReplay` | `Disciplined` |
| `CrashesRecover` | `Spec => []CrashRecovers` | `Disciplined` |
| `ReopenShowsTheSame` | `Spec => []ReopenEquivalence` | `Disciplined` |
| `AbortsUndo` | `Spec => AbortUndoesTx` | `NoOverwrite`, `connect` only |
| `StoreIsACollection` | `Spec => ImplementsCollection` | `Disciplined` |

The restrictions are the code's. A checkpoint before the first record makes a store that
its open refuses (`store_empty_checkpoint`). `Disciplined` is `NoRollback` (no guard and no
rollback; overwrites, deletes and checkpoints are free) or `NoOverwrite` (guards and
rollbacks, and every upsert is of an id that has no entry; no commit, rollback or
checkpoint through a live guard, no rollback after a failed call). Outside of both,
`ViewIsReplay` is false (`store_rollback_loss`, and the bullets above). `MCStore.cfg` and
`MCStoreTx.cfg` are instances of one each.

The argument. `IInv` has a part for each thing that is kept: `LogOK`, the inductive
invariant of `WalProofs`, under which the log of the store runs; `HandleOK`, that the
barrier the handle remembers is in the file; `TiersOK`, that segment and L0 have one entry
per id, lie below and above `checkpoint_seq`, and that this is not beyond the last
acknowledged barrier; `FilesOK` and `ManifestOK`, the same of what is on disk; `CallOK`,
what a checkpoint between its steps and a rebuild between its two may count on; and the
ranges. Each step of the log is first described in the store's terms (which frames
stay, which come); then each action of `Store` has a lemma, and `NextStep` collects them.

The view needs more. `ViewInv` says that L0 is the replay of what the log holds above
`checkpoint_seq`, that the segment is the live part of what it holds up to there, and that
the manifest's segment is the same for its own seq. `MergeSplit`, the heart of it, says
that the merged view of two such parts is the replay of the whole log. `ReplayGrows` and
`ReplayCut` say how a record that is appended, or a tail that is cut off, changes a
replay; `ReplaySame` that a recovered file replays as the one it was. The one place
where induction is needed, that a set of frames has a last one, is an instance of the
library's `WFMin` on `<` over `Nat`. With rollbacks the log keeps one write per id
(`OneWrite`), because a cut that removes an overwrite would have to bring back what L0 has
forgotten, which is the finding. `AbortsUndo` adds that outside a transaction nothing waits
for a barrier under `connect`, so that the barrier to which a drop returns is the one at which the
transaction began.

The schema invariant relates its three copies: a manifest that fixes a schema binds the log,
its segment and the open store; one that fixes none covers no record; and RAM that has
one agrees with every frame. The middle part is why a crash that takes the first record
with its schema leaves a manifest that still opens.

`StoreIsACollection` rests on both invariants. `ViewInv` makes the view of a store in use
what its whole log holds (`ShowingNow`), so that nothing but the log is left to argue about:
lemmas say what each call does to the barriers where a recovery may end (a record or a
torn frame adds none, `EndsStay`; a barrier becomes the only one, `CommitEnds`; a barrier
whose fsync failed becomes one more, `CommitFailEnds`; a recovery and a power loss keep a
part of them, and a recovery the last, `EndsCut` and `PowerEnds`). Then each action is matched with
its step of `Collection`.

The proofs use `StoreAssumption`, `NoneAssumption`, `ManifestAssumption` (that `None` is no
manifest), the theorems of `WalProofs` and the library's facts about sequences and
well-founded relations, nothing else.

### The binding

`QueryProofs` proves for any clients, contents, filters, texts and batches, and all
bounds:

| theorem | statement | for |
|---|---|---|
| `BindingIsACollection` | `BindingSpec => ImplementsCollection` | all other verbs |
| `TiersNeverShow` | `BindingSpec => []AnswersIgnoreTiers` | all other verbs |
| `BatchesApplyPrefix` | `BindingSpec => BatchAppliesPrefix` | all other verbs |
| `MetricStays` | `BindingSpec => MetricFixed` | no `loss` among the `Faults` |
| `SearchIsExactWhenDisjoint` | `Spec => []SearchMatchesWhenDisjoint` | all other verbs |
| `FiltersBindPaths` | `BindingSpec => []FilterBindsEveryPath` | all other verbs |
| `FusionRespectsOrder` | `BindingSpec => []FusionRespectsPaths` | all other verbs |

The first is about more behaviours than `StoreIsACollection`: a client of the binding
overwrites, deletes and rolls back. What makes it true is that no step of it rolls back
an overwrite of a committed record (`RollbackKeeps`, which keeps away from the finding
`store_rollback_loss`), so that every step keeps `ViewInv` (`LosesNothing` is what the
lemmas of `StoreViewProofs` need of a step, in place of `Disciplined`). The second follows from
`ViewInv`: what the two tiers hold is the replay of the log, so the candidates of each
path, and the statistics over them, are the same sets. `BatchesApplyPrefix` carries `CallShows`
through a call, that every id shows the last of the items taken or what it showed before.
`MetricStays` relates the metric on disk, in RAM, and in the manifest that a rebuild is
about to write; a lost manifest takes the metric with it (see above).

`SearchIsExactWhenDisjoint` rests on a lemma about sets and pools: the best k of the union
of two sets are the best k of the best p of each, if k is not above p (`BestOfBoth`), whichever
of the records of equal score each tier drops. That the tiers are finite is an invariant
(`FiniteTiers`). The theorem holds of `Spec`, so of every client.

`FiltersBindPaths` and `FusionRespectsOrder` are about what the queries compute, so about
sorting and adding up. Both are recursion in the code and functions in the model, and
three kinds of lemmas stand below them:

- A function over the places of a sequence that is defined from the place before exists
  (`RecursionExists`): take the places up to which there is one, and the least that has
  none has one after all. This gives `SumIs` and `ProductIs`, and from these, by the
  first place at which a claim would fail, that a sum of larger terms is larger
  (`SumLess`), that a sum with one term is that term (`SumOne`), and that a product
  without one factor, times the factor, is the product (`ProductWithout`): a gain is
  the common denominator divided by its rank (`GainLess`).
- `InOrder` sorts (`InOrderSorts`): in a finite set with a strict total order no two
  members have the same number of members below, so each number up to the size of the set
  is taken, and the i-th place has one member, before the next.
- A path lists hits of records that match, each once. For the scan that is `ScanPath`,
  and `ScanIsBest` says that cut to k it has the k best: what was cut comes after. For
  the text path it is `TextPath`, whatever the scores are, which need be natural
  numbers only (`ScoresType`, and below it types for the tokens, the idf and the length).

Then the fusion (`FusedHitsAre`): the first occurrences are one per id (`FirstsDiffer`), so
the answer lists each id of a path once, by the sum of its gains. Cut at the number of
records that match, it loses none (`FusionBinds`). A record that is ahead in every path
that has either gets no less from any path and more from one (`AheadGains`), so its sum is
greater and it comes first (`AheadFused`), and a cut that leaves the second leaves the
first (`FusionKeepsAhead`). That a record's own metadata find it is `OwnDictMatches`, on
the round trip of a value through python (`MetaComesBack`).

Besides the assumptions of the store these proofs use `ClientAssumption` (a batch is a
sequence of items of the kinds that the binding accepts at all, what is stored of a value
is a value of the model) and `QueryAssumption` (scores are natural numbers, texts are
sequences, ids have an order in which the integers come first).

### The bytes of records and files

`FilesProofs` proves for every number of values of a byte (above 7), all widths of the
integers, and any ids, vectors, texts and metadata:

| theorem | statement | for |
|---|---|---|
| `RecordsRoundTrip` | `Spec => []EncodedDecodes` | `LengthsFit` |
| `SealedFilesOpenWhole` | `Spec /\ []DamageShows => []SealedWholeOrRefused` | `StockFits` |
| `DamagedLogsRecover` | `Spec /\ []DamageShows => []DamagedLogIsPrefix` | `StockFits` |

The first: what encode accepts decodes to itself, to the last bit, and no proper prefix of its
bytes decodes. `LengthsFit` says that a string id is no longer than its length can say,
that there are no more metadata entries than their count can say, and that a text is
shorter than the pattern for no text. The first two encode does not check; of the third
it lets the length pass that is the pattern. Each is a place where the code falls short
of the theorem: `codec_long_id` is a run of the first, and the instance has a text for the
third, see above. The other lengths need no hypothesis: what encode refuses is not claimed to decode.

The argument. `Reads` says that the bytes from an offset on agree with the encoding of
something as far as they go; `Till` is the cursor behind it with its value if they go that
far, and a broken one if they end before. That the one gives the other is shown for a
slice, a number and a tag, and from these for an id, a value and an entry, in the
order of the code (`TakeSliceIs`, `UIntIs`, ..., `RecordIs`). So the round trip and the
refusal of every prefix come out of the same lemmas. A number is `NumberIs`: a
number below `Base` to the w is the sum of its w digits, each times its power, by the lemmas
on sums. The vector and the metadata are lists: the bytes of the first i elements are
those of the first i - 1 and of one more (the lemmas on `FlattenSeq`), and so is the function
that reads them. That the sentinels are told from values is where `Finite` and
`LengthsFit` come in. `DraftInv` says what the builder makes: fields of the ranges that
`FilesAssumption` gives them, and no more entries than `MaxMeta`.

The other two are about files of any number of frames, whole or damaged once: a segment opens
to what was sealed or is refused, and a log recovers from a first part of its frames, which
has all of those in front of the damage. `DamageShows` is what they assume of the checksum, and all
they assume of it. It is an invariant of the run `files`, and without the comparison of the
checksum (the mutant `CrcUnchecked`) it is not one. `StockFits` says that what is written fits its
fields: a record that encode accepts has the lengths of the first theorem and a frame whose
length the frame's header can say, and seqs and the count of a segment's entries are
below what theirs can. The code checks none of these last three: `codec.rs:49` and
`segments.rs:201` cast a usize to u32, and `wal.rs:150` adds one to a u64.

The argument. `IsFile` says that a file is its header and its frames one behind the other, and
`Kept` and `Harm` what one damage does to it; `FileInv`, that the file is this of what was written, is
inductive (`FileInit`, `FileStep`). A frame of which no byte is damaged is read as it was written
(`FrameIs`, `FrameKept`), with the records in it by the first theorem (`RecordFrameReads`), so
decoding comes as far as the damage (`IntactRead`). What is found in the place of the frame
that the damage reaches would end before the damage, by `DamageShows`; but then its length is
the one that was written, and it ends where that frame did (`FrameInside`), which is behind
the damage. So nothing is found there, and decoding ends (`DecodeStops`): the frames found
are a first part of those written. A log
recovers from any; a segment compares their number with its header, and is refused if one is
missing. A damaged header needs no checksum: a count that was changed or zeroed is
another number (`NumberChanged`), a magic or version another prologue (`PrologueChanged`), and
`SegmentRefused` puts these together. `LogHeaderCut` is the log whose creation was cut short.

The proofs use `CodecAssumption`, `FilesAssumption` and the lemmas of `SumProofs`, nothing else.

### The graph index

`HnswProofs` proves for every set of vectors, every distance, every choice of M, M0
and the widths of the beam that `HnswAssumption` allows, and all bounds:

| theorem | statement |
|---|---|
| `TypeCorrect` | `Spec => []TypeOK` |
| `WalkStaysOnLayers` | `Spec => []LayersReached` |
| `EntryStaysOnTop` | `Spec => []EntryOnTop` |
| `DegreesStayBounded` | `Spec => []DegreesBounded` |
| `CutListsStayFull` | `Spec => []CutListsAreFull` |
| `BeamIsCorrect` | `Spec => []BeamKeepsClosest` |
| `NoNodeIsADeadEnd` | `Spec => []NoDeadEnds` |
| `WideBeamFindsAll` | `Spec => []WideBeamIsExact` |

`TypeOK` is in no run of `Hnsw`: the theorem says it for every instance, and the other
properties there stand on it.

The argument comes in layers. `Struct` is about shape and layers: links stay on layers
that both ends have, the walk stands on a node that has its layer, the entry is on the
top layer, and during a beam search the results and candidates are nodes it visited. It
is inductive (`Structure`). `Linked` adds the degrees: while neighbours link back, the
links of the new node on this layer are the chosen ones, those still to do are among
them, and every other missing converse was cut from a full list. It needs `Struct`,
and that a selection has as many elements as its bound and the candidates allow, which
is the lemma about `Selections`. The beam (`Beam`) is the third: the farthest of the results may
go only when a closer one came in, so what was dropped is no closer than what is left.

The last two speak of what a whole series of insertions has built. For `NoDeadEnds`,
`Company` follows the node that is being inserted: on every layer it has done it has a
neighbour, and each of those has one or is about to link back (`Joined`), and of the nodes
in the graph any two on one layer both have neighbours (`Together`). A beam that ends has a result, a
selection from something is not empty, and a cut keeps at least one link, since M is
not 0. For `WideBeamIsExact` the graph is small enough that layer 0 is never cut. Then the
links of layer 0 are symmetric, every node but the first has an older neighbour
(`Grounded`), and a wide beam admits whatever it meets and stops only when all neighbours of what
it has visited are visited (`Explored`). So the set it has visited is closed; the least
node it leaves out would have an older neighbour inside, or be the first one, to which the least
that it has visited leads.

### Filters

`WhereProofs` proves for any integers and floats that `FilterAssumption` allows, those of
the code among them, any strings over any tokens, and filters built from any number of
ranges:

| theorem | statement |
|---|---|
| `ComparisonsMeanWhatTheySay` | `Spec => []ComparisonsMean` |
| `IntegersAreNeverMissed` | `Spec => []NoIntegerMissed` |
| `IntegerRangesTakeExactlyThose` | `Spec => []IntegerRangesAreExact` |
| `NaNStaysLoud` | `Spec => []NaNIsLoud` |

First come the numbers. Every real has a nearest float (`NearestExists`: there are at
most two at the least distance, and of two neighbours one is even), a float is its own
nearest, and rounding keeps the order (`NearestKeepsOrder`), which is why a bound that
is rounded together with the values it bounds loses none of them. A float is beyond
another exactly if it is not before the next one (`NextToFloat`), which is what an
exclusive bound is made of.

Then the way from the string or the builder to the verdict, an invariant of each kind
(`Invariance`). `Reading` follows a single comparison through the calls of the parser:
where the parser is after so many tokens, which frames wait, and that the tree it ends
with is the predicate of the three tokens. `Building` says that the tree of a filter that
was built leans to the left (`Spine`), and that its evaluation at any moment stands at
the filter of the first k predicates, with the conjunctions above waiting on the stack,
or at the k-th predicate with all before it true. So a verdict is an error or a no only
by the predicate that decided.

The proofs use `FilterAssumption`, `WhereAssumption` (numerals and metadata are numbers of
the model, ranges have numbers for bounds) and the library's facts about sequences and
well-founded relations, nothing else.

### What is model-checked only

- `DamageShows` of `Files`, the hypothesis of the two theorems about damaged files. It is so in
  the instance, where no two contents that meet share a checksum, and not for every constant:
  more contents than checksums cannot all have their own.
- `WhereFollowsGrammar`: the grammar is a recursive operator, and so is the tree that the
  parser builds of a whole string.
- `CallsReturn` of `Hnsw` is liveness.

## Not modelled, and what could come next

Not modelled: the polynomial of the CRC, UTF-8, the JSON of the manifest, floating-point
arithmetic and what depends on it (the values of scores, norms in the graph, recall), the
recall report, the benchmarks, `exact_text_top_k` and `tokenize_with_positions`, which no
query uses. Two processes that open one directory are excluded by the code's own
contract ("exactly one writer process; no file locking in v0").

What could come next: that `Where` ends in one verdict per filter and
record, the one its tree has, stated without recursion over the tree.
