---------------------------- MODULE WalRefinement ----------------------------
(***************************************************************************)
(* The write-ahead log implements DurableLog.  The batches are what the    *)
(* loop of open_or_recover (wal.rs) collects from the frames it scans: the *)
(* records since the last Commit frame wait, and the next Commit frame     *)
(* moves them to the recovered ones.  The loop is written here by what it  *)
(* has collected after the first m frames of f.                            *)
(***************************************************************************)
EXTENDS Wal, FiniteSets

(* How many frames decode_frames returns: those before the first torn one. *)
Decoded(f) == CHOOSE n \in 0..Len(f) : Scanned(f, n)

Barriers(f, m) == {i \in 1..m : f[i].kind = "Commit"}

(* The batches complete after m frames. *)
Count(f, m) == Cardinality(Barriers(f, m))

(* The records that wait after m frames: those behind the last barrier. *)
Since(f, m) == CHOOSE c \in 0..m : LastBarrier(f, m, c)
Waiting(f, m) == [i \in 1..(m - Since(f, m)) |-> f[Since(f, m) + i].rec]

(* The k-th barrier moved what waited before it. *)
Closing(f, m, k) == {i \in Barriers(f, m) : Count(f, i) = k}
Barrier(f, m, k) == CHOOSE i \in Closing(f, m, k) : TRUE
Batches(f, m) == [k \in 1..Count(f, m) |-> Waiting(f, Barrier(f, m, k) - 1)]

Promise == INSTANCE DurableLog WITH
    log     <- Batches(file, Decoded(file)),
    stable  <- Count(file, acked),
    pending <- IF Usable THEN Waiting(file, Decoded(file)) ELSE <<>>,
    usable  <- Usable

(* Whatever its recoveries do, the log behaves as DurableLog: batches are  *)
(* atomic, acknowledged ones are never lost, and a record discarded by a   *)
(* recovery or a rollback never comes back under a later commit.           *)
(* (wal.rs: append, commit, open_or_recover)                               *)
ImplementsDurableLog == Promise!Spec
=============================================================================
