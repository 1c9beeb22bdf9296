-------------------------------- MODULE Wal --------------------------------
(***************************************************************************)
(* The write-ahead log of crates/engine/src/wal.rs: one file of frames,    *)
(* one open handle, and a recovery that runs at every open.                *)
(*                                                                         *)
(* Bytes are abstracted to frames.  A region that the scan of codec.rs     *)
(* cannot decode (a partial frame, a bad CRC, a hole of zeros) is one      *)
(* "Torn" frame; it ends the scan.  `file' is what a reader of the file    *)
(* sees (the page cache), and its first `synced' frames are the ones an    *)
(* fsync has covered, so that a power loss keeps them.                     *)
(*                                                                         *)
(* A truncation that was not synced is not undone by a later power loss:   *)
(* the state that would give is the one the truncating open started from,  *)
(* since every acknowledgment syncs.                                       *)
(***************************************************************************)
EXTENDS Integers, Sequences

CONSTANTS
    Payload,        \* the records a client appends
    NoPayload,      \* the body of a frame that carries no record
    MaxFrames,      \* bound: frames in the file
    MaxSeq,         \* bound: the highest seq handed out
    RetryCommit     \* may a client call commit() again on the same handle
                    \* after commit() returned a sync error?

ASSUME WalAssumption ==
    /\ NoPayload \notin Payload
    /\ MaxFrames \in Nat
    /\ MaxSeq \in Nat
    /\ RetryCommit \in BOOLEAN

VARIABLES
    file,           \* the frames in the file
    synced,         \* how many of them a power loss is sure to keep
    up,             \* is there an open handle (a Wal value)?
    next_seq,       \* Wal::next_seq
    committed_seq,  \* Wal::committed_seq
    past_end,       \* is the cursor of the handle beyond the end of the file?
    fenced,         \* history: a call on this handle failed in a way that
                    \* obliges the client to drop it and reopen
    acked           \* history: frames covered by the last commit() that
                    \* returned Ok

handle == <<up, next_seq, committed_seq, past_end, fenced>>
vars == <<file, synced, handle, acked>>

(* The first seq of a fresh log; 0 means "no commit yet". *)
FIRST_SEQ == 1

(***************************************************************************)
(* Frames                                                                  *)
(***************************************************************************)
RecordFrame(s, p) == [kind |-> "Record", seq |-> s, rec |-> p]
CommitFrame(s) == [kind |-> "Commit", seq |-> s, rec |-> NoPayload]
TornFrame == [kind |-> "Torn", seq |-> 0, rec |-> NoPayload]

Frame == [kind : {"Record", "Commit", "Torn"}, seq : Nat,
          rec : Payload \cup {NoPayload}]

(***************************************************************************)
(* What the scan of a file f finds.                                        *)
(***************************************************************************)
(* decode_frames returns exactly the first n frames of f. *)
Scanned(f, n) ==
    /\ \A i \in 1..n : f[i].kind # "Torn"
    /\ n < Len(f) => f[n + 1].kind = "Torn"

(* No frame repeats the seq of an earlier one or falls below it: the check *)
(* that makes recovery refuse the file otherwise.                          *)
Monotone(f, n) == \A i, j \in 1..n : i < j => f[i].seq < f[j].seq

FirstBarrier(f, n, c) ==    \* mutant: the scan stops at the first commit
    /\ c <= n
    /\ IF c > 0 THEN f[c].kind = "Commit" ELSE \A i \in 1..n : f[i].kind # "Commit"
    /\ \A i \in 1..(c - 1) : f[i].kind # "Commit"

(* The last commit barrier among the n scanned frames is the c-th frame;   *)
(* c = 0 when the log never committed.                                     *)
LastBarrier(f, n, c) ==
    /\ c <= n
    /\ c > 0 => f[c].kind = "Commit"
    /\ \A i \in (c + 1)..n : f[i].kind # "Commit"

(* Where recovery ends the log, given n scanned frames and the barrier c. *)
SurvivePointLastFrame(n, c) == n    \* mutant: to the last valid frame
SurvivePoint(n, c) == c

(* The seq recovery hands out next: past every frame it scanned, the       *)
(* discarded ones included.                                                *)
SeqAfterReuse(f, n) == IF n = 0 THEN FIRST_SEQ ELSE f[n].seq    \* mutant
SeqAfter(f, n) == IF n = 0 THEN FIRST_SEQ ELSE f[n].seq + 1

(***************************************************************************)
(* Writing                                                                 *)
(***************************************************************************)
(* write_all of one frame at the cursor.  A cursor past the end leaves a   *)
(* hole of zeros first, which no scan can cross.                           *)
Written(fr) == file \o (IF past_end THEN <<TornFrame>> ELSE <<>>) \o <<fr>>

(* write_all failed: nothing, or a part of the frame, is in the file. *)
PartlyWritten ==
    \/ UNCHANGED <<file, past_end>>
    \/ file' = Append(file, TornFrame) /\ past_end' = FALSE

Usable == up /\ ~fenced

InBounds == Len(file) < MaxFrames /\ next_seq <= MaxSeq

AppendRecord(p) ==
    /\ Usable
    /\ InBounds
    /\ file' = Written(RecordFrame(next_seq, p))
    /\ next_seq' = next_seq + 1
    /\ past_end' = FALSE
    /\ UNCHANGED <<synced, up, committed_seq, fenced, acked>>

(* append() returned an error: the handle must be dropped. *)
AppendFail ==
    /\ Usable
    /\ InBounds
    /\ PartlyWritten
    /\ fenced' = TRUE
    /\ UNCHANGED <<synced, up, next_seq, committed_seq, acked>>

(* What the fsync of commit() covers: the whole file. *)
SyncedByCommitNone(f) == synced    \* mutant: acknowledge before the fsync
SyncedByCommit(f) == Len(f)

Commit ==
    /\ Usable
    /\ InBounds
    /\ file' = Written(CommitFrame(next_seq))
    /\ synced' = SyncedByCommit(file')
    /\ acked' = Len(file')
    /\ next_seq' = next_seq + 1
    /\ committed_seq' = next_seq
    /\ past_end' = FALSE
    /\ UNCHANGED <<up, fenced>>

(* commit() returned an error.  When the write failed the handle is in the *)
(* state of AppendFail.  When only the sync failed the barrier is in the   *)
(* file, and the handle still has the next_seq and committed_seq from      *)
(* before the call; a client may take that for "not committed, try again". *)
CommitFail ==
    /\ Usable
    /\ InBounds
    /\ \/ /\ PartlyWritten
          /\ fenced' = TRUE
       \/ /\ file' = Written(CommitFrame(next_seq))
          /\ fenced' = ~RetryCommit
          /\ past_end' = FALSE
    /\ UNCHANGED <<synced, up, next_seq, committed_seq, acked>>

(***************************************************************************)
(* Opening: Wal::open on a closed log, or on the file of a handle that is  *)
(* about to be replaced (Store::rollback).                                 *)
(***************************************************************************)
SyncedByOpenNever(c) == synced    \* mutant: the shorter length is not recorded
SyncedByOpen(c) == IF c < Len(file) THEN c ELSE synced

Open ==
    \E n, c \in 0..Len(file) :
        /\ Scanned(file, n)
        /\ Monotone(file, n)
        /\ LastBarrier(file, n, c)
        /\ file' = SubSeq(file, 1, SurvivePoint(n, c))
        /\ synced' = SyncedByOpen(SurvivePoint(n, c))
        /\ next_seq' = SeqAfter(file, n)
        /\ committed_seq' = (IF c = 0 THEN 0 ELSE file[c].seq)
        /\ up' = TRUE
        /\ past_end' = FALSE
        /\ fenced' = FALSE
        /\ UNCHANGED acked

(* Wal::open returned an I/O error: before it changed anything, or after   *)
(* set_len and before the sync.  An older handle survives, its cursor      *)
(* where it was.                                                           *)
OpenFailEffect ==
    /\ \/ UNCHANGED <<file, synced, past_end>>
       \/ \E n, c \in 0..Len(file) :
            /\ Scanned(file, n)
            /\ Monotone(file, n)
            /\ LastBarrier(file, n, c)
            /\ c < Len(file)
            /\ file' = SubSeq(file, 1, c)
            /\ synced' = (IF synced < c THEN synced ELSE c)
            /\ past_end' = up
    /\ UNCHANGED <<up, next_seq, committed_seq, acked>>

OpenFail == OpenFailEffect /\ fenced' = up

(***************************************************************************)
(* The environment                                                         *)
(***************************************************************************)
NoHandle ==
    /\ up' = FALSE
    /\ next_seq' = FIRST_SEQ
    /\ committed_seq' = 0
    /\ past_end' = FALSE
    /\ fenced' = FALSE

(* The handle is dropped, or its process dies; the page cache survives. *)
ProcessExit ==
    /\ up
    /\ NoHandle
    /\ UNCHANGED <<file, synced, acked>>

(* What a power loss may leave of the file: the synced frames, any number  *)
(* of the frames after them, and possibly a part of the next one.          *)
CrashImages ==
    {SubSeq(file, 1, k) : k \in synced..Len(file)} \cup
    {Append(SubSeq(file, 1, k), TornFrame) : k \in synced..(Len(file) - 1)}

PowerLoss ==
    /\ NoHandle
    /\ file' \in CrashImages
    /\ synced' = Len(file')
    /\ UNCHANGED acked

-----------------------------------------------------------------------------
Init ==
    /\ file = <<>>
    /\ synced = 0
    /\ up = FALSE
    /\ next_seq = FIRST_SEQ
    /\ committed_seq = 0
    /\ past_end = FALSE
    /\ fenced = FALSE
    /\ acked = 0

Next ==
    \/ \E p \in Payload : AppendRecord(p)
    \/ AppendFail
    \/ Commit
    \/ CommitFail
    \/ Open
    \/ OpenFail
    \/ ProcessExit
    \/ PowerLoss

Spec == Init /\ [][Next]_vars

-----------------------------------------------------------------------------
(* The shape of the state; the synced frames are frames of the file, so a  *)
(* recovery that shortens the file also records that it did.               *)
TypeOK ==
    /\ file \in Seq(Frame)
    /\ synced \in 0..Len(file)
    /\ acked \in Nat
    /\ next_seq \in Nat \ {0}
    /\ committed_seq \in Nat
    /\ up \in BOOLEAN
    /\ past_end \in BOOLEAN
    /\ fenced \in BOOLEAN

(* No crash leaves a file that recovery refuses: "non-monotonic seq" is    *)
(* raised for corruption only, never for what the log itself wrote, seqs   *)
(* handed out again after a recovery included.  (open_or_recover)          *)
RecoveryAccepts ==
    \A f \in CrashImages : \E n \in 0..Len(f) : Scanned(f, n) /\ Monotone(f, n)

(* "Once this returns, every record appended before it is durable": in     *)
(* every file a crash can leave, recovery accepts the frames up to a       *)
(* barrier that is not before the last acknowledged one.                   *)
(* (Wal::commit, open_or_recover)                                          *)
AckedRecoverable ==
    acked > 0 =>
        \A f \in CrashImages :
            \E n \in acked..Len(f) :
                /\ Scanned(f, n)
                /\ Monotone(f, n)
                /\ \A c \in 0..n : LastBarrier(f, n, c) => acked <= c

(* No later append, recovery, rollback or crash rewrites or cuts off a     *)
(* frame that commit() acknowledged.  (open_or_recover's set_len)          *)
AckedKept ==
    /\ acked <= acked'
    /\ acked <= Len(file')
    /\ \A i \in 1..acked : file'[i] = file[i]

AckedImmutable == [][AckedKept]_vars
=============================================================================
