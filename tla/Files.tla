------------------------------- MODULE Files -------------------------------
(***************************************************************************)
(* What reads back from the bytes of the files: records as the builder of  *)
(* records.rs makes them, the log as append and commit of wal.rs write it, *)
(* a segment as write_segment of segments.rs writes it, and either file    *)
(* after it was cut short, or a tail of it zeroed, or a byte changed.      *)
(*                                                                         *)
(* Module Wal takes from here that a log damaged anywhere reads as a       *)
(* prefix of its frames, and Store that a segment reads whole or not at    *)
(* all.                                                                    *)
(***************************************************************************)
EXTENDS Codec
LOCAL INSTANCE SequencesExt

CONSTANTS
    BuiltIds, Vectors, Texts, Metas,
                    \* what a client builds records of
    Stock,          \* the records that are written to files
    MaxMeta,        \* bound: metadata entries of a record
    MaxFrames,      \* bound: frames in the log
    MaxBatch,       \* bound: entries of a segment
    MaxSeq          \* bound: and their seqs

ExternalIds ==
    [kind : {"Int"}, v : 0..MaxOf(W64)] \cup [kind : {"Str"}, v : Seq(Byte)]
MetaValues ==
    [kind : {"Int", "Float"}, v : 0..MaxOf(W64)] \cup [kind : {"Bool"}, v : {0, 1}]
        \cup [kind : Bytestrings, v : Seq(Byte)]

ASSUME FilesAssumption ==
    /\ {MaxMeta, MaxFrames, MaxBatch, MaxSeq} \subseteq Nat
    /\ BuiltIds \subseteq ExternalIds
    /\ Vectors \subseteq Seq(0..MaxOf(W32))
    /\ Texts \subseteq Seq(Byte)
    /\ Metas \subseteq [key : Seq(Byte), value : MetaValues]

VARIABLES
    draft,          \* the record being built, or None
    kind,           \* the kind of the file: "none", "segment", "log"
    wrote,          \* history: the entries of a segment, the frames of a log
    bytes,          \* its bytes
    damaged,        \* history: was the file damaged,
    intact          \* and how many leading bytes are as they were written

content == <<kind, wrote, bytes, damaged, intact>>
vars == <<draft, content>>

-----------------------------------------------------------------------------
(* The builder *)

New(id, vector) ==
    /\ kind = "none" /\ draft = None
    /\ draft' = [life |-> "live", id |-> id, vector |-> vector, norm |-> None,
                 text |-> None, meta |-> <<>>]
    /\ UNCHANGED content

Build(r) ==
    /\ draft # None
    /\ draft' = r
    /\ UNCHANGED content

WithNorm == Build([draft EXCEPT !.norm = L2Norm(draft.vector)])
WithText(text) == Build([draft EXCEPT !.text = text])
WithMeta(entry) ==
    /\ draft # None /\ Len(draft.meta) < MaxMeta
    /\ Build([draft EXCEPT !.meta = Append(@, entry)])
AsTombstone == Build([draft EXCEPT !.life = "tombstone"])

-----------------------------------------------------------------------------
(* The files: a magic number, a version, and a count of frames or the      *)
(* first seq.                                                              *)

SEG_MAGIC == 5
WAL_MAGIC == 6
VERSION == 2
FIRST_SEQ == 1
Prologue(magic) == <<magic>> \o LE(VERSION, W16)
HeaderBytes == Prologue(WAL_MAGIC) \o LE(FIRST_SEQ, W64)
SEG_HEADER_LEN == 1 + W16 + W32
WAL_HEADER_LEN == 1 + W16 + W64
After(b, n) == SubSeq(b, n + 1, Len(b))

(* A file appears with these bytes. *)
Written(k, ws, b) ==
    /\ kind' = k
    /\ wrote' = ws
    /\ bytes' = b
    /\ intact' = Len(b)
    /\ UNCHANGED <<draft, damaged>>

EntryPayload(e) == LE(e.seq, W64) \o Encode(e.record)
Increasing(es) == \A i \in 2..Len(es) : es[i - 1].seq < es[i].seq

WriteSegment(es) ==
    /\ kind = "none" /\ draft = None
    /\ Increasing(es)
    /\ \A i \in DOMAIN es : Encodable(es[i].record)
    /\ Written("segment", es,
               Prologue(SEG_MAGIC) \o LE(Len(es), W32)
                   \o FlattenSeq([i \in DOMAIN es |-> EncodeFrame("Record", EntryPayload(es[i]))]))

CreateLog ==
    /\ kind = "none" /\ draft = None
    /\ Written("log", <<>>, HeaderBytes)

(* The next frame of a log that nothing damaged. *)
Extend(frame) ==
    /\ kind = "log" /\ ~damaged
    /\ Len(wrote) < MaxFrames
    /\ Written("log", Append(wrote, frame), bytes \o EncodeFrame(frame.kind, frame.payload))

NextSeq == Len(wrote) + FIRST_SEQ

RecordFrame(e) == [kind |-> "Record", payload |-> EntryPayload(e)]
CommitFrame(seq) == [kind |-> "Commit", payload |-> LE(seq, W64)]

AppendRecord(r) == Encodable(r) /\ Extend(RecordFrame([seq |-> NextSeq, record |-> r]))
Commit == Extend(CommitFrame(NextSeq))

(* One damage: all bytes before the n-th are as they were written. *)
Damage(n, b) ==
    /\ kind # "none" /\ ~damaged
    /\ bytes' = b
    /\ damaged' = TRUE
    /\ intact' = n - 1
    /\ UNCHANGED <<draft, kind, wrote>>

Cut(n) == Damage(n, SubSeq(bytes, 1, n - 1))
Zero(n) == Damage(n, [i \in DOMAIN bytes |-> IF i < n THEN bytes[i] ELSE 0])
Change(n) == \E x \in {0, 1, Base - 1} \ {bytes[n]} : Damage(n, [bytes EXCEPT ![n] = x])

-----------------------------------------------------------------------------
(* Reading *)

HasPrologue(b, magic) == SubSeq(b, 1, 1 + W16) = Prologue(magic)
FrameSeq(frame) == FromLE(SubSeq(frame.payload, 1, W64))
BodyOf(frame) == After(frame.payload, W64)
SeqsIncrease(frames) ==
    /\ \A i \in DOMAIN frames : Len(frames[i].payload) >= W64
    /\ \A i \in 2..Len(frames) : FrameSeq(frames[i - 1]) < FrameSeq(frames[i])

EntryOf(frame) ==
    [seq |-> FrameSeq(frame), record |-> CHOOSE r \in Decode(BodyOf(frame)) : TRUE]

EntriesOf(frames) == [i \in DOMAIN frames |-> EntryOf(frames[i])]

CountUnchecked(b, frames) == TRUE   \* mutant
CountMatches(b, frames) == FromLE(SubSeq(b, 2 + W16, SEG_HEADER_LEN)) = Len(frames)

(* SegmentReader::open: the entries of a segment, or none. *)
FramesOpen(b, frames) ==
    IF /\ CountMatches(b, frames)
       /\ \A i \in DOMAIN frames : frames[i].kind = "Record"
       /\ SeqsIncrease(frames)
       /\ \A i \in DOMAIN frames : Decode(BodyOf(frames[i])) # {}
    THEN {EntriesOf(frames)}
    ELSE {}
WholeFrames(b, read) ==
    IF read.at = Len(b) - SEG_HEADER_LEN THEN FramesOpen(b, read.frames) ELSE {}
SegmentOpen(b) ==
    IF Len(b) >= SEG_HEADER_LEN /\ HasPrologue(b, SEG_MAGIC)
    THEN WholeFrames(b, DecodeFrames(After(b, SEG_HEADER_LEN)))
    ELSE {}

Recovery(records, committed_seq, valid_end) ==
    [records |-> records, committed_seq |-> committed_seq, valid_end |-> valid_end]

(* The recovery of the frames of a log: it ends behind the last Commit. *)
LastCommit(frames) == Max({0} \cup {i \in DOMAIN frames : frames[i].kind = "Commit"})
KeepRecord(kept, frame) == IF frame.kind = "Record" THEN Append(kept, frame) ELSE kept
RecordsOf(frames) ==
    LET upto[i \in 0..Len(frames)] ==
            IF i = 0 THEN <<>> ELSE KeepRecord(upto[i - 1], frames[i])
    IN  upto[Len(frames)]
RecoveryOfCommitted(frames) ==
    Recovery(EntriesOf(RecordsOf(frames)),
             IF frames = <<>> THEN 0 ELSE FrameSeq(Last(frames)),
             WAL_HEADER_LEN + Place(frames, Len(frames)))
RecoveryOf(frames) == RecoveryOfCommitted(SubSeq(frames, 1, LastCommit(frames)))

(* open_or_recover: the recovery of a log, or none if it is refused. *)
LogFramesOpen(start_seq, frames) ==
    IF /\ SeqsIncrease(frames)
       /\ \A i \in DOMAIN frames :
             /\ FrameSeq(frames[i]) >= start_seq
             /\ frames[i].kind = "Record" => Decode(BodyOf(frames[i])) # {}
             /\ frames[i].kind = "Commit" => BodyOf(frames[i]) = <<>>
    THEN {RecoveryOf(frames)}
    ELSE {}
StartSeq(b) == FromLE(SubSeq(b, 2 + W16, WAL_HEADER_LEN))
LogOpen(b) ==
    IF Len(b) < WAL_HEADER_LEN
    THEN IF IsPrefix(b, HeaderBytes) THEN {Recovery(<<>>, 0, WAL_HEADER_LEN)} ELSE {}
    ELSE IF HasPrologue(b, WAL_MAGIC) /\ StartSeq(b) > 0
         THEN LogFramesOpen(StartSeq(b), DecodeFrames(After(b, WAL_HEADER_LEN)).frames)
         ELSE {}

-----------------------------------------------------------------------------
Init ==
    /\ draft = None /\ kind = "none" /\ wrote = <<>> /\ bytes = <<>>
    /\ damaged = FALSE /\ intact = 0

Batches == UNION {[1..n -> [seq : 1..MaxSeq, record : Stock]] : n \in 0..MaxBatch}

Next ==
    \/ \E id \in BuiltIds, vector \in Vectors : New(id, vector)
    \/ WithNorm
    \/ \E text \in Texts : WithText(text)
    \/ \E entry \in Metas : WithMeta(entry)
    \/ AsTombstone
    \/ \E es \in Batches : WriteSegment(es)
    \/ CreateLog
    \/ \E r \in Stock : AppendRecord(r)
    \/ Commit
    \/ \E n \in DOMAIN bytes : Cut(n) \/ Zero(n) \/ Change(n)

Spec == Init /\ [][Next]_vars

-----------------------------------------------------------------------------
DecodesOnlyWhole(r, b) ==
    /\ Decode(b) = {r}
    /\ \A n \in 0..(Len(b) - 1) : Decode(SubSeq(b, 1, n)) = {}

(* What encode accepts, decode gives back, to the last bit, and no part of *)
(* it passes for a record: "schema errors are raised here, before any      *)
(* durable write happens".  (records.rs:247)                               *)
EncodedDecodes ==
    draft # None /\ Encodable(draft) => DecodesOnlyWhole(draft, Encode(draft))

(* A sealed file opens to the entries that were sealed, or not at all,     *)
(* whatever happens to a tail or to a byte of it.  (SegmentReader::open)   *)
SealedWholeOrRefused ==
    kind = "segment" =>
        /\ SegmentOpen(bytes) \subseteq {wrote}
        /\ ~damaged => SegmentOpen(bytes) = {wrote}

(* The frames that were written, and where the first j of them end. *)
Frames == IF kind = "segment" THEN [i \in DOMAIN wrote |-> RecordFrame(wrote[i])] ELSE wrote
HeaderLen == IF kind = "segment" THEN SEG_HEADER_LEN ELSE WAL_HEADER_LEN
EndOf(j) == HeaderLen + Place(Frames, j)

CreationCutShort == wrote = <<>> /\ Len(bytes) = intact

(* The checksum detects the damage: no frame that reaches into it, at the  *)
(* place of a frame that was written, can be read.                         *)
DamageShows ==
    \A i \in DOMAIN wrote : EndOf(i - 1) <= intact =>
        \A frame \in FrameAt(After(bytes, HeaderLen), Place(Frames, i - 1)) :
            EndOf(i - 1) + Size(frame) <= intact

(* A log that is damaged behind its header, or whose creation was cut      *)
(* short in it, is never refused, and recovers as if the frames up to the  *)
(* damage, or some more, had been all: no frame before the damage is lost, *)
(* and none is read that was not written.  (decode_frames,                 *)
(* open_or_recover)                                                        *)
DamagedLogIsPrefix ==
    kind = "log" /\ (intact >= WAL_HEADER_LEN \/ CreationCutShort) =>
        \E j \in 0..Len(wrote) :
            /\ \A i \in 1..Len(wrote) : EndOf(i) <= intact => i <= j
            /\ LogOpen(bytes) = {RecoveryOf(SubSeq(wrote, 1, j))}
=============================================================================
