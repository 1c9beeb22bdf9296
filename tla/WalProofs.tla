----------------------------- MODULE WalProofs -----------------------------
(***************************************************************************)
(* Proofs about the write-ahead log, for any payloads and any bounds, when *)
(* the client drops the handle after an error of commit(): its properties, *)
(* and that it implements DurableLog.                                      *)
(*                                                                         *)
(* AckedRecoverable is not inductive: that an acknowledged barrier is      *)
(* reached by every scan needs the shape of the whole file (seqs rise, and *)
(* only the last frame can be torn), and that shape is kept because a      *)
(* handle that may still be used knows a seq above every frame and has its *)
(* cursor at the end of a file without torn frames.                        *)
(***************************************************************************)
EXTENDS WalRefinement, TLAPS, FiniteSetTheorems

TornLast(f) == \A i \in 1..Len(f) : f[i].kind = "Torn" => i = Len(f)

Rising(f) == \A i, j \in 1..Len(f) :
                i < j /\ f[j].kind # "Torn" => f[i].seq < f[j].seq

Below(f, s) == \A i \in 1..Len(f) : f[i].kind # "Torn" /\ f[i].seq < s

AckedCovered ==
    /\ acked <= synced
    /\ acked > 0 => file[acked].kind = "Commit"

IInv ==
    /\ TypeOK
    /\ AckedCovered
    /\ TornLast(file)
    /\ Rising(file)
    /\ Usable => ~past_end /\ Below(file, next_seq)

-----------------------------------------------------------------------------
(* Facts about files                                                       *)

LEMMA FrameTypes ==
    /\ \A fr \in Frame : fr.seq \in Nat
    /\ TornFrame \in Frame /\ TornFrame.kind = "Torn"
    /\ \A s \in Nat : CommitFrame(s) \in Frame
                      /\ CommitFrame(s).kind = "Commit" /\ CommitFrame(s).seq = s
    /\ \A s \in Nat, p \in Payload :
            RecordFrame(s, p) \in Frame
            /\ RecordFrame(s, p).kind = "Record" /\ RecordFrame(s, p).seq = s
  BY DEF TornFrame, CommitFrame, RecordFrame, Frame

LEMMA PrefixFacts ==
  ASSUME NEW f \in Seq(Frame), NEW c \in 0..Len(f)
  PROVE  /\ SubSeq(f, 1, c) \in Seq(Frame)
         /\ Len(SubSeq(f, 1, c)) = c
         /\ \A i \in 1..c : SubSeq(f, 1, c)[i] = f[i]
  OBVIOUS

(* A prefix of a well-shaped file is well shaped. *)
LEMMA PrefixShape ==
  ASSUME NEW f \in Seq(Frame), NEW c \in 0..Len(f), TornLast(f), Rising(f)
  PROVE  TornLast(SubSeq(f, 1, c)) /\ Rising(SubSeq(f, 1, c))
  BY PrefixFacts DEF TornLast, Rising

(* So is one with a torn frame after it, when it has none itself. *)
LEMMA TornShape ==
  ASSUME NEW f \in Seq(Frame), NEW c \in 0..Len(f), TornLast(f), Rising(f),
         \A i \in 1..c : f[i].kind # "Torn",
         NEW g \in Seq(Frame), Len(g) = c + 1,
         \A i \in 1..c : g[i] = f[i], g[c + 1] = TornFrame
  PROVE  TornLast(g) /\ Rising(g)
  <1>1. \A i \in 1..Len(g) : i \in 1..c \/ i = c + 1
    OBVIOUS
  <1>2. g[c + 1].kind = "Torn"
    BY DEF TornFrame
  <1>3. TornLast(g)
    BY <1>1 DEF TornLast
  <1>4. Rising(g)
    BY <1>1, <1>2 DEF Rising
  <1> QED
    BY <1>3, <1>4

(* And one with a frame of a new seq after it. *)
LEMMA GrownShape ==
  ASSUME NEW f \in Seq(Frame), NEW s \in Nat, Below(f, s), Rising(f),
         NEW fr \in Frame, fr.kind # "Torn", fr.seq = s,
         NEW g \in Seq(Frame), Len(g) = Len(f) + 1,
         \A i \in 1..Len(f) : g[i] = f[i], g[Len(f) + 1] = fr
  PROVE  TornLast(g) /\ Rising(g) /\ Below(g, s + 1)
  <1>1. \A i \in 1..Len(f) : g[i].kind # "Torn" /\ g[i].seq < s
    BY DEF Below
  <1>2. \A i \in 1..Len(g) : i \in 1..Len(f) \/ i = Len(f) + 1
    OBVIOUS
  <1>3. Below(g, s + 1)
    <2>1. \A i \in 1..Len(f) : f[i].seq \in Nat
      <3>1. \A i \in 1..Len(f) : f[i] \in Frame
        OBVIOUS
      <3> QED
        BY <3>1, FrameTypes
    <2> QED
      BY <1>1, <1>2, <2>1 DEF Below
  <1>4. TornLast(g)
    BY <1>3 DEF TornLast, Below
  <1>5. Rising(g)
    <2> SUFFICES ASSUME NEW i \in 1..Len(g), NEW j \in 1..Len(g), i < j
                 PROVE  g[i].seq < g[j].seq
      BY DEF Rising
    <2>1. i \in 1..Len(f)
      BY <1>2
    <2>2. CASE j = Len(f) + 1
      BY <1>1, <2>1, <2>2
    <2>3. CASE j \in 1..Len(f)
      BY <1>1, <2>1, <2>3 DEF Rising
    <2> QED
      BY <1>2, <2>2, <2>3
  <1> QED
    BY <1>3, <1>4, <1>5

(* What Written adds when the cursor is at the end of the file. *)
LEMMA WrittenFacts ==
  ASSUME TypeOK, ~past_end, NEW fr \in Frame
  PROVE  /\ Written(fr) \in Seq(Frame)
         /\ Len(Written(fr)) = Len(file) + 1
         /\ \A i \in 1..Len(file) : Written(fr)[i] = file[i]
         /\ Written(fr)[Len(file) + 1] = fr
  <1>1. Written(fr) = file \o <<>> \o <<fr>>
    BY DEF Written
  <1>2. file \in Seq(Frame)
    BY DEF TypeOK
  <1>3. file \o <<>> = file
    BY <1>2
  <1> QED
    BY <1>1, <1>2, <1>3

-----------------------------------------------------------------------------
(* The initial state, and the actions one by one.  The definitions of the  *)
(* invariant's conjuncts are expanded only where an action disturbs them.  *)

Flags == up \in BOOLEAN /\ past_end \in BOOLEAN /\ fenced \in BOOLEAN

Numbers ==
    /\ file \in Seq(Frame)
    /\ synced \in 0..Len(file)
    /\ acked \in Nat
    /\ next_seq \in Nat \ {0}
    /\ committed_seq \in Nat

LEMMA TypeSplit == (TypeOK <=> Flags /\ Numbers) /\ (TypeOK' <=> Flags' /\ Numbers')
  BY DEF TypeOK, Flags, Numbers

LEMMA InitIInv == Init => IInv
  <1> SUFFICES ASSUME Init PROVE IInv
    OBVIOUS
  <1>1. TypeOK
    <2>1. Numbers
      BY DEF Init, Numbers, FIRST_SEQ
    <2>2. Flags
      BY DEF Init, Flags
    <2> QED
      BY <2>1, <2>2, TypeSplit
  <1>2. TornLast(file) /\ Rising(file)
    BY DEF Init, TornLast, Rising
  <1> QED
    BY <1>1, <1>2 DEF Init, IInv, AckedCovered, Usable

(* The acknowledged frames are not torn. *)
LEMMA AckedNotTorn ==
  ASSUME IInv
  PROVE  \A i \in 1..acked : file[i].kind # "Torn"
  BY DEF IInv, TypeOK, AckedCovered, TornLast

(* In a file with no torn frame, and in any file up to its torn frame, a   *)
(* scan reaches every acknowledged frame, and the barrier it finds is not  *)
(* before the acknowledged one.                                            *)
LEMMA BarrierCoversAcked ==
  ASSUME IInv, NEW n \in 0..Len(file), NEW c \in 0..Len(file),
         Scanned(file, n), LastBarrier(file, n, c)
  PROVE  acked <= n /\ acked <= c /\ c <= n
  <1>1. acked <= n
    BY AckedNotTorn DEF IInv, TypeOK, AckedCovered, Scanned
  <1>2. acked > 0 => file[acked].kind = "Commit"
    BY DEF IInv, AckedCovered
  <1> QED
    BY <1>1, <1>2 DEF LastBarrier, IInv, TypeOK

LEMMA AppendRecordStep ==
  ASSUME IInv, NEW p \in Payload, AppendRecord(p)
  PROVE  IInv' /\ AckedKept
  <1> DEFINE fr == RecordFrame(next_seq, p)
  <1>1. TypeOK /\ ~past_end /\ Below(file, next_seq) /\ Rising(file)
    BY DEF IInv, AppendRecord
  <1>2. fr \in Frame /\ fr.kind # "Torn" /\ fr.seq = next_seq
    BY <1>1, FrameTypes DEF TypeOK
  <1>3. /\ file' \in Seq(Frame)
        /\ Len(file') = Len(file) + 1
        /\ \A i \in 1..Len(file) : file'[i] = file[i]
        /\ file'[Len(file) + 1] = fr
    BY <1>1, <1>2, WrittenFacts DEF AppendRecord
  <1>4. TornLast(file') /\ Rising(file') /\ Below(file', next_seq')
    <2>1. file \in Seq(Frame) /\ next_seq \in Nat /\ next_seq' = next_seq + 1
      BY <1>1 DEF TypeOK, AppendRecord
    <2> HIDE DEF fr
    <2> QED
      BY <1>1, <1>2, <1>3, <2>1, GrownShape
  <1>5. TypeOK'
    <2>1. Numbers'
      BY <1>1, <1>3 DEF TypeOK, Numbers, AppendRecord
    <2>2. Flags'
      BY <1>1 DEF TypeOK, Flags, AppendRecord
    <2> QED
      BY <2>1, <2>2, TypeSplit
  <1>6. AckedCovered' /\ AckedKept
    BY <1>1, <1>3 DEF AppendRecord, AckedCovered, AckedKept, IInv, TypeOK
  <1> QED
    BY <1>4, <1>5, <1>6 DEF IInv, AppendRecord

(* A partial frame at the end of a file without torn frames: the invariant *)
(* holds of the file, and the handle is fenced.                            *)
LEMMA PartlyWrittenShape ==
  ASSUME IInv, Usable, PartlyWritten
  PROVE  /\ file' \in Seq(Frame) /\ Len(file) <= Len(file')
         /\ \A i \in 1..Len(file) : file'[i] = file[i]
         /\ TornLast(file') /\ Rising(file')
         /\ past_end' \in BOOLEAN
  <1>1. file \in Seq(Frame) /\ past_end \in BOOLEAN /\ TornFrame \in Frame
    BY FrameTypes DEF IInv, TypeOK
  <1>2. CASE UNCHANGED <<file, past_end>>
    BY <1>1, <1>2 DEF IInv
  <1>3. CASE file' = Append(file, TornFrame) /\ past_end' = FALSE
    <2>1. /\ file' \in Seq(Frame) /\ Len(file') = Len(file) + 1
          /\ \A i \in 1..Len(file) : file'[i] = file[i]
          /\ file'[Len(file) + 1] = TornFrame
      BY <1>1, <1>3
    <2>2. \A i \in 1..Len(file) : file[i].kind # "Torn"
      BY DEF IInv, Below
    <2>3. TornLast(file') /\ Rising(file')
      BY <1>1, <2>1, <2>2, TornShape DEF IInv
    <2>4. past_end' \in BOOLEAN
      BY <1>3
    <2> QED
      BY <1>1, <2>1, <2>3, <2>4
  <1> QED
    BY <1>2, <1>3 DEF PartlyWritten

LEMMA AppendFailStep ==
  ASSUME IInv, AppendFail
  PROVE  IInv' /\ AckedKept
  <1>1. /\ file' \in Seq(Frame) /\ Len(file) <= Len(file')
        /\ \A i \in 1..Len(file) : file'[i] = file[i]
        /\ TornLast(file') /\ Rising(file')
        /\ past_end' \in BOOLEAN
    BY PartlyWrittenShape DEF AppendFail
  <1>2. TypeOK'
    <2>1. Numbers'
      BY <1>1 DEF IInv, TypeOK, Numbers, AppendFail
    <2>2. Flags'
      BY <1>1 DEF IInv, TypeOK, Flags, AppendFail
    <2> QED
      BY <2>1, <2>2, TypeSplit
  <1>3. AckedCovered' /\ AckedKept
    BY <1>1 DEF IInv, TypeOK, AckedCovered, AckedKept, AppendFail
  <1> QED
    BY <1>1, <1>2, <1>3 DEF IInv, Usable, AppendFail

(* The frame a commit writes, whether or not it reports success. *)
LEMMA BarrierWritten ==
  ASSUME IInv, Usable, file' = Written(CommitFrame(next_seq))
  PROVE  /\ file' \in Seq(Frame)
         /\ Len(file') = Len(file) + 1
         /\ \A i \in 1..Len(file) : file'[i] = file[i]
         /\ file'[Len(file) + 1].kind = "Commit"
         /\ TornLast(file') /\ Rising(file') /\ Below(file', next_seq + 1)
  <1> DEFINE fr == CommitFrame(next_seq)
  <1>1. TypeOK /\ ~past_end /\ Below(file, next_seq) /\ Rising(file)
    BY DEF IInv
  <1>2. file \in Seq(Frame) /\ next_seq \in Nat
    BY <1>1 DEF TypeOK
  <1>3. fr \in Frame /\ fr.kind = "Commit" /\ fr.kind # "Torn" /\ fr.seq = next_seq
    BY <1>2, FrameTypes
  <1>4. file' = Written(fr)
    OBVIOUS
  <1> HIDE DEF fr
  <1>5. /\ file' \in Seq(Frame)
        /\ Len(file') = Len(file) + 1
        /\ \A i \in 1..Len(file) : file'[i] = file[i]
        /\ file'[Len(file) + 1] = fr
    BY <1>1, <1>3, <1>4, WrittenFacts
  <1>6. TornLast(file') /\ Rising(file') /\ Below(file', next_seq + 1)
    BY <1>1, <1>2, <1>3, <1>5, GrownShape
  <1> QED
    BY <1>3, <1>5, <1>6

LEMMA CommitStep ==
  ASSUME IInv, Commit
  PROVE  IInv' /\ AckedKept
  <1>1. /\ file' \in Seq(Frame)
        /\ Len(file') = Len(file) + 1
        /\ \A i \in 1..Len(file) : file'[i] = file[i]
        /\ file'[Len(file) + 1].kind = "Commit"
        /\ TornLast(file') /\ Rising(file') /\ Below(file', next_seq + 1)
    BY BarrierWritten DEF Commit
  <1>2. acked' = Len(file') /\ synced' = Len(file')
    BY DEF Commit, SyncedByCommit
  <1>3. TypeOK'
    <2>1. Numbers'
      BY <1>1, <1>2 DEF IInv, TypeOK, Numbers, Commit
    <2>2. Flags'
      BY DEF IInv, TypeOK, Flags, Commit
    <2> QED
      BY <2>1, <2>2, TypeSplit
  <1>4. AckedCovered' /\ AckedKept
    BY <1>1, <1>2 DEF IInv, TypeOK, AckedCovered, AckedKept
  <1> QED
    BY <1>1, <1>3, <1>4 DEF IInv, Usable, Commit

LEMMA CommitFailStep ==
  ASSUME ~RetryCommit, IInv, CommitFail
  PROVE  IInv' /\ AckedKept
  <1>1. /\ file' \in Seq(Frame) /\ Len(file) <= Len(file')
        /\ \A i \in 1..Len(file) : file'[i] = file[i]
        /\ TornLast(file') /\ Rising(file')
        /\ past_end' \in BOOLEAN
    <2>1. CASE PartlyWritten
      BY <2>1, PartlyWrittenShape DEF CommitFail
    <2>2. CASE file' = Written(CommitFrame(next_seq)) /\ past_end' = FALSE
      <3>1. Usable
        BY DEF CommitFail
      <3>2. Len(file) \in Nat
        BY DEF IInv, TypeOK
      <3>3. past_end' \in BOOLEAN
        BY <2>2
      <3> QED
        BY <2>2, <3>1, <3>2, <3>3, BarrierWritten
    <2> QED
      BY <2>1, <2>2 DEF CommitFail
  <1>2. fenced' = TRUE
    BY DEF CommitFail
  <1>3. TypeOK'
    <2>1. Numbers'
      BY <1>1 DEF IInv, TypeOK, Numbers, CommitFail
    <2>2. Flags'
      BY <1>1, <1>2 DEF IInv, TypeOK, Flags, CommitFail
    <2> QED
      BY <2>1, <2>2, TypeSplit
  <1>4. AckedCovered' /\ AckedKept
    BY <1>1 DEF IInv, TypeOK, AckedCovered, AckedKept, CommitFail
  <1> QED
    BY <1>1, <1>2, <1>3, <1>4 DEF IInv, Usable

(* Cutting the file at the barrier a scan finds keeps every acknowledged   *)
(* frame and leaves no torn one.                                           *)
LEMMA CutAtBarrier ==
  ASSUME IInv, NEW n \in 0..Len(file), NEW c \in 0..Len(file),
         Scanned(file, n), LastBarrier(file, n, c), file' = SubSeq(file, 1, c)
  PROVE  /\ file' \in Seq(Frame) /\ Len(file') = c /\ acked <= c /\ c <= n
         /\ \A i \in 1..c : file'[i] = file[i] /\ file'[i].kind # "Torn"
         /\ TornLast(file') /\ Rising(file')
  <1>1. file \in Seq(Frame) /\ TornLast(file) /\ Rising(file)
    BY DEF IInv, TypeOK
  <1>2. acked <= c /\ c <= n
    BY BarrierCoversAcked
  <1>3. \A i \in 1..c : file[i].kind # "Torn"
    BY <1>2 DEF Scanned
  <1> QED
    BY <1>1, <1>2, <1>3, PrefixFacts, PrefixShape

LEMMA OpenStep ==
  ASSUME IInv, Open
  PROVE  IInv' /\ AckedKept
  <1>1. PICK n \in 0..Len(file), c \in 0..Len(file) :
            /\ Scanned(file, n)
            /\ Monotone(file, n)
            /\ LastBarrier(file, n, c)
            /\ file' = SubSeq(file, 1, c)
            /\ synced' = (IF c < Len(file) THEN c ELSE synced)
            /\ next_seq' = SeqAfter(file, n)
            /\ committed_seq' = (IF c = 0 THEN 0 ELSE file[c].seq)
            /\ up' = TRUE
            /\ past_end' = FALSE
            /\ fenced' = FALSE
            /\ acked' = acked
    BY DEF Open, SurvivePoint, SyncedByOpen
  <1>2. /\ file' \in Seq(Frame) /\ Len(file') = c /\ acked <= c /\ c <= n
        /\ \A i \in 1..c : file'[i] = file[i] /\ file'[i].kind # "Torn"
        /\ TornLast(file') /\ Rising(file')
    BY <1>1, CutAtBarrier
  <1>3. \A i \in 1..Len(file) : file[i].seq \in Nat
    <2>1. \A i \in 1..Len(file) : file[i] \in Frame
      BY DEF IInv, TypeOK
    <2> QED
      BY <2>1, FrameTypes
  <1>4. Below(file', next_seq')
    <2> SUFFICES ASSUME NEW i \in 1..c
                 PROVE  file[i].seq < SeqAfter(file, n)
      BY <1>1, <1>2 DEF Below
    <2>1. n # 0 /\ i <= n /\ n \in 1..Len(file) /\ i \in 1..Len(file)
      BY <1>2
    <2>2. file[i].seq <= file[n].seq
      BY <1>1, <1>3, <2>1 DEF Monotone
    <2> QED
      BY <1>3, <2>1, <2>2 DEF SeqAfter
  <1>5. TypeOK'
    <2>1. next_seq' \in Nat \ {0} /\ committed_seq' \in Nat
      BY <1>1, <1>3 DEF SeqAfter, FIRST_SEQ
    <2>2. Numbers'
      BY <1>1, <1>2, <2>1 DEF IInv, TypeOK, Numbers
    <2>3. Flags'
      BY <1>1 DEF Flags
    <2> QED
      BY <2>2, <2>3, TypeSplit
  <1>6. AckedCovered' /\ AckedKept
    BY <1>1, <1>2 DEF IInv, TypeOK, AckedCovered, AckedKept
  <1> QED
    BY <1>1, <1>2, <1>4, <1>5, <1>6 DEF IInv

LEMMA OpenFailStep ==
  ASSUME IInv, OpenFail
  PROVE  IInv' /\ AckedKept
  <1>1. /\ fenced' = up /\ up' = up /\ next_seq' = next_seq
        /\ committed_seq' = committed_seq /\ acked' = acked
    BY DEF OpenFail, OpenFailEffect
  <1>2. /\ Numbers' /\ TornLast(file') /\ Rising(file')
        /\ AckedCovered' /\ AckedKept /\ past_end' \in BOOLEAN
    <2>1. CASE UNCHANGED <<file, synced, past_end>>
      <3>1. Numbers'
        BY <1>1, <2>1 DEF IInv, TypeOK, Numbers
      <3>2. TornLast(file') /\ Rising(file') /\ AckedCovered' /\ AckedKept
        BY <1>1, <2>1 DEF IInv, TypeOK, AckedCovered, AckedKept
      <3> QED
        BY <2>1, <3>1, <3>2 DEF IInv, TypeOK
    <2>2. ASSUME NEW n \in 0..Len(file), NEW c \in 0..Len(file),
                 Scanned(file, n), LastBarrier(file, n, c),
                 file' = SubSeq(file, 1, c),
                 synced' = (IF synced < c THEN synced ELSE c), past_end' = up
          PROVE  /\ Numbers' /\ TornLast(file') /\ Rising(file')
                 /\ AckedCovered' /\ AckedKept /\ past_end' \in BOOLEAN
      <3>1. /\ file' \in Seq(Frame) /\ Len(file') = c /\ acked <= c
            /\ \A i \in 1..c : file'[i] = file[i]
            /\ TornLast(file') /\ Rising(file')
        BY <2>2, CutAtBarrier
      <3>2. Numbers'
        BY <1>1, <2>2, <3>1 DEF IInv, TypeOK, Numbers
      <3>3. AckedCovered' /\ AckedKept
        BY <1>1, <2>2, <3>1 DEF IInv, TypeOK, AckedCovered, AckedKept
      <3>4. past_end' \in BOOLEAN
        BY <2>2 DEF IInv, TypeOK
      <3> QED
        BY <3>1, <3>2, <3>3, <3>4
    <2> QED
      BY <2>1, <2>2 DEF OpenFail, OpenFailEffect
  <1>3. TypeOK'
    <2>1. Flags'
      BY <1>1, <1>2 DEF IInv, TypeOK, Flags
    <2> QED
      BY <1>2, <2>1, TypeSplit
  <1>4. ~Usable'
    BY <1>1 DEF Usable
  <1> QED
    BY <1>2, <1>3, <1>4 DEF IInv

LEMMA ProcessExitStep ==
  ASSUME IInv, ProcessExit
  PROVE  IInv' /\ AckedKept
  <1>1. TypeOK'
    <2>1. Numbers'
      BY DEF IInv, TypeOK, Numbers, ProcessExit, NoHandle, FIRST_SEQ
    <2>2. Flags'
      BY DEF Flags, ProcessExit, NoHandle
    <2> QED
      BY <2>1, <2>2, TypeSplit
  <1> QED
    BY <1>1 DEF IInv, TypeOK, AckedCovered, AckedKept, Usable, ProcessExit, NoHandle

(* Every crash image is a well-shaped file that keeps the acknowledged     *)
(* frames.                                                                 *)
LEMMA ImageShape ==
  ASSUME IInv, NEW f \in CrashImages
  PROVE  /\ f \in Seq(Frame) /\ acked <= Len(f) /\ TornLast(f) /\ Rising(f)
         /\ \A i \in 1..acked : f[i] = file[i]
  <1>1. /\ file \in Seq(Frame) /\ TornLast(file) /\ Rising(file)
        /\ synced \in 0..Len(file) /\ acked \in Nat /\ acked <= synced
    BY DEF IInv, TypeOK, AckedCovered
  <1>2. ASSUME NEW k \in synced..Len(file), f = SubSeq(file, 1, k)
        PROVE  /\ f \in Seq(Frame) /\ acked <= Len(f) /\ TornLast(f) /\ Rising(f)
               /\ \A i \in 1..acked : f[i] = file[i]
    BY <1>1, <1>2, PrefixFacts, PrefixShape
  <1>3. ASSUME NEW k \in synced..(Len(file) - 1),
               f = Append(SubSeq(file, 1, k), TornFrame)
        PROVE  /\ f \in Seq(Frame) /\ acked <= Len(f) /\ TornLast(f) /\ Rising(f)
               /\ \A i \in 1..acked : f[i] = file[i]
    <2>1. k \in 0..Len(file) /\ TornFrame \in Frame
      BY <1>1, FrameTypes
    <2>2. /\ SubSeq(file, 1, k) \in Seq(Frame) /\ Len(SubSeq(file, 1, k)) = k
          /\ \A i \in 1..k : SubSeq(file, 1, k)[i] = file[i]
      BY <1>1, <2>1, PrefixFacts
    <2>3. /\ f \in Seq(Frame) /\ Len(f) = k + 1
          /\ \A i \in 1..k : f[i] = file[i]
          /\ f[k + 1] = TornFrame
      BY <1>3, <2>1, <2>2
    <2>4. \A i \in 1..k : file[i].kind # "Torn"
      BY <1>1 DEF TornLast
    <2>5. TornLast(f) /\ Rising(f)
      BY <1>1, <2>1, <2>3, <2>4, TornShape
    <2> QED
      BY <1>1, <2>3, <2>5
  <1> QED
    BY <1>2, <1>3 DEF CrashImages

LEMMA PowerLossStep ==
  ASSUME IInv, PowerLoss
  PROVE  IInv' /\ AckedKept
  <1>1. /\ file' \in Seq(Frame) /\ acked <= Len(file')
        /\ TornLast(file') /\ Rising(file')
        /\ \A i \in 1..acked : file'[i] = file[i]
    BY ImageShape DEF PowerLoss
  <1>2. TypeOK'
    <2>1. Numbers'
      BY <1>1 DEF IInv, TypeOK, Numbers, PowerLoss, NoHandle, FIRST_SEQ
    <2>2. Flags'
      BY DEF Flags, PowerLoss, NoHandle
    <2> QED
      BY <2>1, <2>2, TypeSplit
  <1>3. AckedCovered' /\ AckedKept
    BY <1>1 DEF IInv, TypeOK, AckedCovered, AckedKept, PowerLoss
  <1> QED
    BY <1>1, <1>2, <1>3 DEF IInv, Usable, PowerLoss, NoHandle

LEMMA NextStep ==
  ASSUME ~RetryCommit, IInv, [Next]_vars
  PROVE  IInv' /\ AckedKept
  <1>1. ASSUME NEW p \in Payload, AppendRecord(p)
        PROVE  IInv' /\ AckedKept
    BY <1>1, AppendRecordStep
  <1>2. CASE AppendFail
    BY <1>2, AppendFailStep
  <1>3. CASE Commit
    BY <1>3, CommitStep
  <1>4. CASE CommitFail
    BY <1>4, CommitFailStep
  <1>5. CASE Open
    BY <1>5, OpenStep
  <1>6. CASE OpenFail
    BY <1>6, OpenFailStep
  <1>7. CASE ProcessExit
    BY <1>7, ProcessExitStep
  <1>8. CASE PowerLoss
    BY <1>8, PowerLossStep
  <1>9. CASE UNCHANGED vars
    <2>1. IInv'
      BY <1>9 DEF vars, handle, IInv, TypeOK, AckedCovered, Usable
    <2>2. AckedKept
      BY <1>9 DEF vars, handle, IInv, TypeOK, AckedCovered, AckedKept
    <2> QED
      BY <2>1, <2>2
  <1> QED
    BY <1>1, <1>2, <1>3, <1>4, <1>5, <1>6, <1>7, <1>8, <1>9 DEF Next

(* The invariant, and with it the shape of the file, holds throughout. *)
THEOREM Invariance == ASSUME ~RetryCommit PROVE Spec => []IInv
  <1>1. Init => IInv
    BY InitIInv
  <1>2. IInv /\ [Next]_vars => IInv'
    BY NextStep
  <1> QED
    BY <1>1, <1>2, PTL DEF Spec

(* The variables keep their types (wal.rs: every function). *)
THEOREM TypeCorrect == ASSUME ~RetryCommit PROVE Spec => []TypeOK
  <1>1. IInv => TypeOK
    BY DEF IInv
  <1> QED
    BY <1>1, Invariance, PTL

(* How far a scan of a well-shaped file gets: to its end, or to the torn   *)
(* frame that ends it.                                                     *)
LEMMA ScanExists ==
  ASSUME NEW f \in Seq(Frame), TornLast(f), Rising(f),
         NEW a \in 0..Len(f), a > 0 => f[a].kind # "Torn"
  PROVE  \E n \in a..Len(f) : Scanned(f, n) /\ Monotone(f, n)
  <1>1. Len(f) \in Nat
    OBVIOUS
  <1>2. CASE \A i \in 1..Len(f) : f[i].kind # "Torn"
    <2>1. Scanned(f, Len(f))
      BY <1>1, <1>2 DEF Scanned
    <2>2. Monotone(f, Len(f))
      BY <1>1, <1>2 DEF Monotone, Rising
    <2> QED
      BY <1>1, <2>1, <2>2
  <1>3. CASE \E i \in 1..Len(f) : f[i].kind = "Torn"
    <2> DEFINE n == Len(f) - 1
    <2>1. Len(f) > 0 /\ f[Len(f)].kind = "Torn"
      BY <1>1, <1>3 DEF TornLast
    <2>2. n \in a..Len(f) /\ n \in 0..Len(f)
      BY <1>1, <2>1
    <2>3. \A i \in 1..n : f[i].kind # "Torn"
      BY <1>1 DEF TornLast
    <2>4. Scanned(f, n)
      BY <1>1, <2>1, <2>3 DEF Scanned
    <2>5. Monotone(f, n)
      BY <1>1, <2>3 DEF Monotone, Rising
    <2> QED
      BY <2>2, <2>4, <2>5
  <1> QED
    BY <1>2, <1>3

(* No crash leaves a file that recovery refuses. (open_or_recover) *)
THEOREM RecoveryNeverRefuses == ASSUME ~RetryCommit PROVE Spec => []RecoveryAccepts
  <1>1. IInv => RecoveryAccepts
    <2> SUFFICES ASSUME IInv, NEW f \in CrashImages
                 PROVE  \E n \in 0..Len(f) : Scanned(f, n) /\ Monotone(f, n)
      BY DEF RecoveryAccepts
    <2>1. f \in Seq(Frame) /\ TornLast(f) /\ Rising(f)
      BY ImageShape
    <2>2. 0 \in 0..Len(f)
      BY <2>1
    <2> QED
      BY <2>1, <2>2, ScanExists
  <1> QED
    BY <1>1, Invariance, PTL

(* Every acknowledged frame is recovered from every file a crash can       *)
(* leave. (commit, open_or_recover)                                        *)
THEOREM AckedSurvives == ASSUME ~RetryCommit PROVE Spec => []AckedRecoverable
  <1>1. IInv => AckedRecoverable
    <2> SUFFICES ASSUME IInv, acked > 0, NEW f \in CrashImages
                 PROVE  \E n \in acked..Len(f) :
                            /\ Scanned(f, n)
                            /\ Monotone(f, n)
                            /\ \A c \in 0..n : LastBarrier(f, n, c) => acked <= c
      BY DEF AckedRecoverable
    <2>1. acked \in Nat /\ file[acked].kind = "Commit"
      BY DEF IInv, TypeOK, AckedCovered
    <2>2. /\ f \in Seq(Frame) /\ acked <= Len(f) /\ TornLast(f) /\ Rising(f)
          /\ \A i \in 1..acked : f[i] = file[i]
      BY ImageShape
    <2>3. f[acked].kind = "Commit"
      BY <2>1, <2>2
    <2>4. PICK n \in acked..Len(f) : Scanned(f, n) /\ Monotone(f, n)
      BY <2>1, <2>2, <2>3, ScanExists
    <2>5. ASSUME NEW c \in 0..n, LastBarrier(f, n, c)
          PROVE  acked <= c
      BY <2>1, <2>2, <2>3, <2>4, <2>5 DEF LastBarrier
    <2> QED
      BY <2>4, <2>5
  <1> QED
    BY <1>1, Invariance, PTL

(* No step rewrites or cuts off an acknowledged frame. (open_or_recover) *)
THEOREM AckedNeverChanges == ASSUME ~RetryCommit PROVE Spec => AckedImmutable
  <1>1. IInv /\ [Next]_vars => [AckedKept]_vars
    BY NextStep
  <1> QED
    BY <1>1, Invariance, PTL DEF Spec, AckedImmutable

-----------------------------------------------------------------------------
(* The refinement.  What is left is how the batches of a file change with  *)
(* it: a record or a barrier behind the scanned frames lengthens what      *)
(* waits, or the batches, by one; a file cut at m frames holds the batches *)
(* complete after m frames, and no others.                                 *)

(* A set of positions has a last one. *)
LEMMA LastPosition ==
  ASSUME NEW n \in Nat, NEW S \in SUBSET (1..n), S # {}
  PROVE  \E m \in S : \A k \in S : k <= m
  <1> DEFINE Less == OpToRel(<, Nat)
             T == {x \in Nat : n - x \in S}
  <1>1. \A x, y \in Nat : <<x, y>> \in Less <=> x < y
    BY DEF OpToRel
  <1>2. IsWellFoundedOn(Less, Nat)
    BY NatLessThanWellFounded, Zenon
  <1>3. \A k \in S : n - k \in T
    <2> SUFFICES ASSUME NEW k \in S PROVE n - k \in T
      OBVIOUS
    <2>1. k \in 1..n /\ n - k \in Nat /\ n - (n - k) = k
      OBVIOUS
    <2> QED
      BY <2>1
  <1>4. T \subseteq Nat /\ T # {}
    BY <1>3
  <1> HIDE DEF Less
  <1>5. PICK x \in T : \A y \in T : ~(<<y, x>> \in Less)
    BY <1>2, <1>4, WFMin
  <1>6. \A y \in T : x <= y
    <2> SUFFICES ASSUME NEW y \in T PROVE x <= y
      OBVIOUS
    <2>1. x \in Nat /\ y \in Nat
      OBVIOUS
    <2>2. ~(y < x)
      BY <1>1, <1>5, <2>1
    <2> QED
      BY <2>1, <2>2
  <1>7. n - x \in S
    OBVIOUS
  <1>8. \A k \in S : k <= n - x
    BY <1>3, <1>4, <1>6
  <1> QED
    BY <1>7, <1>8

(* And a first one. *)
LEMMA FirstPosition ==
  ASSUME NEW n \in Nat, NEW S \in SUBSET (1..n), S # {}
  PROVE  \E m \in S : \A k \in S : m <= k
  <1> DEFINE T == {x \in 1..n : n + 1 - x \in S}
  <1>1. \A k \in S : k \in 1..n /\ n + 1 - k \in 1..n /\ n + 1 - (n + 1 - k) = k
    OBVIOUS
  <1>2. \A k \in S : n + 1 - k \in T
    BY <1>1
  <1>3. T \in SUBSET (1..n) /\ T # {}
    BY <1>2
  <1> HIDE DEF T
  <1>4. PICK x \in T : \A y \in T : y <= x
    BY <1>3, LastPosition
  <1>5. n + 1 - x \in S
    BY DEF T
  <1>6. \A k \in S : n + 1 - x <= k
    BY <1>1, <1>2, <1>3, <1>4
  <1> QED
    BY <1>5, <1>6

-----------------------------------------------------------------------------
(* Counting barriers                                                       *)

LEMMA CountType ==
  ASSUME NEW f, NEW m \in Nat
  PROVE  IsFiniteSet(Barriers(f, m)) /\ Count(f, m) \in Nat
  <1>1. IsFiniteSet(1..m) /\ Barriers(f, m) \in SUBSET (1..m)
    BY FS_Interval DEF Barriers
  <1> QED
    BY <1>1, FS_Subset, FS_CardinalityType DEF Count

LEMMA CountMonotone ==
  ASSUME NEW f, NEW m \in Nat, NEW n \in Nat, m <= n
  PROVE  Count(f, m) <= Count(f, n)
  <1>1. Barriers(f, m) \in SUBSET Barriers(f, n)
    BY DEF Barriers
  <1> QED
    BY <1>1, CountType, FS_Subset DEF Count

(* The count goes up at a barrier and only there. *)
LEMMA CountStep ==
  ASSUME NEW f, NEW m \in Nat
  PROVE  Count(f, m + 1) = IF f[m + 1].kind = "Commit" THEN Count(f, m) + 1 ELSE Count(f, m)
  <1>1. \A i \in 1..(m + 1) : i \in 1..m \/ i = m + 1
    OBVIOUS
  <1>2. m + 1 \notin Barriers(f, m)
    BY DEF Barriers
  <1>3. CASE f[m + 1].kind = "Commit"
    <2>1. Barriers(f, m + 1) = Barriers(f, m) \cup {m + 1}
      BY <1>1, <1>3 DEF Barriers
    <2> QED
      BY <1>2, <1>3, <2>1, CountType, FS_AddElement DEF Count
  <1>4. CASE f[m + 1].kind # "Commit"
    <2>1. Barriers(f, m + 1) = Barriers(f, m)
      BY <1>1, <1>4 DEF Barriers
    <2> QED
      BY <1>4, <2>1 DEF Count
  <1> QED
    BY <1>3, <1>4

LEMMA CountBetween ==
  ASSUME NEW f, NEW m \in Nat, NEW n \in Nat, m <= n,
         \A i \in (m + 1)..n : f[i].kind # "Commit"
  PROVE  Count(f, m) = Count(f, n)
  <1>1. Barriers(f, m) = Barriers(f, n)
    BY DEF Barriers
  <1> QED
    BY <1>1 DEF Count

(* Two files with the same first n frames have the same barriers there. *)
Agree(f, g, n) == \A i \in 1..n : f[i] = g[i]

LEMMA CountAgrees ==
  ASSUME NEW f, NEW g, NEW n \in Nat, Agree(f, g, n), NEW m \in 0..n
  PROVE  Barriers(f, m) = Barriers(g, m) /\ Count(f, m) = Count(g, m)
  <1>1. Barriers(f, m) = Barriers(g, m)
    BY DEF Agree, Barriers
  <1> QED
    BY <1>1 DEF Count

(* A count that is not the first's is reached at a barrier after it. *)
LEMMA ClosingAfter ==
  ASSUME NEW f, NEW i \in Nat, NEW m \in Nat, i < m, f[m].kind = "Commit"
  PROVE  Count(f, i) < Count(f, m)
  <1>1. m - 1 \in Nat /\ i <= m - 1 /\ (m - 1) + 1 = m
    OBVIOUS
  <1>2. Count(f, m) = Count(f, m - 1) + 1
    BY <1>1, CountStep
  <1> QED
    BY <1>1, <1>2, CountMonotone, CountType

(* Each batch was closed by one barrier. *)
LEMMA ClosingExists ==
  ASSUME NEW f, NEW m \in Nat, NEW k \in 1..Count(f, m)
  PROVE  Closing(f, m, k) # {}
  <1> DEFINE S == {i \in Barriers(f, m) : k <= Count(f, i)}
  <1>1. Count(f, m) \in Nat /\ k \in Nat /\ k >= 1 /\ k <= Count(f, m)
    BY CountType
  <1>2. Barriers(f, m) # {}
    <2>1. Count(f, m) # 0
      BY <1>1
    <2> QED
      BY <2>1, CountType, FS_EmptySet DEF Count
  <1>3. PICK l \in Barriers(f, m) : \A i \in Barriers(f, m) : i <= l
    <2>1. Barriers(f, m) \in SUBSET (1..m)
      BY DEF Barriers
    <2> QED
      BY <1>2, <2>1, LastPosition
  <1>4. l \in 1..m /\ \A i \in (l + 1)..m : f[i].kind # "Commit"
    BY <1>3 DEF Barriers
  <1>5. Count(f, l) = Count(f, m)
    BY <1>4, CountBetween
  <1>6. S \in SUBSET (1..m) /\ S # {}
    BY <1>1, <1>3, <1>5 DEF Barriers
  <1> HIDE DEF S
  <1>7. PICK i \in S : \A j \in S : i <= j
    BY <1>6, FirstPosition
  <1>8. i \in 1..m /\ f[i].kind = "Commit" /\ i \in Barriers(f, m) /\ k <= Count(f, i)
    BY <1>6 DEF S, Barriers
  <1>9. Count(f, i - 1) < k
    <2> SUFFICES ASSUME ~(Count(f, i - 1) < k) PROVE FALSE
      OBVIOUS
    <2>1. i - 1 \in Nat /\ i - 1 < m
      BY <1>8
    <2>2. Count(f, i - 1) \in Nat /\ k <= Count(f, i - 1)
      BY <1>1, <2>1, CountType
    <2>3. Barriers(f, i - 1) # {}
      <3>1. Count(f, i - 1) # 0
        BY <1>1, <2>2
      <3> QED
        BY <2>1, <3>1, CountType, FS_EmptySet DEF Count
    <2>4. PICK j \in Barriers(f, i - 1) : \A x \in Barriers(f, i - 1) : x <= j
      <3>1. Barriers(f, i - 1) \in SUBSET (1..(i - 1))
        BY DEF Barriers
      <3> QED
        BY <2>1, <2>3, <3>1, LastPosition
    <2>5. j \in 1..(i - 1) /\ \A x \in (j + 1)..(i - 1) : f[x].kind # "Commit"
      BY <2>1, <2>4 DEF Barriers
    <2>6. Count(f, j) = Count(f, i - 1)
      BY <2>1, <2>5, CountBetween
    <2>7. j \in S
      BY <1>8, <2>2, <2>4, <2>5, <2>6 DEF S, Barriers
    <2> QED
      BY <1>7, <1>8, <2>5, <2>7
  <1>10. Count(f, i) = Count(f, i - 1) + 1
    <2>1. i - 1 \in Nat /\ (i - 1) + 1 = i
      BY <1>8
    <2> QED
      BY <1>8, <2>1, CountStep
  <1>11. i - 1 \in Nat /\ Count(f, i - 1) \in Nat /\ Count(f, i) \in Nat
    BY <1>8, CountType
  <1>12. Count(f, i) = k
    BY <1>1, <1>8, <1>9, <1>10, <1>11
  <1> QED
    BY <1>8, <1>12 DEF Closing

LEMMA BarrierFacts ==
  ASSUME NEW f, NEW m \in Nat, NEW k \in 1..Count(f, m)
  PROVE  /\ Barrier(f, m, k) \in 1..m
         /\ f[Barrier(f, m, k)].kind = "Commit"
         /\ Count(f, Barrier(f, m, k)) = k
  <1>1. Barrier(f, m, k) \in Closing(f, m, k)
    BY ClosingExists DEF Barrier
  <1> QED
    BY <1>1 DEF Closing, Barriers

-----------------------------------------------------------------------------
(* What waits                                                              *)

(* The last barrier among m frames is unique and exists. *)
LEMMA SinceIs ==
  ASSUME NEW f, NEW m \in Nat, NEW c \in 0..m, LastBarrier(f, m, c)
  PROVE  Since(f, m) = c
  <1>1. \A d \in 0..m : LastBarrier(f, m, d) => d = c
    BY DEF LastBarrier
  <1>2. Since(f, m) \in 0..m /\ LastBarrier(f, m, Since(f, m))
    BY DEF Since
  <1> QED
    BY <1>1, <1>2

LEMMA SinceExists ==
  ASSUME NEW f, NEW m \in Nat
  PROVE  Since(f, m) \in 0..m /\ LastBarrier(f, m, Since(f, m))
  <1>1. CASE Barriers(f, m) = {}
    <2>1. LastBarrier(f, m, 0)
      BY <1>1 DEF LastBarrier, Barriers
    <2>2. Since(f, m) = 0
      BY <2>1, SinceIs
    <2> QED
      BY <2>1, <2>2
  <1>2. CASE Barriers(f, m) # {}
    <2>1. Barriers(f, m) \in SUBSET (1..m)
      BY DEF Barriers
    <2>2. PICK c \in Barriers(f, m) : \A i \in Barriers(f, m) : i <= c
      BY <1>2, <2>1, LastPosition
    <2>3. c \in 0..m /\ LastBarrier(f, m, c)
      BY <2>1, <2>2 DEF LastBarrier, Barriers
    <2>4. Since(f, m) = c
      BY <2>3, SinceIs
    <2> QED
      BY <2>3, <2>4
  <1> QED
    BY <1>1, <1>2

LEMMA WaitingAgrees ==
  ASSUME NEW f, NEW g, NEW m \in Nat, Agree(f, g, m)
  PROVE  Since(f, m) = Since(g, m) /\ Waiting(f, m) = Waiting(g, m)
  <1> DEFINE c == Since(f, m)
  <1>1. c \in 0..m /\ LastBarrier(f, m, c)
    BY SinceExists
  <1> HIDE DEF c
  <1>2. LastBarrier(g, m, c)
    BY <1>1 DEF LastBarrier, Agree
  <1>3. Since(g, m) = c
    BY <1>1, <1>2, SinceIs
  <1>4. \A i \in 1..(m - c) : f[c + i] = g[c + i]
    BY <1>1 DEF Agree
  <1>5. [i \in 1..(m - c) |-> f[c + i].rec] = [i \in 1..(m - c) |-> g[c + i].rec]
    BY <1>4
  <1> QED
    BY <1>3, <1>5 DEF Waiting, c

(* A barrier leaves nothing waiting. *)
LEMMA WaitingAtBarrier ==
  ASSUME NEW f, NEW m \in Nat, m > 0 => f[m].kind = "Commit"
  PROVE  Waiting(f, m) = <<>>
  <1>1. LastBarrier(f, m, m)
    BY DEF LastBarrier
  <1>2. Since(f, m) = m
    BY <1>1, SinceIs
  <1> QED
    BY <1>2 DEF Waiting

(* A record joins what waits. *)
LEMMA WaitingGrows ==
  ASSUME NEW f, NEW m \in Nat, f[m + 1].kind # "Commit"
  PROVE  Waiting(f, m + 1) = Append(Waiting(f, m), f[m + 1].rec)
  <1> DEFINE c == Since(f, m)
             w == Waiting(f, m)
             r == f[m + 1].rec
             n == m - c
  <1>1. c \in 0..m /\ LastBarrier(f, m, c)
    BY SinceExists
  <1>2. LastBarrier(f, m + 1, c)
    BY <1>1 DEF LastBarrier
  <1>3. Since(f, m + 1) = c
    BY <1>1, <1>2, SinceIs
  <1>4. /\ n \in Nat /\ (m + 1) - c = n + 1 /\ c + (n + 1) = m + 1
    BY <1>1
  <1>5. w = [i \in 1..n |-> f[c + i].rec]
    BY DEF Waiting
  <1>6. Waiting(f, m + 1) = [i \in 1..(n + 1) |-> f[c + i].rec]
    BY <1>3, <1>4 DEF Waiting
  <1> HIDE DEF c, n
  <1>7. w \in Seq({f[c + i].rec : i \in 1..n}) /\ Len(w) = n
    BY <1>4, <1>5
  <1>8. Append(w, r) = [i \in 1..(n + 1) |-> IF i = n + 1 THEN r ELSE w[i]]
    BY <1>4, <1>7
  <1>9. ASSUME NEW i \in 1..(n + 1)
        PROVE  f[c + i].rec = IF i = n + 1 THEN r ELSE w[i]
    <2>1. CASE i = n + 1
      BY <1>4, <2>1
    <2>2. CASE i # n + 1
      <3>1. i \in 1..n
        BY <1>4, <2>2
      <3> QED
        BY <1>5, <2>2, <3>1
    <2> QED
      BY <2>1, <2>2
  <1> QED
    BY <1>6, <1>8, <1>9

-----------------------------------------------------------------------------
(* Batches                                                                 *)

Batch(f) == {Waiting(f, i) : i \in Int}

LEMMA BatchesType ==
  ASSUME NEW f, NEW m \in Nat
  PROVE  /\ Batches(f, m) \in Seq(Batch(f))
         /\ Len(Batches(f, m)) = Count(f, m)
         /\ \A k \in 1..Count(f, m) : Batches(f, m)[k] = Waiting(f, Barrier(f, m, k) - 1)
  <1>1. Count(f, m) \in Nat
    BY CountType
  <1>2. \A k \in 1..Count(f, m) : Barrier(f, m, k) - 1 \in Int
    BY BarrierFacts
  <1> QED
    BY <1>1, <1>2 DEF Batches, Batch

(* Only one barrier closes the k-th batch. *)
LEMMA BarrierIs ==
  ASSUME NEW f, NEW m \in Nat, NEW i \in 1..m, f[i].kind = "Commit"
  PROVE  /\ Count(f, i) \in 1..Count(f, m)
         /\ Barrier(f, m, Count(f, i)) = i
  <1>1. i \in Nat /\ i - 1 \in Nat /\ i - 1 < i
    OBVIOUS
  <1>2. Count(f, i - 1) < Count(f, i)
    BY <1>1, ClosingAfter
  <1>3. Count(f, i) \in 1..Count(f, m)
    BY <1>1, <1>2, CountType, CountMonotone
  <1> DEFINE b == Barrier(f, m, Count(f, i))
  <1>4. b \in 1..m /\ f[b].kind = "Commit" /\ Count(f, b) = Count(f, i)
    BY <1>3, BarrierFacts
  <1> HIDE DEF b
  <1>5. ~(b < i) /\ ~(i < b)
    BY <1>1, <1>4, ClosingAfter, CountType
  <1>6. b = i
    BY <1>1, <1>4, <1>5
  <1> QED
    BY <1>3, <1>6 DEF b

(* A file that starts with the same m frames holds, after them, the first  *)
(* of the batches that the longer scan holds.                              *)
LEMMA BatchesPrefix ==
  ASSUME NEW f, NEW g, NEW n \in Nat, NEW m \in 0..n, Agree(f, g, m)
  PROVE  /\ Count(f, m) \in 0..Count(f, n)
         /\ Batches(g, m) = SubSeq(Batches(f, n), 1, Count(f, m))
  <1>1. /\ Count(f, m) \in 0..Count(f, n)
        /\ Count(f, n) \in Nat /\ Count(f, m) \in Nat
    BY CountType, CountMonotone
  <1>2. Count(g, m) = Count(f, m)
    BY CountAgrees
  <1>3. ASSUME NEW k \in 1..Count(f, m)
        PROVE  Waiting(g, Barrier(g, m, k) - 1) = Waiting(f, Barrier(f, n, k) - 1)
    <2> DEFINE b == Barrier(g, m, k)
    <2>1. b \in 1..m /\ g[b].kind = "Commit" /\ Count(g, b) = k
      BY <1>2, BarrierFacts
    <2> HIDE DEF b
    <2>2. f[b].kind = "Commit"
      BY <2>1 DEF Agree
    <2>3. Count(f, b) = k
      BY <2>1, CountAgrees
    <2>4. Barrier(f, n, k) = b
      <3>1. b \in 1..n
        BY <2>1
      <3> QED
        BY <2>2, <2>3, <3>1, BarrierIs
    <2>5. Agree(f, g, b - 1) /\ b - 1 \in Nat
      BY <2>1 DEF Agree
    <2>6. Waiting(f, b - 1) = Waiting(g, b - 1)
      BY <2>5, WaitingAgrees
    <2> QED
      BY <2>4, <2>6 DEF b
  <1>4. Batches(g, m) = [k \in 1..Count(f, m) |-> Waiting(f, Barrier(f, n, k) - 1)]
    BY <1>2, <1>3 DEF Batches
  <1>5. SubSeq(Batches(f, n), 1, Count(f, m)) = [k \in 1..Count(f, m) |-> Batches(f, n)[k]]
    BY <1>1, BatchesType
  <1>6. \A k \in 1..Count(f, m) : Batches(f, n)[k] = Waiting(f, Barrier(f, n, k) - 1)
    <2>1. \A k \in 1..Count(f, m) : k \in 1..Count(f, n)
      BY <1>1
    <2> QED
      BY <2>1, BatchesType
  <1> QED
    BY <1>1, <1>4, <1>5, <1>6

(* Where no barrier lies between, it holds the same batches. *)
LEMMA BatchesSame ==
  ASSUME NEW f, NEW g, NEW n \in Nat, NEW m \in 0..n, Agree(f, g, m),
         \A i \in (m + 1)..n : f[i].kind # "Commit"
  PROVE  Batches(g, m) = Batches(f, n)
  <1>1. Count(f, m) = Count(f, n)
    BY CountBetween
  <1>2. Batches(g, m) = SubSeq(Batches(f, n), 1, Count(f, n))
    BY <1>1, BatchesPrefix
  <1> DEFINE b == Batches(f, n)
  <1>3. b \in Seq(Batch(f)) /\ Len(b) = Count(f, n)
    BY BatchesType
  <1>4. \A s \in Seq(Batch(f)) : SubSeq(s, 1, Len(s)) = s
    OBVIOUS
  <1> HIDE DEF b
  <1>5. SubSeq(b, 1, Count(f, n)) = b
    BY <1>3, <1>4
  <1> QED
    BY <1>2, <1>5 DEF b

(* A barrier adds what waited to the batches. *)
LEMMA BatchesGrow ==
  ASSUME NEW f, NEW m \in Nat, f[m + 1].kind = "Commit"
  PROVE  Batches(f, m + 1) = Append(Batches(f, m), Waiting(f, m))
  <1> DEFINE n == Count(f, m)
             b == Batches(f, m)
             w == Waiting(f, m)
  <1>1. n \in Nat /\ Count(f, m + 1) = n + 1
    BY CountType, CountStep
  <1>2. b = SubSeq(Batches(f, m + 1), 1, n)
    <2>1. m + 1 \in Nat /\ m \in 0..(m + 1) /\ Agree(f, f, m)
      BY DEF Agree
    <2> QED
      BY <2>1, BatchesPrefix
  <1>3. Batches(f, m + 1)[n + 1] = w
    <2>1. m + 1 \in Nat /\ m + 1 \in 1..(m + 1) /\ (m + 1) - 1 = m
      OBVIOUS
    <2>2. Barrier(f, m + 1, n + 1) = m + 1
      BY <1>1, <2>1, BarrierIs
    <2>3. n + 1 \in 1..Count(f, m + 1)
      BY <1>1
    <2>4. Batches(f, m + 1)[n + 1] = Waiting(f, Barrier(f, m + 1, n + 1) - 1)
      BY <2>1, <2>3, BatchesType
    <2> QED
      BY <2>1, <2>2, <2>4
  <1>4. /\ Batches(f, m + 1) \in Seq(Batch(f))
        /\ Len(Batches(f, m + 1)) = n + 1
    BY <1>1, BatchesType
  <1> HIDE DEF n, b, w
  <1>5. \A s \in Seq(Batch(f)) :
            Len(s) = n + 1 => s = Append(SubSeq(s, 1, n), s[n + 1])
    BY <1>1
  <1> QED
    BY <1>2, <1>3, <1>4, <1>5 DEF b, w

-----------------------------------------------------------------------------
(* The state of DurableLog                                                 *)

Logged == Batches(file, Decoded(file))
Stable == Count(file, acked)
Pending == IF Usable THEN Waiting(file, Decoded(file)) ELSE <<>>

LEMMA DecodedIs ==
  ASSUME NEW f \in Seq(Frame), NEW n \in 0..Len(f), Scanned(f, n)
  PROVE  Decoded(f) = n
  <1>1. \A m \in 0..Len(f) : Scanned(f, m) => m = n
    BY DEF Scanned
  <1>2. Decoded(f) \in 0..Len(f) /\ Scanned(f, Decoded(f))
    BY DEF Decoded
  <1> QED
    BY <1>1, <1>2

LEMMA DecodedExists ==
  ASSUME NEW f \in Seq(Frame), TornLast(f), Rising(f)
  PROVE  Decoded(f) \in 0..Len(f) /\ Scanned(f, Decoded(f))
  <1>1. 0 \in 0..Len(f)
    OBVIOUS
  <1>2. PICK n \in 0..Len(f) : Scanned(f, n)
    BY <1>1, ScanExists
  <1> QED
    BY <1>2, DecodedIs

(* A handle that may be used has a file without torn frames. *)
LEMMA DecodedWhole ==
  ASSUME NEW f \in Seq(Frame), NEW s, Below(f, s)
  PROVE  Decoded(f) = Len(f)
  <1>1. Len(f) \in 0..Len(f) /\ Scanned(f, Len(f))
    BY DEF Scanned, Below
  <1> QED
    BY <1>1, DecodedIs

LEMMA DecodedUsable ==
  ASSUME IInv, Usable
  PROVE  Decoded(file) = Len(file) /\ Len(file) \in Nat
  <1>1. file \in Seq(Frame) /\ Below(file, next_seq)
    BY DEF IInv, TypeOK
  <1> QED
    BY <1>1, DecodedWhole

(* The acknowledged batches are a prefix of what is logged. *)
LEMMA StableLogged ==
  ASSUME IInv
  PROVE  /\ Decoded(file) \in 0..Len(file) /\ Scanned(file, Decoded(file))
         /\ acked \in 0..Decoded(file)
         /\ Stable \in 0..Len(Logged)
         /\ Logged \in Seq(Batch(file))
  <1>1. file \in Seq(Frame) /\ TornLast(file) /\ Rising(file)
        /\ acked \in Nat /\ Len(file) \in Nat /\ acked <= Len(file)
    BY DEF IInv, TypeOK, AckedCovered
  <1>2. Decoded(file) \in 0..Len(file) /\ Scanned(file, Decoded(file))
    BY <1>1, DecodedExists
  <1>3. acked <= Decoded(file)
    <2>1. \A i \in 1..acked : file[i].kind # "Torn"
      BY AckedNotTorn
    <2> QED
      BY <1>1, <1>2, <2>1 DEF Scanned
  <1>4. Stable \in 0..Len(Logged) /\ Logged \in Seq(Batch(file))
    <2>1. Decoded(file) \in Nat
      BY <1>2
    <2> QED
      BY <1>1, <1>3, <2>1, CountType, CountMonotone, BatchesType DEF Stable, Logged
  <1> QED
    BY <1>1, <1>2, <1>3, <1>4

(* A step that acknowledges nothing keeps their number. *)
LEMMA StableKept ==
  ASSUME IInv, AckedKept, acked' = acked
  PROVE  Stable' = Stable
  <1>1. acked \in Nat /\ acked \in 0..acked
    BY DEF IInv, TypeOK
  <1>2. Agree(file, file', acked)
    BY DEF Agree, AckedKept
  <1>3. Count(file, acked) = Count(file', acked)
    BY <1>1, <1>2, CountAgrees
  <1> QED
    BY <1>3 DEF Stable

(* What a step that loses the handle leaves, when its scan is a shorter    *)
(* scan of the same frames.                                                *)
LEMMA CrashRefines ==
  ASSUME IInv, AckedKept, acked' = acked, ~Usable',
         file' \in Seq(Frame), NEW n \in 0..Len(file'), Scanned(file', n),
         n <= Decoded(file), Agree(file, file', n), acked <= n
  PROVE  Promise!Crash
  <1>1. Decoded(file') = n
    BY DecodedIs
  <1>2. Decoded(file) \in Nat /\ n \in 0..Decoded(file) /\ acked \in Nat /\ n \in Nat
    BY StableLogged
  <1> DEFINE k == Count(file, n)
  <1>3. /\ k \in 0..Count(file, Decoded(file))
        /\ Batches(file', n) = SubSeq(Batches(file, Decoded(file)), 1, k)
    BY <1>2, BatchesPrefix
  <1>4. Len(Logged) = Count(file, Decoded(file))
    BY <1>2, BatchesType DEF Logged
  <1>5. Stable <= k /\ Stable \in Nat
    BY <1>2, CountType, CountMonotone DEF Stable
  <1> HIDE DEF k
  <1>6. k \in Stable..Len(Logged) /\ Logged' = SubSeq(Logged, 1, k)
    BY <1>1, <1>3, <1>4, <1>5 DEF Logged
  <1>7. Stable' = Stable
    BY StableKept
  <1> QED
    BY <1>6, <1>7 DEF Promise!Crash, Logged, Stable

(* And one that leaves all of them. *)
LEMMA NothingLost ==
  ASSUME IInv, AckedKept, acked' = acked, ~Usable', file' = file
  PROVE  Promise!Crash
  <1>1. /\ Decoded(file) \in 0..Len(file) /\ Scanned(file, Decoded(file))
        /\ acked <= Decoded(file) /\ file' \in Seq(Frame)
    BY StableLogged DEF IInv, TypeOK
  <1>2. Agree(file, file', Decoded(file))
    BY DEF Agree
  <1> QED
    BY <1>1, <1>2, CrashRefines

-----------------------------------------------------------------------------
(* The steps                                                               *)

LEMMA AppendRefines ==
  ASSUME IInv, NEW p \in Payload, AppendRecord(p)
  PROVE  Promise!Add(p)
  <1> DEFINE fr == RecordFrame(next_seq, p)
             n == Len(file)
  <1>1. IInv' /\ AckedKept
    BY AppendRecordStep
  <1>2. /\ TypeOK /\ ~past_end /\ Usable /\ Usable' /\ acked' = acked
        /\ file' = Written(fr)
    BY DEF IInv, AppendRecord, Usable
  <1>3. fr \in Frame /\ fr.kind = "Record" /\ fr.rec = p
    BY <1>2 DEF RecordFrame, Frame, TypeOK
  <1>4. Decoded(file) = n /\ n \in Nat
    BY <1>2, DecodedUsable
  <1> HIDE DEF fr, n
  <1>5. /\ file' \in Seq(Frame) /\ Len(file') = n + 1
        /\ \A i \in 1..n : file'[i] = file[i]
        /\ file'[n + 1] = fr
    BY <1>2, <1>3, WrittenFacts DEF n
  <1>6. Decoded(file') = n + 1
    BY <1>1, <1>2, <1>5, DecodedWhole DEF IInv
  <1>7. Agree(file', file, n) /\ Agree(file, file', n)
    BY <1>5 DEF Agree
  <1>8. Batches(file, n) = Batches(file', n + 1)
    <2>1. n + 1 \in Nat /\ n \in 0..(n + 1)
          /\ \A i \in (n + 1)..(n + 1) : file'[i].kind # "Commit"
      BY <1>3, <1>4, <1>5
    <2> QED
      BY <1>7, <2>1, BatchesSame
  <1>9. Waiting(file', n + 1) = Append(Waiting(file, n), p)
    <2>1. Waiting(file, n) = Waiting(file', n)
      BY <1>4, <1>7, WaitingAgrees
    <2> QED
      BY <1>3, <1>4, <1>5, <2>1, WaitingGrows
  <1>10. Stable' = Stable
    BY <1>1, <1>2, StableKept
  <1>11. Logged' = Logged /\ Pending' = Append(Pending, p)
    BY <1>2, <1>4, <1>6, <1>8, <1>9 DEF Logged, Pending
  <1> QED
    BY <1>2, <1>10, <1>11 DEF Promise!Add, Logged, Stable, Pending

(* What a barrier, acknowledged or not, makes of the batches. *)
LEMMA BarrierLogged ==
  ASSUME IInv, Usable, file' = Written(CommitFrame(next_seq))
  PROVE  /\ Logged' = Append(Logged, Pending)
         /\ Waiting(file', Decoded(file')) = <<>>
         /\ Count(file', Len(file')) = Len(Logged')
  <1> DEFINE n == Len(file)
  <1>1. Decoded(file) = n /\ n \in Nat
    BY DecodedUsable
  <1> HIDE DEF n
  <1>2. /\ file' \in Seq(Frame) /\ Len(file') = n + 1
        /\ \A i \in 1..n : file'[i] = file[i]
        /\ file'[n + 1].kind = "Commit"
        /\ Below(file', next_seq + 1)
    BY BarrierWritten DEF n
  <1>3. Decoded(file') = n + 1
    BY <1>2, DecodedWhole
  <1>4. Agree(file', file, n)
    BY <1>2 DEF Agree
  <1>5. Batches(file', n + 1) = Append(Batches(file', n), Waiting(file', n))
    BY <1>1, <1>2, BatchesGrow
  <1>6. Waiting(file', n) = Waiting(file, n)
    BY <1>1, <1>4, WaitingAgrees
  <1>7. Batches(file, n) = Batches(file', n)
    <2>1. n \in 0..n /\ \A i \in (n + 1)..n : file'[i].kind # "Commit"
      BY <1>1
    <2> QED
      BY <1>1, <1>4, <2>1, BatchesSame
  <1>8. Waiting(file', n + 1) = <<>>
    BY <1>1, <1>2, WaitingAtBarrier
  <1>9. Len(Batches(file', n + 1)) = Count(file', n + 1)
    BY <1>1, BatchesType
  <1> QED
    BY <1>1, <1>2, <1>3, <1>5, <1>6, <1>7, <1>8, <1>9 DEF Logged, Pending

LEMMA CommitRefines ==
  ASSUME IInv, Commit
  PROVE  Promise!CommitBatch
  <1>1. Usable /\ Usable' /\ file' = Written(CommitFrame(next_seq)) /\ acked' = Len(file')
    BY DEF Commit, Usable
  <1>2. /\ Logged' = Append(Logged, Pending)
        /\ Waiting(file', Decoded(file')) = <<>>
        /\ Count(file', Len(file')) = Len(Logged')
    BY <1>1, BarrierLogged
  <1> QED
    BY <1>1, <1>2 DEF Promise!CommitBatch, Logged, Stable, Pending

(* A partial frame adds nothing to the batches. *)
LEMMA PartlyLogged ==
  ASSUME IInv, Usable, PartlyWritten
  PROVE  Logged' = Logged
  <1> DEFINE n == Len(file)
  <1>1. Decoded(file) = n /\ n \in Nat /\ file \in Seq(Frame) /\ n \in 0..n
    BY DecodedUsable DEF IInv, TypeOK
  <1>2. /\ file' \in Seq(Frame) /\ n \in 0..Len(file')
        /\ \A i \in 1..n : file'[i] = file[i]
    BY <1>1, PartlyWrittenShape
  <1>3. n < Len(file') => file'[n + 1].kind = "Torn"
    BY <1>1 DEF PartlyWritten, TornFrame
  <1>4. \A i \in 1..n : file[i].kind # "Torn"
    BY DEF IInv, Below
  <1> HIDE DEF n
  <1>5. Decoded(file') = n
    BY <1>2, <1>3, <1>4, DecodedIs DEF Scanned
  <1>6. Agree(file, file', n) /\ \A i \in (n + 1)..n : file[i].kind # "Commit"
    BY <1>1, <1>2 DEF Agree
  <1>7. Batches(file', n) = Batches(file, n)
    BY <1>1, <1>6, BatchesSame
  <1> QED
    BY <1>1, <1>5, <1>7 DEF Logged

LEMMA FailRefines ==
  ASSUME ~RetryCommit, IInv, AppendFail \/ CommitFail
  PROVE  Promise!Fail
  <1>1. AckedKept /\ acked' = acked /\ Usable /\ ~Usable'
    <2>1. AckedKept
      BY AppendFailStep, CommitFailStep
    <2>2. acked' = acked /\ Usable /\ ~Usable'
      BY DEF AppendFail, CommitFail, Usable
    <2> QED
      BY <2>1, <2>2
  <1>2. Stable' = Stable
    BY <1>1, StableKept
  <1>3. Logged' \in {Logged, Append(Logged, Pending)}
    <2>1. CASE PartlyWritten
      BY <1>1, <2>1, PartlyLogged
    <2>2. CASE file' = Written(CommitFrame(next_seq))
      BY <1>1, <2>2, BarrierLogged
    <2> QED
      BY <2>1, <2>2 DEF AppendFail, CommitFail
  <1> QED
    BY <1>1, <1>2, <1>3 DEF Promise!Fail, Logged, Stable, Pending

(* Ending the log at its last barrier drops no batch. *)
LEMMA CutLogged ==
  ASSUME IInv, NEW n \in 0..Len(file), NEW c \in 0..Len(file),
         Scanned(file, n), LastBarrier(file, n, c), file' = SubSeq(file, 1, c)
  PROVE  /\ Logged' = Logged
         /\ Waiting(file', Decoded(file')) = <<>>
  <1>1. /\ file \in Seq(Frame) /\ file' \in Seq(Frame) /\ Len(file') = c /\ c <= n
        /\ \A i \in 1..c : file'[i] = file[i] /\ file'[i].kind # "Torn"
    BY CutAtBarrier DEF IInv, TypeOK
  <1>2. Decoded(file) = n
    BY <1>1, DecodedIs
  <1>3. Decoded(file') = c
    <2>1. c \in 0..Len(file') /\ Scanned(file', c)
      BY <1>1 DEF Scanned
    <2> QED
      BY <1>1, <2>1, DecodedIs
  <1>4. Agree(file, file', c) /\ \A i \in (c + 1)..n : file[i].kind # "Commit"
    BY <1>1 DEF Agree, LastBarrier
  <1>5. n \in Nat /\ c \in 0..n
    BY <1>1
  <1>6. Batches(file', c) = Batches(file, n)
    BY <1>4, <1>5, BatchesSame
  <1>7. c > 0 => file'[c].kind = "Commit"
    BY <1>1 DEF LastBarrier
  <1>8. Waiting(file', c) = <<>>
    <2>1. c \in Nat
      OBVIOUS
    <2> QED
      BY <1>7, <2>1, WaitingAtBarrier
  <1> QED
    BY <1>2, <1>3, <1>6, <1>8 DEF Logged

LEMMA OpenRefines ==
  ASSUME IInv, Open
  PROVE  Promise!Reopen
  <1>1. PICK n \in 0..Len(file), c \in 0..Len(file) :
            /\ Scanned(file, n)
            /\ LastBarrier(file, n, c)
            /\ file' = SubSeq(file, 1, c)
    BY DEF Open, SurvivePoint
  <1>2. acked' = acked /\ Usable'
    BY DEF Open, Usable
  <1>3. Logged' = Logged /\ Waiting(file', Decoded(file')) = <<>>
    BY <1>1, CutLogged
  <1>4. Stable' = Stable
    BY <1>2, OpenStep, StableKept
  <1> QED
    BY <1>2, <1>3, <1>4 DEF Promise!Reopen, Logged, Stable, Pending

LEMMA OpenFailRefines ==
  ASSUME IInv, OpenFail
  PROVE  Promise!Crash
  <1>1. AckedKept /\ acked' = acked /\ ~Usable'
    <2>1. acked' = acked /\ fenced' = up /\ up' = up
      BY DEF OpenFail, OpenFailEffect
    <2> QED
      BY <2>1, OpenFailStep DEF Usable
  <1>2. CASE file' = file
    BY <1>1, <1>2, NothingLost
  <1>3. ASSUME NEW n \in 0..Len(file), NEW c \in 0..Len(file),
               Scanned(file, n), LastBarrier(file, n, c), file' = SubSeq(file, 1, c)
        PROVE  Promise!Crash
    <2>1. /\ file \in Seq(Frame) /\ file' \in Seq(Frame) /\ Len(file') = c
          /\ acked <= c /\ c <= n
          /\ \A i \in 1..c : file'[i] = file[i] /\ file'[i].kind # "Torn"
      BY <1>3, CutAtBarrier DEF IInv, TypeOK
    <2>2. Decoded(file) = n
      BY <1>3, <2>1, DecodedIs
    <2>3. c \in 0..Len(file') /\ Scanned(file', c) /\ Agree(file, file', c)
      BY <2>1 DEF Scanned, Agree
    <2> QED
      BY <1>1, <2>1, <2>2, <2>3, CrashRefines
  <1> QED
    BY <1>2, <1>3 DEF OpenFail, OpenFailEffect

LEMMA ExitRefines ==
  ASSUME IInv, ProcessExit
  PROVE  Promise!Crash
  <1>1. AckedKept /\ acked' = acked /\ ~Usable' /\ file' = file
    BY ProcessExitStep DEF ProcessExit, NoHandle, Usable
  <1> QED
    BY <1>1, NothingLost

(* A crash image is scanned up to a frame the file's own scan reaches. *)
LEMMA PowerLossRefines ==
  ASSUME IInv, PowerLoss
  PROVE  Promise!Crash
  <1>1. AckedKept /\ acked' = acked /\ ~Usable' /\ file' \in CrashImages
    BY PowerLossStep DEF PowerLoss, NoHandle, Usable
  <1>2. /\ file' \in Seq(Frame) /\ acked <= Len(file') /\ TornLast(file') /\ Rising(file')
        /\ \A i \in 1..acked : file'[i] = file[i]
    BY <1>1, ImageShape
  <1> DEFINE n == Decoded(file')
             d == Decoded(file)
  <1>3. n \in 0..Len(file') /\ Scanned(file', n)
    BY <1>2, DecodedExists
  <1>4. /\ file \in Seq(Frame) /\ Len(file) \in Nat /\ synced \in Nat
        /\ d \in 0..Len(file) /\ Scanned(file, d) /\ acked \in 0..d
    BY StableLogged DEF IInv, TypeOK
  <1> HIDE DEF n, d
  <1>5. n <= Len(file) /\ Agree(file, file', n)
    <2>1. ASSUME NEW k \in synced..Len(file), file' = SubSeq(file, 1, k)
          PROVE  n <= Len(file) /\ Agree(file, file', n)
      <3>1. k \in 0..Len(file)
        BY <1>4
      <3> QED
        BY <1>3, <1>4, <2>1, <3>1, PrefixFacts DEF Agree
    <2>2. ASSUME NEW k \in synced..(Len(file) - 1),
                 file' = Append(SubSeq(file, 1, k), TornFrame)
          PROVE  n <= Len(file) /\ Agree(file, file', n)
      <3>1. k \in 0..Len(file) /\ TornFrame \in Frame /\ TornFrame.kind = "Torn"
        BY <1>4, FrameTypes
      <3>2. /\ SubSeq(file, 1, k) \in Seq(Frame) /\ Len(SubSeq(file, 1, k)) = k
            /\ \A i \in 1..k : SubSeq(file, 1, k)[i] = file[i]
        BY <1>4, <3>1, PrefixFacts
      <3>3. /\ Len(file') = k + 1
            /\ \A i \in 1..k : file'[i] = file[i]
            /\ file'[k + 1] = TornFrame
        BY <2>2, <3>1, <3>2
      <3>4. n <= k
        BY <1>3, <3>1, <3>3 DEF Scanned
      <3> QED
        BY <1>3, <1>4, <3>1, <3>3, <3>4 DEF Agree
    <2> QED
      BY <1>1, <2>1, <2>2 DEF CrashImages
  <1>6. \A i \in 1..n : file[i].kind # "Torn"
    BY <1>3, <1>5 DEF Scanned, Agree
  <1>7. n <= d
    BY <1>3, <1>4, <1>5, <1>6 DEF Scanned
  <1>8. acked <= n
    <2>1. \A i \in 1..acked : file'[i].kind # "Torn"
      BY <1>2, AckedNotTorn
    <2> QED
      BY <1>2, <1>3, <1>4, <2>1 DEF Scanned
  <1> QED
    BY <1>1, <1>2, <1>3, <1>5, <1>7, <1>8, CrashRefines DEF d

LEMMA StepRefines ==
  ASSUME ~RetryCommit, IInv, [Next]_vars
  PROVE  [Promise!Next]_Promise!vars
  <1>1. ASSUME NEW p \in Payload, AppendRecord(p)
        PROVE  Promise!Next
    BY <1>1, AppendRefines DEF Promise!Next
  <1>2. CASE AppendFail \/ CommitFail
    BY <1>2, FailRefines DEF Promise!Next
  <1>3. CASE Commit
    BY <1>3, CommitRefines DEF Promise!Next
  <1>4. CASE Open
    BY <1>4, OpenRefines DEF Promise!Next
  <1>5. CASE OpenFail
    BY <1>5, OpenFailRefines DEF Promise!Next
  <1>6. CASE ProcessExit
    BY <1>6, ExitRefines DEF Promise!Next
  <1>7. CASE PowerLoss
    BY <1>7, PowerLossRefines DEF Promise!Next
  <1>8. CASE UNCHANGED vars
    <2>1. file' = file /\ acked' = acked /\ Usable' = Usable
      BY <1>8 DEF vars, handle, Usable
    <2> QED
      BY <2>1 DEF Promise!vars
  <1> QED
    BY <1>1, <1>2, <1>3, <1>4, <1>5, <1>6, <1>7, <1>8 DEF Next

LEMMA InitRefines == Init => Promise!Init
  <1> SUFFICES ASSUME Init PROVE Promise!Init
    OBVIOUS
  <1>1. file = <<>> /\ acked = 0 /\ ~Usable /\ IInv
    BY InitIInv DEF Init, Usable
  <1>2. Decoded(file) = 0
    BY <1>1, StableLogged
  <1>3. Barriers(file, 0) = {}
    BY DEF Barriers
  <1>4. Count(file, 0) = 0
    BY <1>3, FS_EmptySet DEF Count
  <1>5. Batches(file, 0) = <<>>
    BY <1>4 DEF Batches
  <1> QED
    BY <1>1, <1>2, <1>4, <1>5 DEF Promise!Init

-----------------------------------------------------------------------------
(* Every behaviour of the log is one of DurableLog, for any payloads and   *)
(* bounds: a batch is recovered whole or not at all, an acknowledged one   *)
(* always, one whose commit failed perhaps, and a record that a recovery   *)
(* or a rollback discarded under no later commit.  (append, commit,        *)
(* open_or_recover)                                                        *)
THEOREM LogIsDurable ==
  ASSUME ~RetryCommit
  PROVE  Spec => ImplementsDurableLog
  <1>1. Init => Promise!Init
    BY InitRefines
  <1>2. IInv /\ [Next]_vars => [Promise!Next]_Promise!vars
    BY StepRefines
  <1> QED
    BY <1>1, <1>2, Invariance, PTL DEF Spec, ImplementsDurableLog, Promise!Spec
=============================================================================
