---------------------------- MODULE StoreProofs ----------------------------
(***************************************************************************)
(* Proofs about the store, for any ids, lengths, contents and metrics, any *)
(* calls of the API, any faults and any bounds, when the client does not   *)
(* go on with a store of which the rollback of a dropped transaction       *)
(* failed ("use_after_drop").                                              *)
(*                                                                         *)
(* The log of the store is the log of WalProofs, whose facts about each of *)
(* its calls come first. None of the properties is inductive. That a       *)
(* manifest covers only what is acknowledged, and that the tiers have one  *)
(* entry per id and never share a seq, needs to be known between the steps *)
(* of a checkpoint and after the failure of any of them; the conjuncts of  *)
(* IInv say it part by part.                                               *)
(***************************************************************************)
EXTENDS Store, TLAPS, FiniteSetTheorems

L == INSTANCE WalProofs WITH Payload <- Records, NoPayload <- None,
                             RetryCommit <- FALSE

-----------------------------------------------------------------------------
(* The log of the store is the log of WalProofs. *)

LEMMA LogAssumption == L!WalAssumption
  BY StoreAssumption, NoneAssumption DEF L!WalAssumption

LEMMA SameLooks ==
  /\ \A f, n : W!Scanned(f, n) <=> L!Scanned(f, n)
  /\ \A f, n : W!Monotone(f, n) <=> L!Monotone(f, n)
  /\ \A f, n, c : W!LastBarrier(f, n, c) <=> L!LastBarrier(f, n, c)
  /\ W!CrashImages = L!CrashImages
  /\ W!TypeOK <=> L!TypeOK
  <1>1. \A f, n : W!Scanned(f, n) <=> L!Scanned(f, n)
    BY DEF W!Scanned, L!Scanned
  <1>2. \A f, n : W!Monotone(f, n) <=> L!Monotone(f, n)
    BY DEF W!Monotone, L!Monotone
  <1>3. \A f, n, c : W!LastBarrier(f, n, c) <=> L!LastBarrier(f, n, c)
    BY DEF W!LastBarrier, L!LastBarrier
  <1>4. W!CrashImages = L!CrashImages
    BY DEF W!CrashImages, L!CrashImages, W!TornFrame, L!TornFrame
  <1>5. W!TypeOK <=> L!TypeOK
    BY DEF W!TypeOK, L!TypeOK, W!Frame, L!Frame
  <1> QED
    BY <1>1, <1>2, <1>3, <1>4, <1>5

LEMMA SameActions ==
  /\ W!Init <=> L!Init
  /\ \A p : W!AppendRecord(p) <=> L!AppendRecord(p)
  /\ W!AppendFail <=> L!AppendFail
  /\ W!Commit <=> L!Commit
  /\ W!CommitFail <=> L!CommitFail
  /\ W!Open <=> L!Open
  /\ W!OpenFailEffect <=> L!OpenFailEffect
  /\ W!ProcessExit <=> L!ProcessExit
  /\ W!PowerLoss <=> L!PowerLoss
  <1>1. \A fr : W!Written(fr) = L!Written(fr)
    BY DEF W!Written, L!Written, W!TornFrame, L!TornFrame
  <1>2. (W!Usable <=> L!Usable) /\ (W!InBounds <=> L!InBounds)
    BY DEF W!Usable, L!Usable, W!InBounds, L!InBounds
  <1>3. W!PartlyWritten <=> L!PartlyWritten
    BY DEF W!PartlyWritten, L!PartlyWritten, W!TornFrame, L!TornFrame
  <1>4. W!NoHandle <=> L!NoHandle
    BY DEF W!NoHandle, L!NoHandle, W!FIRST_SEQ, L!FIRST_SEQ
  <1>5. W!Init <=> L!Init
    BY DEF W!Init, L!Init, W!FIRST_SEQ, L!FIRST_SEQ
  <1>6. \A p : W!AppendRecord(p) <=> L!AppendRecord(p)
    <2>1. \A p : W!RecordFrame(next_seq, p) = L!RecordFrame(next_seq, p)
      BY DEF W!RecordFrame, L!RecordFrame
    <2> QED
      BY <1>1, <1>2, <2>1 DEF W!AppendRecord, L!AppendRecord
  <1>7. W!AppendFail <=> L!AppendFail
    BY <1>2, <1>3 DEF W!AppendFail, L!AppendFail
  <1>8. W!CommitFrame(next_seq) = L!CommitFrame(next_seq)
    BY DEF W!CommitFrame, L!CommitFrame
  <1>9. W!Commit <=> L!Commit
    BY <1>1, <1>2, <1>8 DEF W!Commit, L!Commit, W!SyncedByCommit, L!SyncedByCommit
  <1>10. W!CommitFail <=> L!CommitFail
    BY <1>1, <1>2, <1>3, <1>8 DEF W!CommitFail, L!CommitFail
  <1>11. W!Open <=> L!Open
    <2>1. \A n, c : W!SurvivePoint(n, c) = L!SurvivePoint(n, c)
                    /\ W!SyncedByOpen(c) = L!SyncedByOpen(c)
                    /\ W!SeqAfter(file, n) = L!SeqAfter(file, n)
      BY DEF W!SurvivePoint, L!SurvivePoint, W!SyncedByOpen, L!SyncedByOpen,
             W!SeqAfter, L!SeqAfter, W!FIRST_SEQ, L!FIRST_SEQ
    <2> QED
      BY <2>1, SameLooks DEF W!Open, L!Open
  <1>12. W!OpenFailEffect <=> L!OpenFailEffect
    BY SameLooks DEF W!OpenFailEffect, L!OpenFailEffect
  <1>13. W!ProcessExit <=> L!ProcessExit
    BY <1>4 DEF W!ProcessExit, L!ProcessExit
  <1>14. W!PowerLoss <=> L!PowerLoss
    BY <1>4, SameLooks DEF W!PowerLoss, L!PowerLoss
  <1> QED
    BY <1>5, <1>6, <1>7, <1>9, <1>10, <1>11, <1>12, <1>13, <1>14

-----------------------------------------------------------------------------
(* What the calls of the log do, in the terms the store needs: the frames  *)
(* that stay, and the frames that come.                                    *)

FramesTyped(f) ==
    \A i \in 1..Len(f) : f[i].kind = "Record" => f[i].rec \in Records /\ f[i].seq > 0

LogOK == L!IInv /\ FramesTyped(file)

(* f is a beginning of g. *)
Begins(f, g) == Len(f) <= Len(g) /\ \A i \in 1..Len(f) : g[i] = f[i]

(* The frames of g after those of f are no records. *)
NoRecordAfter(f, g) == \A i \in 1..Len(g) : i > Len(f) => g[i].kind # "Record"

(* Every barrier of f is one of g. *)
BarriersStay(f, g) == \A i \in 1..Len(f) : f[i].kind = "Commit" => i <= Len(g)

EndsInBarrier(f) == Len(f) > 0 => f[Len(f)].kind = "Commit"

AckedSeq == IF acked = 0 THEN 0 ELSE file[acked].seq

LogTyped ==
    /\ file \in Seq(L!Frame) /\ Len(file) \in Nat
    /\ acked \in 0..Len(file) /\ synced \in 0..Len(file)
    /\ next_seq \in Nat /\ next_seq > 0 /\ committed_seq \in Nat
    /\ AckedSeq \in Nat
    /\ \A i \in 1..Len(file) : file[i].seq \in Nat

LEMMA LogTypes == LogOK => LogTyped
  <1> SUFFICES ASSUME LogOK PROVE LogTyped
    OBVIOUS
  <1>1. /\ file \in Seq(L!Frame) /\ synced \in 0..Len(file) /\ acked \in Nat
        /\ acked <= synced /\ next_seq \in Nat \ {0} /\ committed_seq \in Nat
    <2>1. L!TypeOK /\ L!AckedCovered
      BY DEF LogOK, L!IInv
    <2> QED
      BY <2>1, LogAssumption, L!TypeSplit DEF L!Numbers, L!AckedCovered
  <1>2. \A i \in 1..Len(file) : file[i] \in L!Frame
    BY <1>1
  <1>3. \A i \in 1..Len(file) : file[i].seq \in Nat
    BY <1>2, LogAssumption, L!FrameTypes
  <1>4. AckedSeq \in Nat
    BY <1>1, <1>3 DEF AckedSeq
  <1> QED
    BY <1>1, <1>3, <1>4 DEF LogTyped

LEMMA AckedSeqGrows ==
  ASSUME LogOK, LogOK', L!AckedKept
  PROVE  AckedSeq \in Nat /\ AckedSeq' \in Nat /\ AckedSeq <= AckedSeq'
  <1>1. /\ acked \in 0..Len(file) /\ AckedSeq \in Nat
        /\ \A i \in 1..Len(file) : file[i].seq \in Nat
    BY LogTypes DEF LogTyped
  <1>2. /\ acked' \in 0..Len(file') /\ AckedSeq' \in Nat
        /\ \A i \in 1..Len(file') : file'[i].seq \in Nat
        /\ L!Rising(file') /\ L!AckedCovered'
    <2>1. LogTyped'
      BY LogTypes, PTL
    <2> QED
      BY <2>1 DEF LogTyped, LogOK, L!IInv
  <1>3. /\ acked <= acked' /\ \A i \in 1..acked : file'[i] = file[i]
    BY DEF L!AckedKept
  <1>4. CASE acked = 0
    BY <1>1, <1>2, <1>4 DEF AckedSeq
  <1>5. CASE acked > 0
    <2>1. AckedSeq = file'[acked].seq /\ AckedSeq' = file'[acked'].seq
      BY <1>1, <1>2, <1>3, <1>5 DEF AckedSeq
    <2>2. file'[acked'].kind = "Commit"
      BY <1>1, <1>2, <1>3, <1>5 DEF L!AckedCovered
    <2>3. CASE acked < acked'
      <3>1. acked \in 1..Len(file') /\ acked' \in 1..Len(file')
        BY <1>1, <1>2, <1>5, <2>3
      <3>2. file'[acked].seq < file'[acked'].seq
        BY <2>2, <2>3, <3>1, <1>2 DEF L!Rising
      <3> QED
        BY <1>1, <1>2, <2>1, <3>2
    <2>4. CASE acked = acked'
      BY <1>1, <1>2, <2>1, <2>4
    <2> QED
      BY <1>1, <1>2, <1>3, <2>3, <2>4
  <1> QED
    BY <1>1, <1>4, <1>5

LEMMA AppendFacts ==
  ASSUME LogOK, NEW p \in Records, W!AppendRecord(p)
  PROVE  /\ LogOK' /\ L!AckedKept
         /\ Begins(file, file') /\ Len(file') = Len(file) + 1
         /\ file'[Len(file) + 1] = [kind |-> "Record", seq |-> next_seq, rec |-> p]
         /\ up /\ ~fenced /\ L!Below(file, next_seq)
         /\ next_seq' = next_seq + 1
         /\ UNCHANGED <<up, fenced, committed_seq, acked>>
  <1> DEFINE fr == L!RecordFrame(next_seq, p)
  <1>1. L!AppendRecord(p) /\ L!IInv /\ FramesTyped(file) /\ L!TypeOK
    BY SameActions DEF LogOK, L!IInv
  <1>2. L!IInv' /\ L!AckedKept
    BY <1>1, LogAssumption, L!AppendRecordStep
  <1>3. /\ L!Usable /\ file' = L!Written(fr) /\ next_seq' = next_seq + 1
        /\ UNCHANGED <<up, fenced, committed_seq, acked>>
    BY <1>1 DEF L!AppendRecord
  <1>4. up /\ ~fenced /\ ~past_end /\ L!Below(file, next_seq)
    BY <1>1, <1>3 DEF L!IInv, L!Usable
  <1>5. LogTyped
    BY LogTypes
  <1>6. fr \in L!Frame
    BY <1>5, LogAssumption, L!FrameTypes DEF LogTyped
  <1>7. /\ Len(file') = Len(file) + 1 /\ file'[Len(file) + 1] = fr
        /\ \A i \in 1..Len(file) : file'[i] = file[i]
    <2> HIDE DEF fr
    <2> QED
      BY <1>1, <1>3, <1>4, <1>6, LogAssumption, L!WrittenFacts
  <1>8. fr = [kind |-> "Record", seq |-> next_seq, rec |-> p]
    BY DEF L!RecordFrame
  <1>9. FramesTyped(file')
    BY <1>1, <1>5, <1>7, <1>8 DEF FramesTyped, LogTyped
  <1> QED
    BY <1>2, <1>3, <1>4, <1>5, <1>7, <1>8, <1>9 DEF LogOK, Begins, LogTyped

LEMMA CommitFacts ==
  ASSUME LogOK, W!Commit
  PROVE  /\ LogOK' /\ L!AckedKept
         /\ Begins(file, file') /\ Len(file') = Len(file) + 1
         /\ file'[Len(file')].kind = "Commit" /\ file'[Len(file')].seq = next_seq
         /\ NoRecordAfter(file, file')
         /\ up /\ ~fenced /\ L!Below(file, next_seq)
         /\ acked' = Len(file') /\ AckedSeq' = next_seq
         /\ committed_seq' = next_seq /\ next_seq' = next_seq + 1
         /\ UNCHANGED <<up, fenced>>
  <1> DEFINE fr == L!CommitFrame(next_seq)
  <1>1. L!Commit /\ L!IInv /\ FramesTyped(file) /\ L!TypeOK
    BY SameActions DEF LogOK, L!IInv
  <1>2. L!IInv' /\ L!AckedKept
    BY <1>1, LogAssumption, L!CommitStep
  <1>3. /\ L!Usable /\ file' = L!Written(fr) /\ next_seq' = next_seq + 1
        /\ acked' = Len(file') /\ committed_seq' = next_seq
        /\ UNCHANGED <<up, fenced>>
    BY <1>1 DEF L!Commit
  <1>4. up /\ ~fenced /\ ~past_end /\ L!Below(file, next_seq)
    BY <1>1, <1>3 DEF L!IInv, L!Usable
  <1>5. LogTyped
    BY LogTypes
  <1>6. fr \in L!Frame
    BY <1>5, LogAssumption, L!FrameTypes DEF LogTyped
  <1>7. /\ Len(file') = Len(file) + 1 /\ file'[Len(file) + 1] = fr
        /\ \A i \in 1..Len(file) : file'[i] = file[i]
    <2> HIDE DEF fr
    <2> QED
      BY <1>1, <1>3, <1>4, <1>6, LogAssumption, L!WrittenFacts
  <1>8. fr.kind = "Commit" /\ fr.seq = next_seq
    BY DEF L!CommitFrame
  <1>9. FramesTyped(file')
    BY <1>1, <1>5, <1>7, <1>8 DEF FramesTyped, LogTyped
  <1>10. NoRecordAfter(file, file') /\ Begins(file, file')
    BY <1>5, <1>7, <1>8 DEF NoRecordAfter, Begins, LogTyped
  <1>11. AckedSeq' = next_seq
    BY <1>3, <1>5, <1>7, <1>8 DEF AckedSeq, LogTyped
  <1> QED
    BY <1>2, <1>3, <1>4, <1>7, <1>8, <1>9, <1>10, <1>11 DEF LogOK

LEMMA FailFacts ==
  ASSUME LogOK, W!AppendFail \/ W!CommitFail
  PROVE  /\ LogOK' /\ L!AckedKept
         /\ Begins(file, file') /\ NoRecordAfter(file, file')
         /\ up /\ ~fenced /\ fenced'
         /\ UNCHANGED <<up, next_seq, committed_seq, acked>>
  <1>1. (L!AppendFail \/ L!CommitFail) /\ L!IInv /\ FramesTyped(file) /\ L!TypeOK
    BY SameActions DEF LogOK, L!IInv
  <1>2. L!IInv' /\ L!AckedKept
    BY <1>1, LogAssumption, L!AppendFailStep, L!CommitFailStep
  <1>3. /\ L!Usable /\ fenced'
        /\ UNCHANGED <<up, next_seq, committed_seq, acked>>
        /\ L!PartlyWritten \/ file' = L!Written(L!CommitFrame(next_seq))
    BY <1>1 DEF L!AppendFail, L!CommitFail
  <1>4. up /\ ~fenced /\ ~past_end
    BY <1>1, <1>3 DEF L!IInv, L!Usable
  <1>5. LogTyped
    BY LogTypes
  <1>6. /\ Begins(file, file') /\ NoRecordAfter(file, file')
    <2>1. CASE file' = file
      BY <1>5, <2>1 DEF Begins, NoRecordAfter, LogTyped
    <2>2. CASE file' = Append(file, L!TornFrame)
      <3>1. L!TornFrame.kind = "Torn"
        BY DEF L!TornFrame
      <3> QED
        BY <1>5, <2>2, <3>1 DEF Begins, NoRecordAfter, LogTyped
    <2>3. CASE file' = L!Written(L!CommitFrame(next_seq))
      <3> DEFINE fr == L!CommitFrame(next_seq)
      <3>1. fr \in L!Frame /\ fr.kind = "Commit"
        BY <1>5, LogAssumption, L!FrameTypes DEF LogTyped
      <3>a. file' = L!Written(fr)
        BY <2>3
      <3>2. /\ Len(file') = Len(file) + 1 /\ file'[Len(file) + 1] = fr
            /\ \A i \in 1..Len(file) : file'[i] = file[i]
        <4> HIDE DEF fr
        <4> QED
          BY <1>1, <1>4, <3>1, <3>a, LogAssumption, L!WrittenFacts
      <3> QED
        BY <1>5, <3>1, <3>2 DEF Begins, NoRecordAfter, LogTyped
    <2> QED
      BY <1>3, <2>1, <2>2, <2>3 DEF L!PartlyWritten
  <1>7. FramesTyped(file')
    <2>1. Len(file') \in Nat
      BY <1>2 DEF L!IInv, L!TypeOK
    <2> QED
      BY <1>1, <1>5, <1>6, <2>1 DEF FramesTyped, Begins, NoRecordAfter, LogTyped
  <1> QED
    BY <1>2, <1>3, <1>4, <1>6, <1>7 DEF LogOK

(* What every open does to the file, whether or not it succeeds. *)
LEMMA CutFacts ==
  ASSUME LogOK, NEW n \in 0..Len(file), NEW c \in 0..Len(file),
         L!Scanned(file, n), L!LastBarrier(file, n, c), file' = SubSeq(file, 1, c)
  PROVE  /\ Begins(file', file) /\ Len(file') = c /\ acked <= c /\ c <= n
         /\ BarriersStay(file, file') /\ EndsInBarrier(file') /\ FramesTyped(file')
         /\ file' \in Seq(L!Frame) /\ L!TornLast(file') /\ L!Rising(file')
         /\ \A i \in 1..Len(file) : file[i].kind # "Torn" => i <= n
  <1>1. L!IInv /\ FramesTyped(file) /\ LogTyped
    BY LogTypes DEF LogOK
  <1>2. /\ file' \in Seq(L!Frame) /\ Len(file') = c /\ acked <= c /\ c <= n
        /\ \A i \in 1..c : file'[i] = file[i]
        /\ L!TornLast(file') /\ L!Rising(file')
    BY <1>1, LogAssumption, L!CutAtBarrier
  <1>3. \A i \in 1..Len(file) : file[i].kind # "Torn" => i <= n
    <2>1. n < Len(file) => file[n + 1].kind = "Torn"
      BY DEF L!Scanned
    <2>2. \A i \in 1..Len(file) : file[i].kind = "Torn" => i = Len(file)
      BY <1>1 DEF L!IInv, L!TornLast
    <2> QED
      BY <1>1, <2>1, <2>2 DEF LogTyped
  <1>4. Begins(file', file)
    BY <1>1, <1>2 DEF Begins, LogTyped
  <1>5. BarriersStay(file, file')
    BY <1>1, <1>2, <1>3 DEF BarriersStay, L!LastBarrier, LogTyped
  <1>6. EndsInBarrier(file')
    BY <1>1, <1>2 DEF EndsInBarrier, L!LastBarrier, LogTyped
  <1>7. FramesTyped(file')
    BY <1>1, <1>2 DEF FramesTyped, LogTyped
  <1> QED
    BY <1>2, <1>3, <1>4, <1>5, <1>6, <1>7

LEMMA OpenFacts ==
  ASSUME LogOK, W!Open
  PROVE  /\ LogOK' /\ L!AckedKept
         /\ Begins(file', file) /\ BarriersStay(file, file') /\ EndsInBarrier(file')
         /\ committed_seq' = SeqAt(file', Len(file'))
         /\ \A i \in 1..Len(file) : file[i].kind # "Torn" => file[i].seq < next_seq'
         /\ up' /\ ~fenced' /\ acked' = acked
  <1>1. L!Open /\ L!IInv /\ LogTyped
    BY SameActions, LogTypes DEF LogOK
  <1>2. L!IInv' /\ L!AckedKept
    BY <1>1, LogAssumption, L!OpenStep
  <1>3. PICK n \in 0..Len(file), c \in 0..Len(file) :
            /\ L!Scanned(file, n) /\ L!Monotone(file, n) /\ L!LastBarrier(file, n, c)
            /\ file' = SubSeq(file, 1, c)
            /\ next_seq' = L!SeqAfter(file, n)
            /\ committed_seq' = (IF c = 0 THEN 0 ELSE file[c].seq)
            /\ up' = TRUE /\ fenced' = FALSE /\ acked' = acked
    BY <1>1 DEF L!Open, L!SurvivePoint
  <1>4. /\ Begins(file', file) /\ Len(file') = c /\ c <= n
        /\ BarriersStay(file, file') /\ EndsInBarrier(file') /\ FramesTyped(file')
        /\ \A i \in 1..Len(file) : file[i].kind # "Torn" => i <= n
    BY <1>3, CutFacts
  <1>5. committed_seq' = SeqAt(file', Len(file'))
    BY <1>1, <1>3, <1>4 DEF SeqAt, Begins, LogTyped
  <1>6. \A i \in 1..Len(file) : file[i].kind # "Torn" => file[i].seq < next_seq'
    <2> SUFFICES ASSUME NEW i \in 1..Len(file), file[i].kind # "Torn"
                 PROVE  file[i].seq < L!SeqAfter(file, n)
      BY <1>3
    <2>1. i <= n /\ n \in 1..Len(file) /\ n # 0
      BY <1>1, <1>4 DEF LogTyped
    <2>2. file[i].seq <= file[n].seq /\ file[n].seq \in Nat /\ file[i].seq \in Nat
      BY <1>1, <1>3, <2>1 DEF L!Monotone, LogTyped
    <2> QED
      BY <2>1, <2>2 DEF L!SeqAfter
  <1> QED
    BY <1>2, <1>3, <1>4, <1>5, <1>6 DEF LogOK

LEMMA OpenFailFacts ==
  ASSUME LogOK, W!OpenFailEffect, fenced' = up
  PROVE  /\ LogOK' /\ L!AckedKept
         /\ Begins(file', file) /\ BarriersStay(file, file')
         /\ UNCHANGED <<up, next_seq, committed_seq, acked>>
  <1>1. L!OpenFail /\ L!OpenFailEffect /\ L!IInv /\ LogTyped /\ FramesTyped(file)
    BY SameActions, LogTypes DEF LogOK, L!OpenFail
  <1>2. L!IInv' /\ L!AckedKept
    BY <1>1, LogAssumption, L!OpenFailStep
  <1>3. UNCHANGED <<up, next_seq, committed_seq, acked>>
    BY <1>1 DEF L!OpenFailEffect
  <1>4. Begins(file', file) /\ BarriersStay(file, file') /\ FramesTyped(file')
    <2>1. CASE file' = file
      BY <1>1, <2>1 DEF Begins, BarriersStay, LogTyped
    <2>2. CASE \E n, c \in 0..Len(file) :
                  /\ L!Scanned(file, n) /\ L!LastBarrier(file, n, c)
                  /\ file' = SubSeq(file, 1, c)
      BY <2>2, CutFacts
    <2> QED
      BY <1>1, <2>1, <2>2 DEF L!OpenFailEffect
  <1> QED
    BY <1>2, <1>3, <1>4 DEF LogOK

(* An open that cut the log and was then refused. *)
LEMMA RefusedFacts ==
  ASSUME LogOK, ~up, NEW n \in 0..Len(file), NEW c \in 0..Len(file), Found(file, n, c),
         file' = SubSeq(file, 1, W!SurvivePoint(n, c)),
         synced' = W!SyncedByOpen(W!SurvivePoint(n, c)),
         UNCHANGED <<up, next_seq, committed_seq, past_end, fenced, acked>>
  PROVE  LogOK' /\ L!AckedKept /\ Begins(file', file) /\ BarriersStay(file, file')
  <1>1. L!IInv /\ L!TypeOK /\ LogTyped /\ FramesTyped(file)
    BY LogTypes DEF LogOK, L!IInv
  <1>2. /\ L!Scanned(file, n) /\ L!LastBarrier(file, n, c) /\ file' = SubSeq(file, 1, c)
        /\ synced' = (IF c < Len(file) THEN c ELSE synced)
    BY SameLooks DEF Found, W!SurvivePoint, W!SyncedByOpen
  <1>3. /\ Begins(file', file) /\ Len(file') = c /\ acked <= c
        /\ BarriersStay(file, file') /\ FramesTyped(file')
        /\ file' \in Seq(L!Frame) /\ L!TornLast(file') /\ L!Rising(file')
    BY <1>2, CutFacts
  <1>4. L!TypeOK'
    <2>1. L!Numbers'
      BY <1>1, <1>2, <1>3 DEF L!TypeOK, L!Numbers, LogTyped
    <2>2. L!Flags'
      BY <1>1 DEF L!TypeOK, L!Flags
    <2> QED
      BY <2>1, <2>2, LogAssumption, L!TypeSplit
  <1>5. L!AckedCovered' /\ L!AckedKept
    BY <1>1, <1>2, <1>3 DEF L!IInv, L!AckedCovered, L!AckedKept, Begins, LogTyped
  <1>6. ~L!Usable'
    BY DEF L!Usable
  <1> QED
    BY <1>3, <1>4, <1>5, <1>6 DEF LogOK, L!IInv

LEMMA ExitFacts ==
  ASSUME LogOK, W!ProcessExit
  PROVE  LogOK' /\ L!AckedKept /\ file' = file /\ acked' = acked /\ up' = FALSE
  <1>1. L!ProcessExit /\ L!IInv
    BY SameActions DEF LogOK
  <1>2. L!IInv' /\ L!AckedKept
    BY <1>1, LogAssumption, L!ProcessExitStep
  <1> QED
    BY <1>1, <1>2 DEF LogOK, L!ProcessExit, L!NoHandle

(* A file a crash can leave: its frames are the ones of the log, and       *)
(* possibly a torn one after them.                                         *)
LEMMA ImageFacts ==
  ASSUME LogOK, NEW f \in W!CrashImages
  PROVE  /\ f \in Seq(L!Frame) /\ Len(f) \in Nat /\ acked <= Len(f)
         /\ L!TornLast(f) /\ L!Rising(f) /\ FramesTyped(f)
         /\ \A i \in 1..acked : f[i] = file[i]
         /\ \A i \in 1..Len(f) :
               f[i].kind # "Torn" => i \in 1..Len(file) /\ f[i] = file[i]
  <1>1. L!IInv /\ f \in L!CrashImages /\ LogTyped /\ FramesTyped(file)
    BY SameLooks, LogTypes DEF LogOK
  <1>2. /\ f \in Seq(L!Frame) /\ acked <= Len(f) /\ L!TornLast(f) /\ L!Rising(f)
        /\ \A i \in 1..acked : f[i] = file[i]
    BY <1>1, LogAssumption, L!ImageShape
  <1>3. \A i \in 1..Len(f) :
            f[i].kind # "Torn" => i \in 1..Len(file) /\ f[i] = file[i]
    <2>1. ASSUME NEW k \in synced..Len(file), f = SubSeq(file, 1, k)
          PROVE  \A i \in 1..Len(f) :
                    f[i].kind # "Torn" => i \in 1..Len(file) /\ f[i] = file[i]
      BY <1>1, <2>1 DEF LogTyped
    <2>2. ASSUME NEW k \in synced..(Len(file) - 1),
                 f = Append(SubSeq(file, 1, k), L!TornFrame)
          PROVE  \A i \in 1..Len(f) :
                    f[i].kind # "Torn" => i \in 1..Len(file) /\ f[i] = file[i]
      <3>1. L!TornFrame.kind = "Torn"
        BY DEF L!TornFrame
      <3>2. /\ k \in 0..Len(file) /\ SubSeq(file, 1, k) \in Seq(L!Frame)
            /\ Len(SubSeq(file, 1, k)) = k
            /\ \A i \in 1..k : SubSeq(file, 1, k)[i] = file[i]
        BY <1>1 DEF LogTyped
      <3>3. /\ Len(f) = k + 1 /\ f[k + 1] = L!TornFrame
            /\ \A i \in 1..k : f[i] = file[i]
        BY <2>2, <3>2
      <3> QED
        BY <1>1, <3>1, <3>2, <3>3 DEF LogTyped
    <2> QED
      BY <1>1, <2>1, <2>2 DEF L!CrashImages
  <1>4. FramesTyped(f)
    BY <1>1, <1>3 DEF FramesTyped
  <1> QED
    BY <1>2, <1>3, <1>4

LEMMA PowerFacts ==
  ASSUME LogOK, W!PowerLoss
  PROVE  /\ LogOK' /\ L!AckedKept /\ up' = FALSE /\ acked' = acked
         /\ \A i \in 1..Len(file') :
               file'[i].kind # "Torn" => i \in 1..Len(file) /\ file'[i] = file[i]
  <1>1. L!PowerLoss /\ W!PowerLoss /\ L!IInv
    BY SameActions DEF LogOK
  <1>2. L!IInv' /\ L!AckedKept
    BY <1>1, LogAssumption, L!PowerLossStep
  <1>3. file' \in W!CrashImages
    BY <1>1 DEF W!PowerLoss
  <1>4. up' = FALSE /\ acked' = acked
    BY <1>1 DEF L!PowerLoss, L!NoHandle
  <1> QED
    BY <1>2, <1>3, <1>4, ImageFacts DEF LogOK

-----------------------------------------------------------------------------
(* The inductive invariant.                                                *)

(* The barrier a handle remembers is in the file: rollback keeps the       *)
(* records below it, and they stay below the next seq.                     *)
HandleOK ==
    up /\ committed_seq > 0 =>
        \E i \in 1..Len(file) : file[i].kind = "Commit" /\ file[i].seq = committed_seq

ScalarsOK ==
    /\ dim \in Dims \cup {0}
    /\ id_kind \in {"int", "str", None}
    /\ metric \in Metrics \cup {None}
    /\ generation \in 0..MaxGen
    /\ pc \in {"down", "rebuild_publish", "rebuild_gc", "idle", "ack",
               "seal", "publish", "swap", "gc"}
    /\ tx_base \in Nat

FlagsOK ==
    /\ autocommit \in BOOLEAN
    /\ in_tx \in BOOLEAN
    /\ up <=> pc # "down"

(* What a checkpoint seals. *)
Sealable(es) == es \subseteq Entry /\ OnePerId(es) /\ \A e \in es : e.rec.life = "live"

(* The sealed entries are at most at the covered seq and the ones in RAM   *)
(* above it, and the covered seq is not above the acknowledged barrier.    *)
TiersOK ==
    /\ Sealable(seg)
    /\ l0 \subseteq Entry /\ OnePerId(l0)
    /\ checkpoint_seq \in Nat /\ checkpoint_seq <= AckedSeq
    /\ \A e \in seg : e.seq <= checkpoint_seq
    /\ \A e \in l0 : e.seq > checkpoint_seq
    /\ dim = 0 => seg = {} /\ l0 = {}
    /\ up /\ ~fenced => \A e \in l0 : e.seq < next_seq

FilesOK ==
    \A g \in segfiles : g.generation \in 1..MaxGen /\ Sealable(g.entries)

ManifestOK ==
    manifest # None =>
        /\ manifest.generation \in 0..MaxGen
        /\ manifest.checkpoint_seq \in Nat /\ manifest.checkpoint_seq <= AckedSeq
        /\ manifest.dim \in Dims \cup {0}
        /\ manifest.id_kind \in {"int", "str", None}
        /\ manifest.metric \in Metrics \cup {None}
        /\ manifest.segments \subseteq segfiles
        /\ \A g, h \in manifest.segments : g = h
        /\ \A g \in manifest.segments : \A e \in g.entries :
              e.seq <= manifest.checkpoint_seq /\ manifest.dim # 0

(* A checkpoint between its steps: nothing was written since its barrier.  *)
CallOK ==
    /\ pc \in {"seal", "publish", "swap"} =>
          /\ committed_seq = AckedSeq
          /\ generation > 0
          /\ \A e \in seg \cup l0 : e.seq <= committed_seq
    /\ pc = "publish" => Sealed \in segfiles
    /\ pc = "rebuild_gc" => manifest = ManifestOf(0, {})

IInv == LogOK /\ HandleOK /\ ScalarsOK /\ FlagsOK /\ TiersOK /\ FilesOK /\ ManifestOK /\ CallOK

-----------------------------------------------------------------------------
(* Facts about the tiers                                                   *)

LEMMA EntryTypes ==
  /\ \A e \in Entry : e.seq \in Nat /\ e.seq > 0 /\ e.rec \in Records
  /\ \A s \in Nat, r \in Records :
        s > 0 => /\ [seq |-> s, rec |-> r] \in Entry
                 /\ [seq |-> s, rec |-> r].seq = s /\ [seq |-> s, rec |-> r].rec = r
  /\ \A r \in Records : r.dim \in Dims /\ r.dim # 0 /\ r.id \in Ids
  BY StoreAssumption DEF Entry, Records, Record, Tombstone

(* The merged view is the records in RAM, and the sealed ones they do not  *)
(* shadow.                                                                 *)
LEMMA MergedIs ==
  ASSUME TiersOK
  PROVE  Merged(seg, l0) = {e \in seg : ~Shadowed(e)} \cup Live(l0)
  <1>1. \A e \in seg \cup l0 : e.seq \in Nat
    BY EntryTypes DEF TiersOK, Sealable
  <1>2. \A e \in seg, o \in l0 : e.seq < o.seq
    BY <1>1 DEF TiersOK
  <1>3. ASSUME NEW e \in seg
        PROVE  e \in Merged(seg, l0) <=> ~Shadowed(e)
    <2>1. \A o \in seg : o.rec.id = e.rec.id => o.seq <= e.seq
      BY <1>1 DEF TiersOK, Sealable, OnePerId
    <2>2. e.rec.life = "live"
      BY DEF TiersOK, Sealable
    <2>3. \A o \in l0 : ~(o.seq <= e.seq)
      BY <1>1, <1>2
    <2> QED
      BY <2>1, <2>2, <2>3 DEF Merged, Live, Shadowed
  <1>4. ASSUME NEW e \in l0
        PROVE  e \in Merged(seg, l0) <=> e \in Live(l0)
    <2>1. \A o \in l0 : o.rec.id = e.rec.id => o.seq <= e.seq
      BY <1>1 DEF TiersOK, OnePerId
    <2>2. \A o \in seg : o.seq <= e.seq
      BY <1>1, <1>2
    <2> QED
      BY <2>1, <2>2 DEF Merged, Live
  <1>5. Merged(seg, l0) \subseteq seg \cup l0 /\ Live(l0) \subseteq l0
    BY DEF Merged, Live
  <1>6. \A e \in seg : e \notin l0
    BY <1>1, <1>2
  <1> QED
    BY <1>3, <1>4, <1>5, <1>6

LEMMA MergedSealable ==
  ASSUME TiersOK
  PROVE  Sealable(Merged(seg, l0)) /\ Merged(seg, l0) \subseteq seg \cup l0
  <1>1. Merged(seg, l0) = {e \in seg : ~Shadowed(e)} \cup Live(l0)
    BY MergedIs
  <1>2. OnePerId(Merged(seg, l0))
    BY <1>1 DEF TiersOK, Sealable, OnePerId, Shadowed, Live
  <1>3. Merged(seg, l0) \subseteq seg \cup l0
    BY <1>1 DEF Live
  <1>4. \A e \in Merged(seg, l0) : e.rec.life = "live"
    BY DEF Merged, Live
  <1> QED
    BY <1>2, <1>3, <1>4 DEF TiersOK, Sealable

LEMMA ReplayMember ==
  ASSUME NEW f, NEW c, NEW s
  PROVE  \A e : e \in Replay(f, c, s) <=>
            \E i \in RecordsAbove(f, c, s) :
               /\ e = [seq |-> f[i].seq, rec |-> f[i].rec]
               /\ \A k \in RecordsAbove(f, c, s) : f[k].rec.id = f[i].rec.id => k <= i
  BY DEF Replay

LEMMA ReplayTyped ==
  ASSUME NEW f \in Seq(L!Frame), FramesTyped(f), NEW c \in 0..Len(f), NEW s \in Nat
  PROVE  /\ Replay(f, c, s) \subseteq Entry /\ OnePerId(Replay(f, c, s))
         /\ \A e \in Replay(f, c, s) :
               /\ e.seq > s
               /\ \E i \in RecordsAbove(f, c, s) : e = [seq |-> f[i].seq, rec |-> f[i].rec]
  <1>1. \A i \in RecordsAbove(f, c, s) :
            /\ i \in 1..Len(f) /\ f[i].kind = "Record" /\ f[i].seq > s
            /\ f[i].rec \in Records /\ f[i].seq > 0 /\ f[i].seq \in Nat
    <2>1. \A i \in RecordsAbove(f, c, s) :
            i \in 1..Len(f) /\ f[i].kind = "Record" /\ f[i].seq > s /\ f[i] \in L!Frame
      BY DEF RecordsAbove
    <2> QED
      BY <2>1, LogAssumption, L!FrameTypes DEF FramesTyped
  <1>2. ASSUME NEW e \in Replay(f, c, s)
        PROVE  /\ e \in Entry /\ e.seq > s
               /\ \E i \in RecordsAbove(f, c, s) : e = [seq |-> f[i].seq, rec |-> f[i].rec]
    <2>1. PICK i \in RecordsAbove(f, c, s) : e = [seq |-> f[i].seq, rec |-> f[i].rec]
      BY ReplayMember
    <2> QED
      BY <1>1, <2>1, EntryTypes
  <1>3. ASSUME NEW e \in Replay(f, c, s), NEW o \in Replay(f, c, s), e.rec.id = o.rec.id
        PROVE  e = o
    <2>1. PICK i \in RecordsAbove(f, c, s) :
             /\ e = [seq |-> f[i].seq, rec |-> f[i].rec]
             /\ \A k \in RecordsAbove(f, c, s) : f[k].rec.id = f[i].rec.id => k <= i
      BY ReplayMember
    <2>2. PICK j \in RecordsAbove(f, c, s) :
             /\ o = [seq |-> f[j].seq, rec |-> f[j].rec]
             /\ \A k \in RecordsAbove(f, c, s) : f[k].rec.id = f[j].rec.id => k <= j
      BY ReplayMember
    <2>3. f[i].rec.id = f[j].rec.id
      BY <1>3, <2>1, <2>2
    <2>4. i <= j /\ j <= i /\ i \in Nat /\ j \in Nat
      BY <1>1, <2>1, <2>2, <2>3
    <2>5. i = j
      BY <2>4
    <2> QED
      BY <2>1, <2>2, <2>5
  <1> QED
    BY <1>2, <1>3 DEF OnePerId

-----------------------------------------------------------------------------
(* What a step of the log leaves of the rest.                              *)

LEMMA DiskStays ==
  ASSUME LogOK, LogOK', L!AckedKept, ManifestOK, FilesOK, UNCHANGED disk
  PROVE  ManifestOK' /\ FilesOK'
  <1>1. AckedSeq \in Nat /\ AckedSeq' \in Nat /\ AckedSeq <= AckedSeq'
    BY AckedSeqGrows
  <1>2. manifest' = manifest /\ segfiles' = segfiles
    BY DEF disk
  <1>3. FilesOK'
    BY <1>2 DEF FilesOK
  <1>4. ManifestOK'
    BY <1>1, <1>2 DEF ManifestOK
  <1> QED
    BY <1>3, <1>4

LEMMA TiersStay ==
  ASSUME LogOK, LogOK', L!AckedKept, TiersOK, UNCHANGED tiers,
         dim' = 0 => dim = 0,
         up' /\ ~fenced' => up /\ ~fenced /\ next_seq <= next_seq'
  PROVE  TiersOK'
  <1>1. AckedSeq \in Nat /\ AckedSeq' \in Nat /\ AckedSeq <= AckedSeq'
    BY AckedSeqGrows
  <1>2. seg' = seg /\ l0' = l0 /\ checkpoint_seq' = checkpoint_seq
    BY DEF tiers
  <1>3. LogTyped /\ LogTyped'
    BY LogTypes, PTL
  <1>4. \A e \in l0 : e.seq \in Nat
    BY EntryTypes DEF TiersOK
  <1>5. up' /\ ~fenced' => \A e \in l0' : e.seq < next_seq'
    BY <1>2, <1>3, <1>4 DEF TiersOK, LogTyped
  <1> QED
    BY <1>1, <1>2, <1>5 DEF TiersOK

LEMMA HandleStays ==
  ASSUME LogOK, LogOK', HandleOK, committed_seq' = committed_seq, up' => up,
         Begins(file, file') \/ (Begins(file', file) /\ BarriersStay(file, file'))
  PROVE  HandleOK'
  <1> SUFFICES ASSUME up', committed_seq' > 0
               PROVE  \E i \in 1..Len(file') :
                         file'[i].kind = "Commit" /\ file'[i].seq = committed_seq'
    BY DEF HandleOK
  <1>1. LogTyped /\ LogTyped'
    BY LogTypes, PTL
  <1>2. PICK i \in 1..Len(file) : file[i].kind = "Commit" /\ file[i].seq = committed_seq
    BY DEF HandleOK
  <1>3. i \in 1..Len(file') /\ file'[i] = file[i]
    BY <1>1, <1>2 DEF Begins, BarriersStay, LogTyped
  <1> QED
    BY <1>2, <1>3

LEMMA AckedBelow ==
  ASSUME LogOK, L!Below(file, next_seq)
  PROVE  AckedSeq < next_seq
  <1>1. LogTyped
    BY LogTypes
  <1> QED
    BY <1>1 DEF LogTyped, AckedSeq, L!Below

(* Without a Store value there is nothing but the files. *)
LEMMA NoStoreOK ==
  ASSUME LogOK', NoStore, up' = FALSE
  PROVE  HandleOK' /\ ScalarsOK' /\ FlagsOK' /\ TiersOK' /\ CallOK'
  <1>1. LogTyped'
    BY LogTypes, PTL
  <1>2. HandleOK'
    BY DEF HandleOK
  <1>3. ScalarsOK'
    BY StoreAssumption DEF ScalarsOK, NoStore
  <1>4. FlagsOK'
    BY DEF FlagsOK, NoStore
  <1>5. TiersOK'
    BY <1>1 DEF TiersOK, Sealable, OnePerId, NoStore, LogTyped
  <1>6. CallOK'
    BY DEF CallOK, NoStore
  <1> QED
    BY <1>2, <1>3, <1>4, <1>5, <1>6

-----------------------------------------------------------------------------
(* The actions one by one.                                                 *)

LEMMA InitStep == Init => IInv
  <1> SUFFICES ASSUME Init PROVE IInv
    OBVIOUS
  <1>1. W!Init /\ up = FALSE
    BY DEF Init, W!Init
  <1>2. LogOK
    <2>1. L!IInv
      BY <1>1, SameActions, LogAssumption, L!InitIInv
    <2>2. FramesTyped(file)
      BY <1>1 DEF W!Init, FramesTyped
    <2> QED
      BY <2>1, <2>2 DEF LogOK
  <1>3. LogTyped
    BY <1>2, LogTypes
  <1>4. HandleOK
    BY <1>1 DEF HandleOK
  <1>5. ScalarsOK
    BY StoreAssumption DEF Init, ScalarsOK
  <1>6. FlagsOK
    BY <1>1 DEF Init, FlagsOK
  <1>7. TiersOK
    BY <1>3 DEF Init, TiersOK, Sealable, OnePerId, LogTyped
  <1>8. FilesOK /\ ManifestOK /\ CallOK
    BY DEF Init, FilesOK, ManifestOK, CallOK
  <1> QED
    BY <1>2, <1>4, <1>5, <1>6, <1>7, <1>8 DEF IInv

(* What the segments a manifest names hold. *)
TheSegment(m) == UNION {g.entries : g \in m.segments}

(* The segments a manifest names have the entries of at most one segment. *)
LEMMA ManifestEntries ==
  ASSUME ManifestOK, FilesOK, manifest # None
  PROVE  LET es == UNION {g.entries : g \in manifest.segments}
         IN  /\ Sealable(es)
             /\ \A e \in es : e.seq <= manifest.checkpoint_seq /\ manifest.dim # 0
  <1> DEFINE es == UNION {g.entries : g \in manifest.segments}
  <1>1. CASE manifest.segments = {}
    BY <1>1 DEF Sealable, OnePerId
  <1>2. CASE manifest.segments # {}
    <2>1. PICK g \in manifest.segments : TRUE
      BY <1>2
    <2>2. manifest.segments = {g}
      BY <2>1 DEF ManifestOK
    <2>3. es = g.entries
      BY <2>2
    <2>4. Sealable(g.entries)
      BY <2>1 DEF ManifestOK, FilesOK
    <2> QED
      BY <2>1, <2>3, <2>4 DEF ManifestOK
  <1> QED
    BY <1>1, <1>2

LEMMA OpenStep ==
  ASSUME IInv, Open
  PROVE  IInv'
  <1>1. /\ LogOK /\ TiersOK /\ FilesOK /\ ManifestOK
    BY DEF IInv
  <1>2. /\ LogOK' /\ L!AckedKept
        /\ Begins(file', file) /\ BarriersStay(file, file') /\ EndsInBarrier(file')
        /\ committed_seq' = SeqAt(file', Len(file'))
        /\ \A i \in 1..Len(file) : file[i].kind # "Torn" => file[i].seq < next_seq'
        /\ up' /\ ~fenced' /\ acked' = acked
    BY <1>1, OpenFacts DEF Open
  <1>3. LogTyped /\ LogTyped' /\ FramesTyped(file')
    <2>1. LogTyped /\ LogTyped'
      BY <1>1, <1>2, LogTypes, PTL
    <2>2. FramesTyped(file')
      BY <1>2 DEF LogOK
    <2> QED
      BY <2>1, <2>2
  <1>4. PICK readable \in Readability(manifest, segfiles) :
          LET r == Recovery(file', Len(file'), manifest, readable)
          IN  /\ Accepted(r)
              /\ \E s \in r.schemas : dim' = s[1] /\ id_kind' = s[2]
              /\ metric' = r.metric
              /\ generation' = r.generation
              /\ checkpoint_seq' = r.checkpoint_seq
              /\ seg' = r.seg
              /\ l0' = r.l0
              /\ pc' = (IF r.rebuilt THEN "rebuild_publish" ELSE "idle")
    BY DEF Open
  <1> DEFINE ok == Honoured(file', Len(file'), manifest, readable)
             base == IF ok THEN manifest.checkpoint_seq ELSE 0
             d == IF ok THEN manifest.dim ELSE 0
             k == IF ok /\ Opened(manifest) THEN manifest.id_kind ELSE None
  <1>5. /\ \E s \in ReplayedSchema(file', Len(file'), base, d, k) : dim' = s[1] /\ id_kind' = s[2]
        /\ metric' = (IF ok THEN manifest.metric ELSE None)
        /\ generation' = (IF ok THEN manifest.generation ELSE 0)
        /\ checkpoint_seq' = base
        /\ seg' = (IF ok THEN UNION {g.entries : g \in manifest.segments} ELSE {})
        /\ l0' = Replay(file', Len(file'), base)
        /\ pc' \in {"rebuild_publish", "idle"}
    BY <1>4 DEF Recovery
  <1>6. ok => manifest # None
    BY DEF Honoured
  <1>7. /\ AckedSeq \in Nat /\ AckedSeq' \in Nat /\ AckedSeq <= AckedSeq'
    BY <1>1, <1>2, AckedSeqGrows
  <1>8. base \in Nat /\ base <= AckedSeq'
    BY <1>1, <1>6, <1>7 DEF ManifestOK
  <1> HIDE DEF ok
  <1>9. /\ dim' \in Dims \cup {0} /\ id_kind' \in {"int", "str", None}
        /\ \A i \in RecordsAbove(file', Len(file'), base) : file'[i].rec.dim = dim'
        /\ d # 0 /\ RecordsAbove(file', Len(file'), base) = {} => dim' = d
        /\ d # 0 => dim' # 0
    <2> HIDE DEF base, d, k
    <2> QED
      BY <1>5 DEF ReplayedSchema
  <1>10. HandleOK'
    BY <1>2, <1>3 DEF HandleOK, SeqAt, EndsInBarrier, LogTyped
  <1>11. ScalarsOK'
    <2>1. metric' \in Metrics \cup {None} /\ generation' \in 0..MaxGen
      BY <1>1, <1>5, <1>6, StoreAssumption DEF ManifestOK
    <2>2. tx_base' \in Nat
      BY DEF Open
    <2> QED
      BY <1>5, <1>9, <2>1, <2>2 DEF ScalarsOK
  <1>12. FlagsOK'
    <2>1. pc' # "down"
      BY <1>5
    <2>2. in_tx' \in BOOLEAN /\ autocommit' \in BOOLEAN
      BY DEF Open
    <2> QED
      BY <1>2, <2>1, <2>2 DEF FlagsOK
  <1>13. TiersOK'
    <2>1. /\ l0' \subseteq Entry /\ OnePerId(l0')
          /\ \A e \in l0' :
               /\ e.seq > base
               /\ \E i \in RecordsAbove(file', Len(file'), base) :
                     e = [seq |-> file'[i].seq, rec |-> file'[i].rec]
      <3>1. l0' = Replay(file', Len(file'), base) /\ base \in Nat
        BY <1>5, <1>8
      <3>2. file' \in Seq(L!Frame) /\ Len(file') \in 0..Len(file')
        BY <1>3 DEF LogTyped
      <3> HIDE DEF base
      <3>3. \A s \in Nat :
              /\ Replay(file', Len(file'), s) \subseteq Entry /\ OnePerId(Replay(file', Len(file'), s))
              /\ \A e \in Replay(file', Len(file'), s) :
                    /\ e.seq > s
                    /\ \E i \in RecordsAbove(file', Len(file'), s) :
                          e = [seq |-> file'[i].seq, rec |-> file'[i].rec]
        BY <1>3, <3>2, ReplayTyped
      <3> QED
        BY <3>1, <3>3
    <2>2. /\ Sealable(seg') /\ \A e \in seg' : e.seq <= base /\ d # 0
      <3>1. CASE ok
        BY <1>1, <1>5, <1>6, <3>1, ManifestEntries
      <3>2. CASE ~ok
        BY <1>5, <3>2 DEF Sealable, OnePerId
      <3> QED
        BY <3>1, <3>2
    <2> HIDE DEF base, d
    <2>3. dim' = 0 => seg' = {} /\ l0' = {}
      <3>1. \A e \in l0' : e.rec.dim = dim' /\ e.rec.dim # 0
        BY <1>9, <2>1, EntryTypes
      <3> QED
        BY <1>9, <2>2, <3>1
    <2>4. \A e \in l0' : e.seq < next_seq'
      <3> SUFFICES ASSUME NEW e \in l0' PROVE e.seq < next_seq'
        OBVIOUS
      <3>1. PICK i \in RecordsAbove(file', Len(file'), base) : e.seq = file'[i].seq
        BY <2>1
      <3>2. i \in 1..Len(file') /\ file'[i].kind = "Record"
        BY <3>1 DEF RecordsAbove
      <3>3. i \in 1..Len(file) /\ file'[i] = file[i]
        BY <1>2, <1>3, <3>2 DEF Begins, LogTyped
      <3> QED
        BY <1>2, <3>1, <3>2, <3>3
    <2> QED
      BY <1>5, <1>8, <2>1, <2>2, <2>3, <2>4 DEF TiersOK
  <1>14. FilesOK' /\ ManifestOK'
    BY <1>1, <1>2, DiskStays DEF Open
  <1>15. CallOK'
    BY <1>5 DEF CallOK
  <1> QED
    BY <1>2, <1>10, <1>11, <1>12, <1>13, <1>14, <1>15 DEF IInv

(* The log changes at a failing open, and nothing else. *)
LEMMA OpenFailsStep ==
  ASSUME IInv, OpenFail \/ OpenRefused
  PROVE  IInv'
  <1>1. /\ LogOK /\ HandleOK /\ ScalarsOK /\ FlagsOK /\ TiersOK /\ FilesOK /\ ManifestOK
        /\ pc = "down" /\ ~up
        /\ UNCHANGED <<disk, schema, metric, generation, tiers, mode, pc>>
    BY DEF IInv, FlagsOK, OpenFail, OpenRefused
  <1>2. /\ LogOK' /\ L!AckedKept
        /\ Begins(file', file) /\ BarriersStay(file, file')
        /\ UNCHANGED <<up, committed_seq>>
    <2>1. CASE OpenFail
      BY <1>1, <2>1, OpenFailFacts DEF OpenFail, W!OpenFail
    <2>2. CASE OpenRefused
      BY <1>1, <2>2, RefusedFacts DEF OpenRefused
    <2> QED
      BY <2>1, <2>2
  <1>3. FilesOK' /\ ManifestOK'
    BY <1>1, <1>2, DiskStays
  <1>4. TiersOK'
    BY <1>1, <1>2, TiersStay DEF schema
  <1>5. HandleOK'
    BY <1>1, <1>2, HandleStays
  <1>6. ScalarsOK'
    BY <1>1 DEF ScalarsOK, schema, mode
  <1>7. FlagsOK'
    BY <1>1, <1>2 DEF FlagsOK, mode
  <1>8. CallOK'
    BY <1>1 DEF CallOK
  <1> QED
    BY <1>2, <1>3, <1>4, <1>5, <1>6, <1>7, <1>8 DEF IInv

(* The store goes: by an exit, a failing rebuild or a power loss. *)
LEMMA GoneStep ==
  ASSUME IInv, RebuildFail \/ Exit \/ PowerLoss
  PROVE  IInv'
  <1>1. LogOK /\ FilesOK /\ ManifestOK /\ ScalarsOK
    BY DEF IInv
  <1>2. LogOK' /\ L!AckedKept /\ up' = FALSE
    BY <1>1, ExitFacts, PowerFacts DEF RebuildFail, Exit, PowerLoss
  <1>3. HandleOK' /\ ScalarsOK' /\ FlagsOK' /\ TiersOK' /\ CallOK'
    BY <1>2, NoStoreOK DEF RebuildFail, Exit, PowerLoss
  <1>4. FilesOK' /\ ManifestOK'
    <2>1. CASE Exit \/ PowerLoss
      BY <1>1, <1>2, <2>1, DiskStays DEF Exit, PowerLoss
    <2>2. CASE RebuildFail
      <3>1. AckedSeq \in Nat /\ AckedSeq' \in Nat /\ AckedSeq <= AckedSeq'
        BY <1>1, <1>2, AckedSeqGrows
      <3>2. \/ segfiles' = segfiles /\ manifest' \in {manifest, ManifestOf(0, {})}
            \/ /\ pc = "rebuild_gc" /\ segfiles' \in SUBSET segfiles
               /\ manifest' = manifest
        BY <2>2 DEF RebuildFail
      <3>3. FilesOK'
        BY <1>1, <3>2 DEF FilesOK
      <3>4. ASSUME manifest' = ManifestOf(0, {}) PROVE ManifestOK'
        BY <1>1, <3>1, <3>4 DEF ManifestOK, ManifestOf, ScalarsOK
      <3>5. ASSUME manifest' = manifest, segfiles' = segfiles PROVE ManifestOK'
        BY <1>1, <3>1, <3>5 DEF ManifestOK
      <3>6. ASSUME pc = "rebuild_gc", manifest' = manifest PROVE ManifestOK'
        <4>1. manifest' = ManifestOf(0, {})
          BY <3>6 DEF IInv, CallOK
        <4> QED
          BY <3>4, <4>1
      <3> QED
        BY <3>2, <3>3, <3>4, <3>5, <3>6
    <2> QED
      BY <2>1, <2>2
  <1> QED
    BY <1>2, <1>3, <1>4 DEF IInv

(* Nothing happens to the log. *)
LEMMA QuietLog ==
  ASSUME LogOK, UNCHANGED log
  PROVE  LogOK' /\ L!AckedKept
  <1>1. L!IInv'
    BY DEF LogOK, log, L!IInv, L!TypeOK, L!AckedCovered, L!Usable
  <1>2. FramesTyped(file')
    BY DEF LogOK, log
  <1>3. L!AckedKept
    <2>1. LogTyped
      BY LogTypes
    <2> QED
      BY <2>1 DEF log, LogTyped, L!AckedKept
  <1> QED
    BY <1>1, <1>2, <1>3 DEF LogOK

(* A step that leaves the log and the Store's schema, tiers and generation *)
(* alone.                                                                  *)
LEMMA QuietStep ==
  ASSUME IInv, UNCHANGED <<log, schema, generation, tiers>>
  PROVE  /\ LogOK' /\ HandleOK' /\ TiersOK' /\ AckedSeq' = AckedSeq
         /\ up' = up /\ seg' = seg /\ l0' = l0 /\ committed_seq' = committed_seq
         /\ generation' = generation /\ Sealed' = Sealed
  <1>1. LogOK /\ HandleOK /\ TiersOK
    BY DEF IInv
  <1>2. LogOK' /\ L!AckedKept
    BY <1>1, QuietLog
  <1>3. LogTyped /\ AckedSeq' = AckedSeq
    BY <1>1, LogTypes DEF AckedSeq, log
  <1>4. HandleOK'
    BY <1>1 DEF HandleOK, log
  <1>5. next_seq \in Nat
    BY <1>3 DEF LogTyped
  <1>6. TiersOK'
    BY <1>1, <1>3 DEF TiersOK, log, tiers, schema
  <1>7. Sealed' = Sealed
    BY DEF Sealed, tiers, Merged, Live
  <1> QED
    BY <1>2, <1>3, <1>4, <1>6, <1>7 DEF log, tiers

LEMMA RebuildStep ==
  ASSUME IInv, RebuildPublish \/ RebuildGc
  PROVE  IInv'
  <1>1. /\ ScalarsOK /\ FlagsOK /\ FilesOK /\ ManifestOK /\ CallOK /\ LogOK
        /\ UNCHANGED <<log, schema, metric, generation, tiers, mode>>
    BY DEF IInv, RebuildPublish, RebuildGc
  <1>2. /\ LogOK' /\ HandleOK' /\ TiersOK' /\ AckedSeq' = AckedSeq /\ up' = up
    BY <1>1, QuietStep
  <1>3. AckedSeq \in Nat
    BY <1>1, LogTypes DEF LogTyped
  <1>4. ScalarsOK' /\ FlagsOK'
    BY <1>1, <1>2 DEF ScalarsOK, FlagsOK, RebuildPublish, RebuildGc, schema, mode
  <1>5. CASE RebuildPublish
    <2>1. FilesOK'
      BY <1>1, <1>5 DEF FilesOK, RebuildPublish
    <2>2. ManifestOK'
      BY <1>1, <1>2, <1>3, <1>5 DEF ManifestOK, ManifestOf, ScalarsOK, RebuildPublish
    <2>3. CallOK'
      BY <1>1, <1>5 DEF CallOK, ManifestOf, RebuildPublish, schema
    <2> QED
      BY <1>2, <1>4, <2>1, <2>2, <2>3 DEF IInv
  <1>6. CASE RebuildGc
    <2>1. manifest' = manifest /\ manifest = ManifestOf(0, {}) /\ segfiles' = {} /\ pc' = "idle"
      BY <1>1, <1>6 DEF CallOK, RebuildGc
    <2>2. FilesOK'
      BY <2>1 DEF FilesOK
    <2>3. manifest.segments = {}
      BY <2>1 DEF ManifestOf
    <2>4. ManifestOK'
      BY <1>1, <1>2, <2>1, <2>3 DEF ManifestOK
    <2>5. CallOK'
      BY <2>1 DEF CallOK
    <2> QED
      BY <1>2, <1>4, <2>2, <2>4, <2>5 DEF IInv
  <1> QED
    BY <1>5, <1>6

(* A record goes to the log and to RAM. *)
LEMMA AppendRecStep ==
  ASSUME IInv, Idle, NEW r \in Records, AppendRec(r), dim' \in Dims,
         id_kind' \in {"int", "str", None},
         UNCHANGED <<disk, metric, generation, seg, checkpoint_seq, mode>>
  PROVE  IInv'
  <1>1. LogOK /\ HandleOK /\ ScalarsOK /\ FlagsOK /\ TiersOK /\ FilesOK /\ ManifestOK
    BY DEF IInv
  <1>2. dim' # 0
    BY StoreAssumption
  <1>3. ScalarsOK' /\ FlagsOK' /\ CallOK' /\ LogOK' /\ L!AckedKept /\ HandleOK' /\ TiersOK'
    <2>1. CASE W!AppendRecord(r) /\ l0' = Applied(l0, next_seq, r) /\ pc' = AfterMutation
      <3>1. /\ LogOK' /\ L!AckedKept
            /\ Begins(file, file') /\ up /\ L!Below(file, next_seq)
            /\ next_seq' = next_seq + 1
            /\ UNCHANGED <<up, fenced, committed_seq>>
        BY <1>1, <2>1, AppendFacts
      <3>2. pc' \in {"ack", "idle"}
        BY <2>1 DEF AfterMutation
      <3>3. ScalarsOK' /\ FlagsOK' /\ CallOK'
        BY <1>1, <3>1, <3>2 DEF ScalarsOK, FlagsOK, CallOK, mode, Idle
      <3>4. HandleOK'
        BY <1>1, <3>1, HandleStays
      <3>5. /\ AckedSeq \in Nat /\ AckedSeq' \in Nat /\ AckedSeq <= AckedSeq'
            /\ AckedSeq < next_seq /\ next_seq \in Nat /\ next_seq > 0
        <4>1. LogTyped
          BY <1>1, LogTypes
        <4> QED
          BY <1>1, <3>1, <4>1, AckedSeqGrows, AckedBelow DEF LogTyped
      <3> DEFINE new == [seq |-> next_seq, rec |-> r]
      <3>6. /\ new \in Entry /\ new.seq = next_seq /\ new.rec = r
            /\ l0' = {e \in l0 : e.rec.id # r.id} \cup {new}
        BY <2>1, <3>5, EntryTypes DEF Applied
      <3> HIDE DEF new
      <3>7. /\ seg' = seg /\ checkpoint_seq' = checkpoint_seq /\ checkpoint_seq \in Nat
            /\ \A e \in l0 : e.seq \in Nat /\ e.seq < next_seq
        BY <1>1, <3>1, EntryTypes DEF TiersOK, Idle
      <3>8. l0' \subseteq Entry /\ OnePerId(l0')
        BY <1>1, <3>6 DEF TiersOK, OnePerId
      <3>9. (\A e \in l0' : e.seq > checkpoint_seq) /\ (\A e \in l0' : e.seq < next_seq')
        BY <1>1, <3>1, <3>5, <3>6, <3>7 DEF TiersOK
      <3>10. TiersOK'
        BY <1>1, <1>2, <3>5, <3>7, <3>8, <3>9 DEF TiersOK
      <3> QED
        BY <3>1, <3>3, <3>4, <3>10
    <2>2. CASE W!AppendFail /\ UNCHANGED <<l0, pc>>
      <3>1. /\ LogOK' /\ L!AckedKept /\ Begins(file, file') /\ fenced'
            /\ UNCHANGED <<up, committed_seq>>
        BY <1>1, <2>2, FailFacts
      <3>2. ScalarsOK' /\ FlagsOK' /\ CallOK'
        BY <1>1, <2>2, <3>1 DEF ScalarsOK, FlagsOK, CallOK, mode, Idle
      <3>3. HandleOK'
        BY <1>1, <3>1, HandleStays
      <3>4. TiersOK'
        BY <1>1, <1>2, <2>2, <3>1, TiersStay DEF tiers
      <3> QED
        BY <3>1, <3>2, <3>3, <3>4
    <2> QED
      BY <2>1, <2>2 DEF AppendRec
  <1>4. FilesOK' /\ ManifestOK'
    BY <1>1, <1>3, DiskStays
  <1> QED
    BY <1>3, <1>4 DEF IInv

LEMMA MutationStep ==
  ASSUME IInv,
         \/ \E id \in Ids, d \in Dims, v \in Vals : Upsert(id, d, v)
         \/ \E id \in Ids : Delete(id)
  PROVE  IInv'
  <1>1. ASSUME NEW id \in Ids, NEW d \in Dims, NEW v \in Vals, Upsert(id, d, v)
        PROVE  IInv'
    <2>1. [id |-> id, dim |-> d, val |-> v, life |-> "live"] \in Records
      BY DEF Records, Record
    <2>2. dim' \in Dims /\ id_kind' \in {"int", "str", None}
      BY <1>1 DEF Upsert, Kind
    <2> QED
      BY <1>1, <2>1, <2>2, AppendRecStep DEF Upsert
  <1>2. ASSUME NEW id \in Ids, Delete(id)
        PROVE  IInv'
    <2>1. dim \in Dims
      <3>1. seg # {} \/ l0 # {}
        BY <1>2 DEF Delete, IsLive
      <3> QED
        BY <3>1 DEF IInv, TiersOK, ScalarsOK
    <2>2. [id |-> id, dim |-> dim, val |-> None, life |-> "tombstone"] \in Records
      BY <2>1 DEF Records, Tombstone
    <2>3. dim' \in Dims /\ id_kind' \in {"int", "str", None}
      BY <1>2, <2>1 DEF IInv, ScalarsOK, Delete, schema
    <2> QED
      BY <1>2, <2>2, <2>3, AppendRecStep DEF Delete
  <1> QED
    BY <1>1, <1>2

LEMMA CommitLogStep ==
  ASSUME IInv, CommitLog, pc \in {"idle", "ack"}, pc' = "idle",
         UNCHANGED <<disk, schema, metric, generation, tiers, autocommit>>,
         in_tx' \in BOOLEAN, tx_base' \in Nat
  PROVE  IInv'
  <1>1. LogOK /\ HandleOK /\ ScalarsOK /\ FlagsOK /\ TiersOK /\ FilesOK /\ ManifestOK
    BY DEF IInv
  <1>2. LogOK' /\ L!AckedKept /\ HandleOK' /\ TiersOK' /\ up' = up
    <2>1. CASE W!Commit
      <3>1. /\ LogOK' /\ L!AckedKept /\ Len(file') = Len(file) + 1
            /\ file'[Len(file')].kind = "Commit" /\ file'[Len(file')].seq = next_seq
            /\ up /\ ~fenced
            /\ committed_seq' = next_seq /\ next_seq' = next_seq + 1
            /\ UNCHANGED <<up, fenced>>
        BY <1>1, <2>1, CommitFacts
      <3>2. LogTyped
        BY <1>1, LogTypes
      <3>3. HandleOK'
        BY <3>1, <3>2 DEF HandleOK, LogTyped
      <3>4. dim' = dim /\ next_seq <= next_seq'
        BY <3>1, <3>2 DEF schema, LogTyped
      <3>5. TiersOK'
        BY <1>1, <3>1, <3>4, TiersStay
      <3> QED
        BY <3>1, <3>3, <3>5
    <2>2. CASE W!CommitFail
      <3>1. /\ LogOK' /\ L!AckedKept /\ Begins(file, file') /\ fenced'
            /\ UNCHANGED <<up, committed_seq>>
        BY <1>1, <2>2, FailFacts
      <3>2. HandleOK'
        BY <1>1, <3>1, HandleStays
      <3>3. TiersOK'
        BY <1>1, <3>1, TiersStay DEF schema
      <3> QED
        BY <3>1, <3>2, <3>3
    <2> QED
      BY <2>1, <2>2 DEF CommitLog
  <1>3. FilesOK' /\ ManifestOK'
    BY <1>1, <1>2, DiskStays
  <1>4. ScalarsOK' /\ FlagsOK' /\ CallOK'
    BY <1>1, <1>2 DEF ScalarsOK, FlagsOK, CallOK, schema
  <1> QED
    BY <1>2, <1>3, <1>4 DEF IInv

LEMMA CommitsStep ==
  ASSUME IInv, Autocommit \/ Commit \/ CommitTx
  PROVE  IInv'
  <1>1. /\ CommitLog /\ pc \in {"idle", "ack"} /\ pc' = "idle"
        /\ UNCHANGED <<disk, schema, metric, generation, tiers, autocommit>>
    BY DEF Autocommit, Commit, CommitTx, EndTx, mode, Idle
  <1>2. in_tx' \in BOOLEAN /\ tx_base' \in Nat
    <2>1. in_tx \in BOOLEAN /\ tx_base \in Nat
      BY DEF IInv, FlagsOK, ScalarsOK
    <2>2. (in_tx' = in_tx /\ tx_base' = tx_base) \/ (in_tx' = FALSE /\ tx_base' = 0)
      BY Zenon DEF Autocommit, Commit, CommitTx, EndTx, mode
    <2>3. in_tx' \in BOOLEAN
      BY <2>1, <2>2, Zenon
    <2> QED
      BY <2>1, <2>2, <2>3
  <1> QED
    BY <1>1, <1>2, CommitLogStep

LEMMA SettingStep ==
  ASSUME IInv, (\E m \in Metrics : SetMetric(m)) \/ Transaction
  PROVE  IInv'
  <1>1. /\ ScalarsOK /\ FlagsOK /\ FilesOK /\ ManifestOK /\ LogOK
        /\ pc = "idle" /\ pc' = "idle"
        /\ UNCHANGED <<log, disk, schema, generation, tiers, autocommit>>
    BY DEF IInv, SetMetric, Transaction, Idle, mode
  <1>2. LogOK' /\ HandleOK' /\ TiersOK' /\ up' = up
    BY <1>1, QuietStep
  <1>3. LogOK' /\ L!AckedKept /\ LogTyped
    BY <1>1, QuietLog, LogTypes
  <1>4. FilesOK' /\ ManifestOK'
    BY <1>1, <1>3, DiskStays
  <1>5. metric' \in Metrics \cup {None} /\ tx_base' \in Nat /\ in_tx' \in BOOLEAN
    BY <1>1, <1>3 DEF SetMetric, Transaction, ScalarsOK, FlagsOK, LogTyped, mode
  <1>6. ScalarsOK' /\ FlagsOK' /\ CallOK'
    BY <1>1, <1>2, <1>5 DEF ScalarsOK, FlagsOK, CallOK, schema
  <1> QED
    BY <1>2, <1>4, <1>6 DEF IInv

(* Records above the remembered barrier go, and the log is opened again.   *)
LEMMA RollbackStep ==
  ASSUME IInv, "use_after_drop" \notin Verbs, Rollback \/ DropTx
  PROVE  IInv'
  <1>1. LogOK /\ HandleOK /\ ScalarsOK /\ FlagsOK /\ TiersOK /\ FilesOK /\ ManifestOK
    BY DEF IInv
  <1>2. /\ pc = "idle" /\ pc' = "idle" /\ l0' = RolledBack(l0)
        /\ UNCHANGED <<disk, schema, metric, generation, seg, checkpoint_seq, autocommit>>
        /\ W!Open \/ (W!OpenFailEffect /\ fenced' = up)
    <2>1. up = TRUE
      BY <1>1 DEF LogOK, L!IInv, L!TypeOK, FlagsOK, Rollback, DropTx
    <2> QED
      BY <2>1 DEF Rollback, DropTx, EndTx, W!OpenFail, mode
  <1>3. in_tx' \in BOOLEAN /\ tx_base' \in Nat
    <2>1. in_tx \in BOOLEAN /\ tx_base \in Nat
      BY <1>1 DEF FlagsOK, ScalarsOK
    <2>2. (in_tx' = in_tx /\ tx_base' = tx_base) \/ (in_tx' = FALSE /\ tx_base' = 0)
      BY Zenon DEF Rollback, DropTx, EndTx, mode
    <2>3. in_tx' \in BOOLEAN
      BY <2>1, <2>2, Zenon
    <2> QED
      BY <2>1, <2>2, <2>3
  <1>4. LogTyped
    BY <1>1, LogTypes
  <1>5. /\ LogOK' /\ L!AckedKept /\ HandleOK' /\ up' /\ up
        /\ ~fenced' => \A e \in l0 : e.seq <= committed_seq => e.seq < next_seq'
    <2>1. CASE W!Open
      <3>1. /\ LogOK' /\ L!AckedKept /\ up'
            /\ Begins(file', file) /\ EndsInBarrier(file')
            /\ committed_seq' = SeqAt(file', Len(file'))
            /\ \A i \in 1..Len(file) : file[i].kind # "Torn" => file[i].seq < next_seq'
        BY <1>1, <2>1, OpenFacts
      <3>2. LogTyped'
        BY <3>1, LogTypes, PTL
      <3>3. HandleOK'
        BY <3>1, <3>2 DEF HandleOK, SeqAt, EndsInBarrier, LogTyped
      <3>4. committed_seq > 0 => committed_seq < next_seq'
        BY <1>1, <1>2, <3>1 DEF HandleOK, FlagsOK
      <3>5. \A e \in l0 : e.seq \in Nat /\ e.seq > 0
        BY <1>1, EntryTypes DEF TiersOK
      <3> QED
        BY <1>1, <1>2, <1>4, <3>1, <3>2, <3>3, <3>4, <3>5 DEF LogTyped, FlagsOK
    <2>2. CASE W!OpenFailEffect /\ fenced' = up
      <3>1. /\ LogOK' /\ L!AckedKept /\ Begins(file', file) /\ BarriersStay(file, file')
            /\ UNCHANGED <<up, committed_seq>>
        BY <1>1, <2>2, OpenFailFacts
      <3>2. HandleOK'
        BY <1>1, <3>1, HandleStays
      <3> QED
        BY <1>1, <1>2, <2>2, <3>1, <3>2 DEF FlagsOK
    <2> QED
      BY <1>2, <2>1, <2>2
  <1>6. FilesOK' /\ ManifestOK'
    BY <1>1, <1>2, <1>5, DiskStays
  <1>7. ScalarsOK' /\ FlagsOK' /\ CallOK'
    BY <1>1, <1>2, <1>3, <1>5 DEF ScalarsOK, FlagsOK, CallOK, schema
  <1>8. TiersOK'
    <2>1. /\ AckedSeq \in Nat /\ AckedSeq' \in Nat /\ AckedSeq <= AckedSeq'
      BY <1>1, <1>5, AckedSeqGrows
    <2>2. \A e : e \in l0' <=> e \in l0 /\ e.seq <= committed_seq
      BY <1>2 DEF RolledBack
    <2>3. seg' = seg /\ checkpoint_seq' = checkpoint_seq /\ dim' = dim
      BY <1>2 DEF schema
    <2>4. l0' \subseteq Entry /\ OnePerId(l0') /\ (dim' = 0 => l0' = {})
      BY <1>1, <2>2, <2>3 DEF TiersOK, OnePerId
    <2>5. checkpoint_seq' \in Nat /\ checkpoint_seq' <= AckedSeq'
      BY <1>1, <2>1, <2>3 DEF TiersOK
    <2>6. \A e \in l0' : e.seq > checkpoint_seq
      BY <1>1, <2>2 DEF TiersOK
    <2> QED
      BY <1>1, <1>5, <2>2, <2>3, <2>4, <2>5, <2>6 DEF TiersOK
  <1> QED
    BY <1>5, <1>6, <1>7, <1>8 DEF IInv

LEMMA CheckpointStep ==
  ASSUME IInv, Checkpoint
  PROVE  IInv'
  <1>1. /\ LogOK /\ HandleOK /\ ScalarsOK /\ FlagsOK /\ TiersOK /\ FilesOK /\ ManifestOK
        /\ pc = "idle" /\ ~fenced /\ generation < MaxGen
        /\ UNCHANGED <<disk, schema, metric, tiers, mode>>
    BY DEF IInv, Checkpoint, Idle
  <1>2. CASE CommitLog /\ UNCHANGED <<generation, pc>>
    BY <1>1, <1>2, CommitLogStep DEF mode, ScalarsOK, FlagsOK
  <1>3. CASE W!Commit /\ generation' = generation + 1 /\ pc' = "seal"
    <2>1. /\ LogOK' /\ L!AckedKept /\ Len(file') = Len(file) + 1
          /\ file'[Len(file')].kind = "Commit" /\ file'[Len(file')].seq = next_seq
          /\ up /\ L!Below(file, next_seq) /\ AckedSeq' = next_seq
          /\ committed_seq' = next_seq /\ next_seq' = next_seq + 1
          /\ UNCHANGED <<up, fenced>>
      BY <1>1, <1>3, CommitFacts
    <2>2. LogTyped /\ AckedSeq < next_seq
      BY <1>1, <2>1, LogTypes, AckedBelow
    <2>3. HandleOK'
      <3>1. Len(file') \in 1..Len(file')
        BY <2>1, <2>2 DEF LogTyped
      <3> QED  BY <2>1, <3>1 DEF HandleOK
    <2>4. dim' = dim /\ next_seq <= next_seq'
      BY <1>1, <2>1, <2>2 DEF schema, LogTyped
    <2>5. TiersOK'
      BY <1>1, <2>1, <2>4, TiersStay
    <2>6. FilesOK' /\ ManifestOK'
      BY <1>1, <2>1, DiskStays
    <2>7. generation' \in 0..MaxGen /\ generation' > 0
      BY <1>1, <1>3, StoreAssumption DEF ScalarsOK
    <2>8. ScalarsOK' /\ FlagsOK'
      BY <1>1, <1>3, <2>1, <2>7 DEF ScalarsOK, FlagsOK, schema, mode
    <2>9. \A e \in seg \cup l0 : e.seq <= next_seq
      <3>1. \A e \in seg \cup l0 : e.seq \in Nat
        BY <1>1, EntryTypes DEF TiersOK, Sealable
      <3> QED
        BY <1>1, <2>1, <2>2, <3>1 DEF TiersOK, LogTyped
    <2>10. CallOK'
      BY <1>1, <1>3, <2>1, <2>7, <2>9 DEF CallOK, tiers
    <2> QED
      BY <2>1, <2>3, <2>5, <2>6, <2>8, <2>10 DEF IInv
  <1> QED
    BY <1>2, <1>3 DEF Checkpoint, CommitLog

(* The steps of a checkpoint after its barrier write nothing to the log.   *)
LEMMA SealStep ==
  ASSUME IInv, Seal
  PROVE  IInv'
  <1>1. /\ ScalarsOK /\ FlagsOK /\ TiersOK /\ FilesOK /\ ManifestOK /\ CallOK /\ LogOK
        /\ pc = "seal" /\ manifest' = manifest
        /\ UNCHANGED <<log, schema, metric, generation, tiers, mode>>
        /\ segfiles' \in {segfiles, segfiles \cup {Sealed}}
        /\ pc' = "idle" \/ (pc' = "publish" /\ Sealed \in segfiles')
    BY DEF IInv, Seal
  <1>2. /\ LogOK' /\ HandleOK' /\ TiersOK' /\ AckedSeq' = AckedSeq /\ up' = up /\ Sealed' = Sealed
        /\ seg' = seg /\ l0' = l0 /\ committed_seq' = committed_seq /\ generation' = generation
    BY <1>1, QuietStep
  <1>3. Sealable(Sealed.entries) /\ Sealed.generation \in 1..MaxGen
    <2>1. Sealable(Merged(seg, l0))
      BY <1>1, MergedSealable
    <2>2. generation \in 1..MaxGen
      BY <1>1, StoreAssumption DEF ScalarsOK, CallOK
    <2> QED
      BY <2>1, <2>2 DEF Sealed
  <1>4. FilesOK'
    BY <1>1, <1>3 DEF FilesOK
  <1>5. ManifestOK'
    BY <1>1, <1>2 DEF ManifestOK
  <1>6. ScalarsOK' /\ FlagsOK'
    BY <1>1, <1>2 DEF ScalarsOK, FlagsOK, schema, mode
  <1>7. CallOK'
    BY <1>1, <1>2 DEF CallOK
  <1> QED
    BY <1>2, <1>4, <1>5, <1>6, <1>7 DEF IInv

LEMMA PublishStep ==
  ASSUME IInv, Publish
  PROVE  IInv'
  <1> DEFINE m == ManifestOf(CoveredSeq, {Sealed})
  <1>1. /\ ScalarsOK /\ FlagsOK /\ TiersOK /\ FilesOK /\ ManifestOK /\ CallOK /\ LogOK
        /\ pc = "publish" /\ pc' \in {"swap", "idle"} /\ manifest' \in {manifest, m}
        /\ UNCHANGED <<log, segfiles, schema, metric, generation, tiers, mode>>
    BY DEF IInv, Publish
  <1>2. /\ LogOK' /\ HandleOK' /\ TiersOK' /\ AckedSeq' = AckedSeq /\ up' = up
        /\ seg' = seg /\ l0' = l0 /\ committed_seq' = committed_seq /\ generation' = generation
    BY <1>1, QuietStep
  <1>3. /\ m.generation = generation /\ m.checkpoint_seq = committed_seq /\ m.dim = dim
        /\ m.id_kind = id_kind /\ m.metric = metric /\ m.segments = {Sealed}
    BY DEF ManifestOf, CoveredSeq
  <1> HIDE DEF m
  <1>4. \A e \in Sealed.entries : e.seq <= committed_seq /\ dim # 0
    <2>1. Merged(seg, l0) \subseteq seg \cup l0
      BY <1>1, MergedSealable
    <2> QED
      BY <1>1, <2>1 DEF Sealed, CallOK, TiersOK
  <1>5. ManifestOK'
    <2>1. committed_seq = AckedSeq /\ Sealed \in segfiles /\ AckedSeq \in Nat
      BY <1>1, LogTypes DEF CallOK, LogTyped
    <2>2. ASSUME manifest' = m PROVE ManifestOK'
      <3>1. /\ manifest'.generation \in 0..MaxGen /\ manifest'.dim \in Dims \cup {0}
            /\ manifest'.id_kind \in {"int", "str", None} /\ manifest'.metric \in Metrics \cup {None}
        BY <1>1, <1>3, <2>2 DEF ScalarsOK
      <3>2. manifest'.checkpoint_seq \in Nat /\ manifest'.checkpoint_seq <= AckedSeq'
        BY <1>2, <1>3, <2>1, <2>2
      <3>3. /\ manifest'.segments \subseteq segfiles'
            /\ \A g, h \in manifest'.segments : g = h
            /\ \A g \in manifest'.segments : \A e \in g.entries :
                  e.seq <= manifest'.checkpoint_seq /\ manifest'.dim # 0
        BY <1>1, <1>3, <1>4, <2>1, <2>2
      <3> QED
        BY <3>1, <3>2, <3>3 DEF ManifestOK
    <2>3. ASSUME manifest' = manifest PROVE ManifestOK'
      BY <1>1, <1>2, <2>3 DEF ManifestOK
    <2> QED
      BY <1>1, <2>2, <2>3
  <1>6. FilesOK'
    BY <1>1 DEF FilesOK
  <1>7. ScalarsOK' /\ FlagsOK'
    BY <1>1, <1>2 DEF ScalarsOK, FlagsOK, schema, mode
  <1>8. CallOK'
    BY <1>1, <1>2 DEF CallOK
  <1> QED
    BY <1>2, <1>5, <1>6, <1>7, <1>8 DEF IInv

LEMMA SwapStep ==
  ASSUME IInv, Swap
  PROVE  IInv'
  <1>1. /\ ScalarsOK /\ FlagsOK /\ TiersOK /\ FilesOK /\ ManifestOK /\ CallOK /\ LogOK /\ HandleOK
        /\ pc = "swap" /\ UNCHANGED <<log, disk, schema, metric, generation, mode>>
    BY DEF IInv, Swap
  <1>2. LogOK' /\ L!AckedKept /\ LogTyped /\ AckedSeq' = AckedSeq
    BY <1>1, QuietLog, LogTypes DEF AckedSeq, log
  <1>3. FilesOK' /\ ManifestOK'
    BY <1>1, <1>2, DiskStays
  <1>4. HandleOK' /\ up' = up /\ fenced' = fenced /\ next_seq' = next_seq
    BY <1>1 DEF HandleOK, log
  <1>5. pc' \in {"gc", "idle"}
    BY DEF Swap
  <1>6. ScalarsOK' /\ FlagsOK' /\ CallOK'
    BY <1>1, <1>4, <1>5 DEF ScalarsOK, FlagsOK, CallOK, schema, mode
  <1>7. TiersOK'
    <2>1. CASE UNCHANGED tiers
      BY <1>1, <1>2, <1>4, <2>1, QuietStep DEF Swap
    <2>2. CASE seg' = Sealed.entries /\ l0' = {} /\ checkpoint_seq' = CoveredSeq
      <3>1. seg' = Merged(seg, l0)
        BY <2>2 DEF Sealed
      <3>2. Sealable(seg') /\ seg' \subseteq seg \cup l0
        BY <1>1, <3>1, MergedSealable
      <3>3. checkpoint_seq' = AckedSeq /\ \A e \in seg \cup l0 : e.seq <= AckedSeq
        BY <1>1, <2>2 DEF CallOK, CoveredSeq
      <3>4. dim' = 0 => seg' = {}
        BY <1>1, <3>2 DEF TiersOK, schema
      <3>5. AckedSeq \in Nat
        BY <1>2 DEF LogTyped
      <3> QED
        BY <1>2, <2>2, <3>2, <3>3, <3>4, <3>5 DEF TiersOK, OnePerId
    <2> QED
      BY <2>1, <2>2 DEF Swap
  <1> QED
    BY <1>2, <1>3, <1>4, <1>6, <1>7 DEF IInv

LEMMA GcStep ==
  ASSUME IInv, GcSegments \/ LoseManifest
  PROVE  IInv'
  <1>1. /\ ScalarsOK /\ FlagsOK /\ TiersOK /\ FilesOK /\ ManifestOK /\ CallOK /\ LogOK
        /\ UNCHANGED <<log, schema, metric, generation, tiers, mode>>
        /\ pc \in {"gc", "down"} /\ pc' \in {"idle", "down"} /\ (pc' = "down" <=> pc = "down")
    BY DEF IInv, GcSegments, LoseManifest
  <1>2. LogOK' /\ HandleOK' /\ TiersOK' /\ AckedSeq' = AckedSeq /\ up' = up
    BY <1>1, QuietStep
  <1>3. /\ segfiles' \subseteq segfiles
        /\ manifest' # None => manifest' = manifest /\ segfiles \cap manifest.segments \subseteq segfiles'
    BY DEF GcSegments, LoseManifest, NotReplaced
  <1>4. FilesOK'
    BY <1>1, <1>3 DEF FilesOK
  <1>5. ManifestOK'
    BY <1>1, <1>2, <1>3 DEF ManifestOK
  <1>6. ScalarsOK' /\ FlagsOK' /\ CallOK'
    BY <1>1, <1>2 DEF ScalarsOK, FlagsOK, CallOK, schema, mode
  <1> QED
    BY <1>2, <1>4, <1>5, <1>6 DEF IInv

LEMMA StutterStep ==
  ASSUME IInv, UNCHANGED vars
  PROVE  IInv'
  <1>1. /\ ScalarsOK /\ FlagsOK /\ FilesOK /\ ManifestOK /\ CallOK
        /\ UNCHANGED <<log, disk, schema, metric, generation, tiers, mode, pc>>
    BY DEF IInv, vars
  <1>2. /\ LogOK' /\ HandleOK' /\ TiersOK' /\ AckedSeq' = AckedSeq /\ up' = up /\ Sealed' = Sealed
        /\ seg' = seg /\ l0' = l0 /\ committed_seq' = committed_seq /\ generation' = generation
    BY <1>1, QuietStep
  <1>3. FilesOK' /\ ManifestOK'
    BY <1>1, <1>2 DEF FilesOK, ManifestOK, disk
  <1>4. ScalarsOK' /\ FlagsOK'
    BY <1>1, <1>2 DEF ScalarsOK, FlagsOK, schema, mode
  <1>5. CallOK'
    BY <1>1, <1>2 DEF CallOK, ManifestOf, disk, schema
  <1> QED
    BY <1>2, <1>3, <1>4, <1>5 DEF IInv

LEMMA NextStep ==
  ASSUME IInv, "use_after_drop" \notin Verbs, [Next]_vars
  PROVE  IInv'
  BY OpenStep, OpenFailsStep, GoneStep, RebuildStep, MutationStep, CommitsStep, SettingStep,
     RollbackStep, CheckpointStep, SealStep, PublishStep, SwapStep, GcStep, StutterStep
     DEF Next

-----------------------------------------------------------------------------
(* What every step does to the log.                                        *)

(* No record comes to the log. *)
SubRecords == \A i \in 1..Len(file') :
                 file'[i].kind = "Record" => i \in 1..Len(file) /\ file'[i] = file[i]

LiveRecord(id, d, v) == [id |-> id, dim |-> d, val |-> v, life |-> "live"]
Gravestone(id) == [id |-> id, dim |-> dim, val |-> None, life |-> "tombstone"]

(* A record comes to the log. *)
Upserted ==
    \E id \in Ids, d \in Dims, v \in Vals :
        Upsert(id, d, v) /\ LiveRecord(id, d, v) \in Records
        /\ W!AppendRecord(LiveRecord(id, d, v))
Deleted ==
    \E id \in Ids :
        Delete(id) /\ Gravestone(id) \in Records /\ W!AppendRecord(Gravestone(id))

LEMMA SubRecordsOf ==
  ASSUME Len(file) \in Nat, Len(file') \in Nat,
         \/ Begins(file', file)
         \/ Begins(file, file') /\ NoRecordAfter(file, file')
  PROVE  SubRecords
  BY DEF SubRecords, Begins, NoRecordAfter

LEMMA LogSteps ==
  ASSUME IInv, "use_after_drop" \notin Verbs, [Next]_vars
  PROVE  IInv' /\ L!AckedKept /\ (SubRecords \/ Upserted \/ Deleted)
  <1>1. IInv'
    BY NextStep
  <1>2. LogOK /\ FlagsOK /\ LogTyped /\ Len(file') \in Nat /\ Len(file) \in Nat
    <2>1. LogTyped /\ LogTyped'
      BY <1>1, LogTypes, PTL DEF IInv
    <2> QED
      BY <2>1 DEF IInv, LogTyped
  <1> DEFINE kept == L!AckedKept /\ SubRecords
  <1>3. W!Open => kept
    BY <1>2, OpenFacts, SubRecordsOf
  <1>4. W!OpenFailEffect /\ fenced' = up => kept
    BY <1>2, OpenFailFacts, SubRecordsOf
  <1>5. OpenFail => kept
    BY <1>4 DEF OpenFail, W!OpenFail
  <1>6. OpenRefused => kept
    <2> SUFFICES ASSUME OpenRefused PROVE kept
      OBVIOUS
    <2>1. L!AckedKept /\ Begins(file', file)
      BY <1>2, RefusedFacts DEF OpenRefused, FlagsOK
    <2> QED
      BY <1>2, <2>1, SubRecordsOf
  <1>7. CommitLog \/ W!AppendFail => kept
    BY <1>2, CommitFacts, FailFacts, SubRecordsOf DEF CommitLog
  <1>8. ASSUME NEW r, AppendRec(r), ~W!AppendRecord(r) PROVE kept
    BY <1>7, <1>8 DEF AppendRec
  <1>9. Rollback \/ DropTx => kept
    <2> SUFFICES ASSUME Rollback \/ DropTx PROVE kept
      OBVIOUS
    <2>1. up = TRUE
      BY <1>2 DEF LogOK, L!IInv, L!TypeOK, FlagsOK, Rollback, DropTx
    <2>2. W!Open \/ (W!OpenFailEffect /\ fenced' = up)
      BY <2>1 DEF Rollback, DropTx, W!OpenFail
    <2> QED
      BY <1>3, <1>4, <2>2
  <1>10. W!ProcessExit => kept
    BY <1>2, ExitFacts DEF SubRecords
  <1>11. W!PowerLoss => kept
    BY <1>2, PowerFacts DEF SubRecords
  <1>12. UNCHANGED log => kept
    BY <1>2, QuietLog DEF log, SubRecords
  <1>13. ASSUME NEW id \in Ids, NEW d \in Dims, NEW v \in Vals, Upsert(id, d, v)
         PROVE  kept \/ Upserted
    <2>1. LiveRecord(id, d, v) \in Records
      BY DEF LiveRecord, Records, Record
    <2>2. AppendRec(LiveRecord(id, d, v))
      BY <1>13 DEF Upsert, LiveRecord
    <2>3. CASE W!AppendRecord(LiveRecord(id, d, v))
      BY <1>13, <2>1, <2>3 DEF Upserted
    <2> HIDE DEF kept
    <2> QED
      BY <1>8, <2>2, <2>3
  <1>14. ASSUME NEW id \in Ids, Delete(id)
         PROVE  kept \/ Deleted
    <2>1. dim \in Dims
      <3>1. seg # {} \/ l0 # {}
        BY <1>14 DEF Delete, IsLive
      <3> QED
        BY <3>1 DEF IInv, TiersOK, ScalarsOK
    <2>2. Gravestone(id) \in Records
      BY <2>1 DEF Gravestone, Records, Tombstone
    <2>3. AppendRec(Gravestone(id))
      BY <1>14 DEF Delete, Gravestone
    <2>4. CASE W!AppendRecord(Gravestone(id))
      BY <1>14, <2>2, <2>4 DEF Deleted
    <2> HIDE DEF kept
    <2> QED
      BY <1>8, <2>3, <2>4
  <1> HIDE DEF kept
  <1>15. Open \/ Autocommit \/ Commit \/ CommitTx \/ Checkpoint => kept
    BY <1>3, <1>7 DEF Open, Autocommit, Commit, CommitTx, Checkpoint, CommitLog
  <1>16. RebuildFail \/ Exit \/ PowerLoss => kept
    BY <1>10, <1>11 DEF RebuildFail, Exit, PowerLoss
  <1>17. RebuildPublish \/ RebuildGc \/ Seal \/ Publish \/ Swap \/ GcSegments \/ LoseManifest => kept
    BY <1>12 DEF RebuildPublish, RebuildGc, Seal, Publish, Swap, GcSegments, LoseManifest
  <1>18. (\E m \in Metrics : SetMetric(m)) \/ Transaction \/ UNCHANGED vars => kept
    BY <1>12 DEF SetMetric, Transaction, vars
  <1>19. kept \/ Upserted \/ Deleted
    BY <1>5, <1>6, <1>9, <1>13, <1>14, <1>15, <1>16, <1>17, <1>18 DEF Next
  <1>20. Upserted \/ Deleted => L!AckedKept
    BY <1>2, AppendFacts DEF Upserted, Deleted
  <1> QED
    BY <1>1, <1>19, <1>20 DEF kept

-----------------------------------------------------------------------------
(* The theorems.                                                           *)

(* The log, the tiers, the files and the manifest agree as IInv says, at   *)
(* every step of every call and after every fault.  (Store)                *)
THEOREM Invariance ==
  ASSUME "use_after_drop" \notin Verbs
  PROVE  Spec => []IInv
  <1>1. Init => IInv
    BY InitStep
  <1>2. IInv /\ [Next]_vars => IInv'
    BY NextStep
  <1> QED
    BY <1>1, <1>2, PTL DEF Spec

(* The tiers have one entry per id, and every field its range, throughout. *)
(* (Store)                                                                 *)
THEOREM TypeCorrect ==
  ASSUME "use_after_drop" \notin Verbs
  PROVE  Spec => []TypeOK
  <1>1. IInv => TypeOK
    <2> SUFFICES ASSUME IInv PROVE TypeOK
      OBVIOUS
    <2>1. LogOK /\ ScalarsOK /\ FlagsOK /\ TiersOK /\ FilesOK /\ ManifestOK
      BY DEF IInv
    <2>2. W!TypeOK
      BY <2>1, SameLooks DEF LogOK, L!IInv
    <2>3. /\ l0 \subseteq Entry /\ OnePerId(l0) /\ seg \subseteq Entry /\ OnePerId(seg)
          /\ checkpoint_seq \in Nat
          /\ \A g \in segfiles : g.generation \in 1..MaxGen /\ g.entries \subseteq Entry
      BY <2>1 DEF TiersOK, FilesOK, Sealable
    <2>4. manifest # None =>
            /\ manifest.generation \in 0..MaxGen
            /\ manifest.checkpoint_seq \in Nat
            /\ manifest.dim \in Dims \cup {0}
            /\ manifest.id_kind \in {"int", "str", None}
            /\ manifest.metric \in Metrics \cup {None}
      BY <2>1 DEF ManifestOK
    <2> QED
      BY <2>1, <2>2, <2>3, <2>4 DEF TypeOK, ScalarsOK, FlagsOK
  <1> QED
    BY <1>1, Invariance, PTL

LEMMA ReadsOneAnswer == IInv => ReadPathsAgree
  <1> SUFFICES ASSUME IInv PROVE ReadPathsAgree
    OBVIOUS
  <1>1. TiersOK
    BY DEF IInv
  <1>2. Merged(seg, l0) = {e \in seg : ~Shadowed(e)} \cup Live(l0)
    BY <1>1, MergedIs
  <1>3. \A e \in seg : e.rec.life = "live"
    BY <1>1 DEF TiersOK, Sealable
  <1>4. TextCandidates = Merged(seg, l0)
    BY <1>2, <1>3 DEF TextCandidates, Live
  <1>5. ASSUME NEW id \in Ids
        PROVE  Get(id) = {e \in Merged(seg, l0) : e.rec.id = id}
    <2>1. CASE \E e \in Live(l0) : e.rec.id = id
      <3>1. \A e \in l0 : e.rec.id = id => e \in Live(l0)
        BY <1>1, <2>1 DEF TiersOK, OnePerId, Live
      <3>2. Get(id) = {e \in l0 : e.rec.id = id}
        BY <2>1 DEF Get, IsLive, Live
      <3>3. \A e \in seg : e.rec.id = id => Shadowed(e)
        BY <2>1 DEF Shadowed, Live
      <3> QED
        BY <1>2, <3>1, <3>2, <3>3 DEF Live
    <2>2. CASE (\E e \in l0 : e.rec.id = id) /\ ~\E e \in Live(l0) : e.rec.id = id
      <3>1. Get(id) = {}
        BY <2>2 DEF Get, IsLive
      <3>2. \A e \in seg : e.rec.id = id => Shadowed(e)
        BY <2>2 DEF Shadowed
      <3> QED
        BY <1>2, <2>2, <3>1, <3>2
    <2>3. CASE ~\E e \in l0 : e.rec.id = id
      <3>1. ~\E e \in Live(l0) : e.rec.id = id
        BY <2>3 DEF Live
      <3>2. Get(id) = {e \in seg : e.rec.id = id}
        BY <1>3, <2>3, <3>1 DEF Get, IsLive, Live
      <3>3. \A e \in seg : e.rec.id = id => ~Shadowed(e)
        BY <2>3 DEF Shadowed
      <3> QED
        BY <1>2, <3>1, <3>2, <3>3
    <2> QED
      BY <2>1, <2>2, <2>3
  <1> QED
    BY <1>4, <1>5 DEF ReadPathsAgree

(* Get, scan and the candidates of text search give one answer, for any    *)
(* number of ids and any history of calls and faults.  (is_live, get,      *)
(* merged_live, text_search_filtered)                                      *)
THEOREM ReadsAgree ==
  ASSUME "use_after_drop" \notin Verbs
  PROVE  Spec => []ReadPathsAgree
  BY ReadsOneAnswer, Invariance, PTL

(* What a crash leaves still has the acknowledged barrier, and recovery    *)
(* ends there or later.                                                    *)
LEMMA ImageKeepsBarrier ==
  ASSUME LogOK, NEW f \in W!CrashImages, NEW n \in 0..Len(f), NEW c \in 0..Len(f),
         Found(f, n, c)
  PROVE  acked <= c /\ AckedSeq <= SeqAt(f, c)
  <1>1. /\ f \in Seq(L!Frame) /\ Len(f) \in Nat /\ acked <= Len(f)
        /\ L!TornLast(f) /\ L!Rising(f)
        /\ \A i \in 1..acked : f[i] = file[i]
    BY ImageFacts
  <1>2. LogTyped /\ L!AckedCovered
    BY LogTypes DEF LogOK, L!IInv
  <1>3. L!Scanned(f, n) /\ L!LastBarrier(f, n, c)
    BY SameLooks DEF Found
  <1>4. \A i \in 1..Len(f) : f[i].seq \in Nat
    <2>1. \A i \in 1..Len(f) : f[i] \in L!Frame
      BY <1>1
    <2> QED
      BY <2>1, LogAssumption, L!FrameTypes
  <1>5. CASE acked = 0
    BY <1>1, <1>2, <1>4, <1>5 DEF AckedSeq, SeqAt, LogTyped
  <1>6. CASE acked > 0
    <2>1. acked \in 1..Len(f) /\ f[acked] = file[acked] /\ f[acked].kind = "Commit"
      BY <1>1, <1>2, <1>6 DEF L!AckedCovered, LogTyped
    <2>2. acked <= n
      BY <1>1, <1>3, <2>1 DEF L!Scanned, L!TornLast
    <2>3. acked <= c
      BY <1>3, <2>1, <2>2 DEF L!LastBarrier
    <2>4. f[acked].seq <= f[c].seq
      <3>1. CASE acked = c
        BY <1>4, <2>1, <3>1
      <3>2. CASE acked < c
        <4>1. c \in 1..Len(f) /\ f[c].kind # "Torn"
          BY <1>3, <2>1, <3>2 DEF L!LastBarrier
        <4>2. f[acked].seq < f[c].seq
          BY <1>1, <2>1, <3>2, <4>1 DEF L!Rising
        <4> QED
          BY <1>4, <2>1, <4>1, <4>2
      <3> QED
        BY <2>1, <2>3, <3>1, <3>2
    <2> QED
      BY <1>6, <2>1, <2>3, <2>4 DEF AckedSeq, SeqAt
  <1> QED
    BY <1>2, <1>5, <1>6 DEF LogTyped

(* The manifest names segments that exist, holds no record it does not     *)
(* cover, and covers nothing that a crash can take from the log, whichever *)
(* step of whichever call is interrupted.  (checkpoint, gc_segments)       *)
THEOREM ManifestKeepsItsWord ==
  ASSUME "use_after_drop" \notin Verbs
  PROVE  Spec => []ManifestHonest
  <1>1. IInv => ManifestHonest
    <2> SUFFICES ASSUME IInv, manifest # None
                 PROVE  /\ manifest.segments \subseteq segfiles
                        /\ \A g \in manifest.segments : \A e \in g.entries :
                              e.seq <= manifest.checkpoint_seq
                        /\ \A f \in W!CrashImages : \A n, c \in 0..Len(f) :
                              Found(f, n, c) => manifest.checkpoint_seq <= SeqAt(f, c)
      BY DEF ManifestHonest
    <2>1. LogOK /\ ManifestOK
      BY DEF IInv
    <2>2. ASSUME NEW f \in W!CrashImages, NEW n \in 0..Len(f), NEW c \in 0..Len(f),
                 Found(f, n, c)
          PROVE  manifest.checkpoint_seq <= SeqAt(f, c)
      <3>1. AckedSeq <= SeqAt(f, c)
        BY <2>1, <2>2, ImageKeepsBarrier
      <3>2. SeqAt(f, c) \in Nat
        <4>1. f \in Seq(L!Frame)
          BY <2>1, ImageFacts
        <4>2. c # 0 => f[c] \in L!Frame
          BY <4>1
        <4> QED
          BY <4>2, LogAssumption, L!FrameTypes DEF SeqAt
      <3>3. AckedSeq \in Nat /\ manifest.checkpoint_seq \in Nat
            /\ manifest.checkpoint_seq <= AckedSeq
        BY <2>1, LogTypes DEF LogTyped, ManifestOK
      <3> QED
        BY <3>1, <3>2, <3>3
    <2> QED
      BY <2>1, <2>2 DEF ManifestOK
  <1> QED
    BY <1>1, Invariance, PTL

(* Under connect nothing waits for a barrier between the calls.            *)
NothingWaits ==
    pc \notin {"down", "ack"} /\ ~fenced /\ autocommit /\ ~in_tx => EndsInBarrier(file)

LEMMA WaitsStep ==
  ASSUME IInv, "use_after_drop" \notin Verbs, NothingWaits, [Next]_vars
  PROVE  NothingWaits'
  <1>1. LogOK /\ FlagsOK /\ LogTyped
    BY LogTypes DEF IInv
  <1>2. CASE Open
    <2>1. EndsInBarrier(file')
      BY <1>1, <1>2, OpenFacts DEF Open
    <2> QED
      BY <2>1 DEF NothingWaits
  <1>3. CASE pc' = "down"
    BY <1>3 DEF NothingWaits
  <1>4. ASSUME NEW r, AppendRec(r), UNCHANGED mode
        PROVE  NothingWaits'
    <2>1. CASE pc' = AfterMutation
      BY <1>4, <2>1 DEF NothingWaits, AfterMutation, mode
    <2>2. CASE W!AppendFail
      BY <1>1, <2>2, FailFacts DEF NothingWaits
    <2> QED
      BY <1>4, <2>1, <2>2 DEF AppendRec
  <1>5. CASE CommitLog
    <2>1. CASE W!Commit
      <3>1. Len(file') = Len(file) + 1 /\ file'[Len(file')].kind = "Commit"
        BY <1>1, <2>1, CommitFacts
      <3> QED
        BY <3>1 DEF NothingWaits, EndsInBarrier
    <2>2. CASE W!CommitFail
      BY <1>1, <2>2, FailFacts DEF NothingWaits
    <2> QED
      BY <1>5, <2>1, <2>2 DEF CommitLog
  <1>6. CASE Rollback \/ DropTx
    <2>1. CASE W!Open
      <3>1. EndsInBarrier(file')
        BY <1>1, <2>1, OpenFacts
      <3> QED
        BY <3>1 DEF NothingWaits
    <2>2. CASE ~W!Open
      <3>1. up = TRUE
        BY <1>1, <1>6 DEF LogOK, L!IInv, L!TypeOK, FlagsOK, Rollback, DropTx
      <3>2. fenced'
        BY <1>6, <2>2, <3>1 DEF Rollback, DropTx, W!OpenFail
      <3> QED
        BY <3>2 DEF NothingWaits
    <2> QED
      BY <2>1, <2>2
  <1>7. CASE /\ UNCHANGED <<log, mode>>
             /\ pc' \notin {"down", "ack"} => pc \notin {"down", "ack"}
    <2>1. EndsInBarrier(file') <=> EndsInBarrier(file)
      BY <1>7 DEF log, EndsInBarrier
    <2> QED
      BY <1>7, <2>1 DEF NothingWaits, log, mode
  <1>8. CASE Transaction
    BY <1>8 DEF NothingWaits, Transaction
  <1> DEFINE quiet == /\ UNCHANGED <<log, mode>>
                      /\ pc' \notin {"down", "ack"} => pc \notin {"down", "ack"}
  <1>9. RebuildPublish \/ RebuildGc \/ Seal \/ Publish \/ Swap \/ GcSegments => quiet
    BY DEF RebuildPublish, RebuildGc, Seal, Publish, Swap, GcSegments
  <1>10. LoseManifest \/ (\E m \in Metrics : SetMetric(m)) \/ UNCHANGED vars => quiet
    BY DEF LoseManifest, SetMetric, vars
  <1>11. OpenFail \/ OpenRefused \/ RebuildFail \/ Exit \/ PowerLoss => pc' = "down"
    BY DEF OpenFail, OpenRefused, RebuildFail, Exit, PowerLoss, NoStore
  <1>12. Autocommit \/ Commit \/ CommitTx \/ Checkpoint => CommitLog
    BY DEF Autocommit, Commit, CommitTx, Checkpoint, CommitLog
  <1>13. ASSUME \/ \E id \in Ids, d \in Dims, v \in Vals : Upsert(id, d, v)
                \/ \E id \in Ids : Delete(id)
         PROVE  NothingWaits'
    <2>1. PICK r : AppendRec(r) /\ UNCHANGED mode
      BY <1>13 DEF Upsert, Delete
    <2> QED
      BY <1>4, <2>1
  <1> HIDE DEF quiet
  <1> QED
    BY <1>2, <1>3, <1>5, <1>6, <1>7, <1>8, <1>9, <1>10, <1>11, <1>12, <1>13 DEF Next, quiet

(* Under connect every mutation outside a transaction has its barrier when *)
(* it returns, after any history of failures.  (maybe_autocommit)          *)
THEOREM ConnectIsDurable ==
  ASSUME "use_after_drop" \notin Verbs
  PROVE  Spec => []AutocommitDurable
  <1>1. Init => NothingWaits
    BY DEF Init, NothingWaits
  <1>2. IInv /\ NothingWaits /\ [Next]_vars => NothingWaits'
    BY WaitsStep
  <1>3. IInv /\ NothingWaits => AutocommitDurable
    <2> SUFFICES ASSUME IInv, NothingWaits, pc = "idle", ~fenced, autocommit, ~in_tx, file # <<>>
                 PROVE  file[Len(file)].kind = "Commit"
      BY DEF AutocommitDurable
    <2>1. LogTyped
      BY LogTypes DEF IInv
    <2>2. Len(file) > 0
      BY <2>1 DEF LogTyped
    <2> QED
      BY <2>2 DEF NothingWaits, EndsInBarrier
  <1> QED
    BY <1>1, <1>2, <1>3, Invariance, PTL DEF Spec

-----------------------------------------------------------------------------
(* The store holds finitely many records. *)
FiniteTiers ==
    /\ IsFiniteSet(seg) /\ IsFiniteSet(l0)
    /\ \A g \in segfiles : IsFiniteSet(g.entries)

LEMMA ReplayFinite ==
  ASSUME NEW f, NEW c \in Nat, NEW s
  PROVE  IsFiniteSet(Replay(f, c, s))
  <1> DEFINE is == RecordsAbove(f, c, s)
             last == {j \in is : \A k \in is : f[k].rec.id = f[j].rec.id => k <= j}
             at == [i \in last |-> [seq |-> f[i].seq, rec |-> f[i].rec]]
  <1>1. last \in SUBSET (1..c)
    BY DEF RecordsAbove
  <1>2. Replay(f, c, s) = {at[i] : i \in last} /\ at = [i \in last |-> at[i]]
    BY DEF Replay
  <1> HIDE DEF last, at
  <1>3. IsFiniteSet(1..c)
    BY FS_Interval
  <1>4. IsFiniteSet(last)
    BY <1>1, <1>3, FS_Subset
  <1>5. at \in Surjection(last, Replay(f, c, s))
    <2>1. at \in [last -> Replay(f, c, s)] /\ \A x \in Replay(f, c, s) : \E i \in last : at[i] = x
      BY <1>2
    <2> QED
      BY <2>1 DEF Surjection
  <1> QED
    BY <1>4, <1>5, FS_Surjection

LEMMA FiniteStep ==
  ASSUME IInv, FiniteTiers, [Next]_vars
  PROVE  FiniteTiers'
  <1>1. ASSUME UNCHANGED <<seg, l0>>, segfiles' \subseteq segfiles PROVE FiniteTiers'
    BY <1>1 DEF FiniteTiers
  <1>2. ASSUME seg' = {}, l0' = {}, segfiles' \subseteq segfiles PROVE FiniteTiers'
    BY <1>2, FS_EmptySet DEF FiniteTiers
  <1>3. ASSUME seg' = seg, l0' \subseteq l0, segfiles' = segfiles PROVE FiniteTiers'
    BY <1>3, FS_Subset DEF FiniteTiers
  <1>4. ASSUME NEW r, l0' = Applied(l0, next_seq, r), seg' = seg, segfiles' = segfiles
        PROVE  FiniteTiers'
    <2>1. IsFiniteSet({e \in l0 : e.rec.id # r.id})
      BY FS_Subset DEF FiniteTiers
    <2>2. IsFiniteSet(Applied(l0, next_seq, r))
      BY <2>1, FS_AddElement DEF Applied
    <2> QED
      BY <1>4, <2>2 DEF FiniteTiers
  <1>5. IsFiniteSet(Merged(seg, l0))
    <2>1. Merged(seg, l0) \subseteq seg \cup l0 /\ IsFiniteSet(seg \cup l0)
      BY FS_Union DEF Merged, Live, FiniteTiers
    <2> QED
      BY <2>1, FS_Subset
  <1>6. CASE Open
    <2>1. /\ LogOK /\ ManifestOK /\ FilesOK /\ segfiles' = segfiles /\ W!Open
          /\ \E s : l0' = Replay(file', Len(file'), s)
          /\ seg' = {} \/ (manifest # None /\ seg' = TheSegment(manifest))
      <3>1. PICK readable \in Readability(manifest, segfiles) :
              LET r == Recovery(file', Len(file'), manifest, readable)
              IN  seg' = r.seg /\ l0' = r.l0
        BY <1>6 DEF Open
      <3> QED
        BY <1>6, <3>1 DEF IInv, Open, disk, Recovery, Honoured, TheSegment
    <2>2. Len(file') \in Nat
      <3>1. LogOK'
        BY <2>1, OpenFacts
      <3>2. LogTyped'
        BY <3>1, LogTypes, PTL
      <3> QED
        BY <3>2 DEF LogTyped
    <2>3. IsFiniteSet(l0')
      BY <2>1, <2>2, ReplayFinite
    <2>4. IsFiniteSet(seg')
      <3>1. CASE manifest # None /\ seg' = TheSegment(manifest) /\ manifest.segments # {}
        <4>1. PICK g \in manifest.segments : TRUE
          BY <3>1
        <4>2. manifest.segments = {g} /\ g \in segfiles
          BY <2>1, <3>1, <4>1 DEF ManifestOK
        <4>3. TheSegment(manifest) = g.entries
          BY <4>2 DEF TheSegment
        <4> QED
          BY <3>1, <4>2, <4>3 DEF FiniteTiers
      <3>2. CASE seg' = {}
        BY <3>2, FS_EmptySet
      <3>3. manifest.segments = {} => TheSegment(manifest) = {}
        BY DEF TheSegment
      <3> QED
        BY <2>1, <3>1, <3>2, <3>3
    <2> QED
      BY <2>1, <2>3, <2>4 DEF FiniteTiers
  <1>7. CASE OpenFail \/ OpenRefused \/ RebuildPublish \/ RebuildGc
    BY <1>1, <1>7 DEF OpenFail, OpenRefused, RebuildPublish, RebuildGc, tiers, disk
  <1>8. CASE RebuildFail \/ Exit \/ PowerLoss
    BY <1>2, <1>8 DEF RebuildFail, Exit, PowerLoss, NoStore, disk
  <1>9. ASSUME NEW id \in Ids, NEW d \in Dims, NEW v \in Vals, Upsert(id, d, v) PROVE FiniteTiers'
    BY <1>1, <1>4, <1>9 DEF Upsert, AppendRec, disk
  <1>10. ASSUME NEW id \in Ids, Delete(id) PROVE FiniteTiers'
    BY <1>1, <1>4, <1>10 DEF Delete, AppendRec, disk
  <1>11. CASE Autocommit \/ Commit \/ Transaction \/ CommitTx \/ Checkpoint \/ Publish \/ LoseManifest
    BY <1>1, <1>11 DEF Autocommit, Commit, Transaction, CommitTx, Checkpoint, Publish,
                       LoseManifest, tiers, disk
  <1>12. ASSUME NEW m \in Metrics, SetMetric(m) PROVE FiniteTiers'
    BY <1>1, <1>12 DEF SetMetric, tiers, disk
  <1>13. CASE Rollback \/ DropTx
    BY <1>3, <1>13 DEF Rollback, DropTx, RolledBack, disk
  <1>14. CASE Seal
    BY <1>5, <1>14 DEF Seal, Sealed, tiers, FiniteTiers
  <1>15. CASE Swap
    BY <1>1, <1>5, <1>15, FS_EmptySet DEF Swap, Sealed, tiers, disk, FiniteTiers
  <1>16. CASE GcSegments
    BY <1>1, <1>16 DEF GcSegments, NotReplaced, tiers
  <1>17. CASE UNCHANGED vars
    BY <1>1, <1>17 DEF vars, tiers, disk
  <1> QED
    BY <1>6, <1>7, <1>8, <1>9, <1>10, <1>11, <1>12, <1>13, <1>14, <1>15, <1>16, <1>17 DEF Next

LEMMA FiniteInvariance ==
  ASSUME "use_after_drop" \notin Verbs
  PROVE  Spec => []FiniteTiers
  <1>1. Init => FiniteTiers
    BY FS_EmptySet DEF Init, FiniteTiers
  <1>2. IInv /\ FiniteTiers /\ [Next]_vars => FiniteTiers'
    BY FiniteStep
  <1>3. Spec => []IInv
    BY Invariance
  <1> QED
    BY <1>1, <1>2, <1>3, PTL DEF Spec

-----------------------------------------------------------------------------
(* The schema: the length of the vectors and the kind of the ids, which    *)
(* the first write fixes. RAM, the manifest and the log each hold a part   *)
(* of this schema, at times none: a manifest published before the first    *)
(* record has none, a crash may take the record that fixed it. SchemaInv   *)
(* says what each owes the others.                                         *)
(*                                                                         *)
(* A store checkpointed before its first record may be refused by its own  *)
(* open (the run store_empty_checkpoint), so that one theorem excludes     *)
(* this call.                                                              *)

(* The records of f, the entries es, have the length d and ids of kind k.  *)
RecsAgree(f, d, k) ==
    \A i \in 1..Len(f) : f[i].kind = "Record" => f[i].rec.dim = d /\ Kind(f[i].rec.id) = k
EntriesAgree(es, d, k) == \A e \in es : e.rec.dim = d /\ Kind(e.rec.id) = k

Uniform(f) ==
    \A i, j \in 1..Len(f) : f[i].kind = "Record" /\ f[j].kind = "Record" =>
        f[i].rec.dim = f[j].rec.dim /\ Kind(f[i].rec.id) = Kind(f[j].rec.id)

StoreAgrees ==
    pc # "down" => RecsAgree(file, dim, id_kind) /\ EntriesAgree(seg \cup l0, dim, id_kind)

DimAndKind == dim = 0 <=> id_kind = None

(* What a manifest fixes, the log, its segment and the open store follow;  *)
(* one that fixes nothing covers no record.                                *)
ManifestAgrees ==
    manifest # None =>
        /\ manifest.dim = 0 <=> manifest.id_kind = None
        /\ manifest.dim # 0 => RecsAgree(file, manifest.dim, manifest.id_kind)
        /\ \A i \in 1..Len(file) :
              file[i].kind = "Record" /\ file[i].seq <= manifest.checkpoint_seq => manifest.dim # 0
        /\ EntriesAgree(TheSegment(manifest), manifest.dim, manifest.id_kind)
        /\ manifest.dim # 0 /\ pc \notin {"down", "rebuild_publish"} =>
              dim = manifest.dim /\ id_kind = manifest.id_kind

SchemaInv == Uniform(file) /\ StoreAgrees /\ DimAndKind /\ ManifestAgrees

LEMMA RecordDims ==
  ASSUME LogOK
  PROVE  \A i \in 1..Len(file) : file[i].kind = "Record" =>
            /\ file[i].rec \in Records /\ file[i].rec.dim # 0 /\ file[i].rec.dim \in Dims
            /\ file[i].seq \in Nat /\ file[i].seq > 0
  BY LogTypes, EntryTypes DEF LogOK, FramesTyped, LogTyped

LEMMA KindTypes == \A id : Kind(id) \in {"int", "str"} /\ Kind(id) # None
  BY NoneAssumption DEF Kind

(* A store without a dim has no record anywhere.                           *)
LEMMA NoDimNoRecord ==
  ASSUME IInv, SchemaInv, pc # "down", dim = 0
  PROVE  (\A i \in 1..Len(file) : file[i].kind # "Record") /\ seg = {} /\ l0 = {}
  <1>1. LogOK /\ TiersOK
    BY DEF IInv
  <1> QED
    BY <1>1, RecordDims DEF SchemaInv, StoreAgrees, RecsAgree, TiersOK

LEMMA FewerRecords ==
  ASSUME SubRecords
  PROVE  /\ Uniform(file) => Uniform(file')
         /\ \A d, k : RecsAgree(file, d, k) => RecsAgree(file', d, k)
  BY DEF SubRecords, Uniform, RecsAgree

LEMMA ManifestAgreesStays ==
  ASSUME ManifestAgrees, SubRecords, manifest' \in {manifest, None},
         pc' \notin {"down", "rebuild_publish"} /\ manifest # None /\ manifest.dim # 0 =>
            dim' = manifest.dim /\ id_kind' = manifest.id_kind
  PROVE  ManifestAgrees'
  <1> SUFFICES ASSUME manifest' # None, manifest' = manifest PROVE ManifestAgrees'
    BY DEF ManifestAgrees
  <1>1. manifest.dim # 0 => RecsAgree(file', manifest.dim, manifest.id_kind)
    BY FewerRecords DEF ManifestAgrees
  <1>2. \A i \in 1..Len(file') :
           file'[i].kind = "Record" /\ file'[i].seq <= manifest.checkpoint_seq => manifest.dim # 0
    BY DEF ManifestAgrees, SubRecords
  <1>3. EntriesAgree(TheSegment(manifest), manifest.dim, manifest.id_kind)
        /\ (manifest.dim = 0 <=> manifest.id_kind = None)
    BY DEF ManifestAgrees
  <1> QED
    BY <1>1, <1>2, <1>3 DEF ManifestAgrees, TheSegment

(* A step that brings no record, and changes the schema only where nothing *)
(* has it yet.                                                             *)
LEMMA SchemaStays ==
  ASSUME IInv, SchemaInv, SubRecords,
         manifest' \in {manifest, None},
         pc' # "down" => pc # "down" /\ seg' \cup l0' \subseteq seg \cup l0
                         /\ (dim # 0 => UNCHANGED schema),
         pc = "rebuild_publish" => pc' \in {"down", "rebuild_publish"},
         DimAndKind'
  PROVE  SchemaInv'
  <1>1. Uniform(file')
    BY FewerRecords DEF SchemaInv
  <1>2. StoreAgrees'
    <2> SUFFICES ASSUME pc' # "down"
                 PROVE  RecsAgree(file', dim', id_kind') /\ EntriesAgree(seg' \cup l0', dim', id_kind')
      BY DEF StoreAgrees, EntriesAgree, RecsAgree
    <2>1. CASE dim = 0
      <3>1. (\A i \in 1..Len(file) : file[i].kind # "Record") /\ seg = {} /\ l0 = {}
        BY <2>1, NoDimNoRecord
      <3> QED
        BY <3>1 DEF RecsAgree, EntriesAgree, SubRecords
    <2>2. CASE dim # 0
      <3>1. dim' = dim /\ id_kind' = id_kind
        BY <2>2 DEF schema
      <3> QED
        BY <3>1, FewerRecords DEF SchemaInv, StoreAgrees, EntriesAgree
    <2> QED
      BY <2>1, <2>2
  <1>3. ManifestAgrees'
    <2>1. ASSUME pc' \notin {"down", "rebuild_publish"}, manifest # None, manifest.dim # 0
          PROVE  dim' = manifest.dim /\ id_kind' = manifest.id_kind
      BY <2>1 DEF SchemaInv, ManifestAgrees, schema
    <2> QED
      BY <2>1, ManifestAgreesStays DEF SchemaInv
  <1> QED
    BY <1>1, <1>2, <1>3 DEF SchemaInv, Uniform

-----------------------------------------------------------------------------
(* The actions one by one.                                                 *)

(* A record of the store's schema comes to the log and to RAM.             *)
LEMMA AppendSchema ==
  ASSUME IInv, SchemaInv, pc = "idle", NEW r \in Records, AppendRec(r), W!AppendRecord(r),
         r.dim = dim', Kind(r.id) = id_kind', dim # 0 => UNCHANGED schema,
         DimAndKind', seg' = seg, manifest' = manifest
  PROVE  SchemaInv'
  <1>1. LogOK /\ LogTyped /\ ManifestOK /\ dim' # 0
    BY LogTypes, EntryTypes DEF IInv
  <1>2. /\ Begins(file, file') /\ Len(file') = Len(file) + 1
        /\ file'[Len(file) + 1] = [kind |-> "Record", seq |-> next_seq, rec |-> r]
        /\ L!Below(file, next_seq) /\ ~fenced'
    BY <1>1, AppendFacts
  <1>3. l0' = Applied(l0, next_seq, r)
    <2>1. ~W!AppendFail
      BY <1>1, <1>2, FailFacts
    <2> QED
      BY <2>1 DEF AppendRec
  <1>4. \A i \in 1..Len(file') : file'[i].kind = "Record" =>
           \/ i \in 1..Len(file) /\ file'[i] = file[i]
           \/ i = Len(file) + 1 /\ file'[i].rec = r /\ file'[i].seq = next_seq
    BY <1>1, <1>2 DEF Begins, LogTyped
  <1>5. RecsAgree(file, dim', id_kind') /\ EntriesAgree(seg \cup l0, dim', id_kind')
    <2>1. CASE dim = 0
      BY <2>1, NoDimNoRecord DEF RecsAgree, EntriesAgree
    <2>2. CASE dim # 0
      BY <2>2 DEF SchemaInv, StoreAgrees, schema
    <2> QED
      BY <2>1, <2>2
  <1>6. RecsAgree(file', dim', id_kind')
    BY <1>4, <1>5 DEF RecsAgree
  <1>7. EntriesAgree(seg' \cup l0', dim', id_kind')
    BY <1>3, <1>5 DEF EntriesAgree, Applied
  <1>8. Uniform(file')
    BY <1>6 DEF Uniform, RecsAgree
  <1>9. ManifestAgrees'
    <2> SUFFICES ASSUME manifest # None PROVE ManifestAgrees'
      BY DEF ManifestAgrees
    <2>1. /\ manifest.checkpoint_seq \in Nat /\ manifest.checkpoint_seq <= AckedSeq
          /\ AckedSeq < next_seq /\ AckedSeq \in Nat /\ next_seq \in Nat
      BY <1>1, <1>2, AckedBelow DEF ManifestOK, LogTyped
    <2>2. manifest.dim # 0 => dim' = manifest.dim /\ id_kind' = manifest.id_kind
      BY DEF SchemaInv, ManifestAgrees, schema
    <2>3. manifest.dim # 0 => RecsAgree(file', manifest.dim, manifest.id_kind)
      BY <1>6, <2>2
    <2>4. \A i \in 1..Len(file') :
             file'[i].kind = "Record" /\ file'[i].seq <= manifest.checkpoint_seq => manifest.dim # 0
      BY <1>4, <2>1 DEF SchemaInv, ManifestAgrees
    <2>5. EntriesAgree(TheSegment(manifest), manifest.dim, manifest.id_kind)
          /\ (manifest.dim = 0 <=> manifest.id_kind = None)
      BY DEF SchemaInv, ManifestAgrees
    <2> QED
      BY <2>2, <2>3, <2>4, <2>5 DEF ManifestAgrees, TheSegment
  <1> QED
    BY <1>6, <1>7, <1>8, <1>9 DEF SchemaInv, StoreAgrees, RecsAgree, EntriesAgree, Uniform

LEMMA MutationSchema ==
  ASSUME IInv, SchemaInv, SubRecords \/ Upserted \/ Deleted,
         \/ \E id \in Ids, d \in Dims, v \in Vals : Upsert(id, d, v)
         \/ \E id \in Ids : Delete(id)
  PROVE  SchemaInv'
  <1>1. ASSUME NEW id \in Ids, NEW d \in Dims, NEW v \in Vals, Upsert(id, d, v)
        PROVE  /\ DimAndKind' /\ (dim # 0 => UNCHANGED schema)
               /\ LiveRecord(id, d, v).dim = dim' /\ Kind(LiveRecord(id, d, v).id) = id_kind'
    <2>1. dim' = d /\ id_kind' = Kind(id) /\ dim \in {0, d} /\ id_kind \in {None, Kind(id)}
      BY <1>1 DEF Upsert, SchemaAllows
    <2>2. d # 0
      BY StoreAssumption
    <2> QED
      BY <2>1, <2>2, KindTypes DEF SchemaInv, DimAndKind, schema, LiveRecord
  <1>2. ASSUME NEW id \in Ids, Delete(id)
        PROVE  /\ UNCHANGED schema /\ Gravestone(id).dim = dim' /\ Kind(Gravestone(id).id) = id_kind'
    <2>1. UNCHANGED schema /\ IsLive(id) /\ pc # "down"
      BY <1>2 DEF Delete, Idle
    <2>2. PICK e \in seg \cup l0 : e.rec.id = id
      BY <2>1 DEF IsLive, Live
    <2>3. Kind(id) = id_kind
      BY <2>1, <2>2 DEF SchemaInv, StoreAgrees, EntriesAgree
    <2> QED
      BY <2>1, <2>3 DEF Gravestone, schema
  <1>3. CASE Upserted
    <2>1. PICK id \in Ids, d \in Dims, v \in Vals :
             Upsert(id, d, v) /\ LiveRecord(id, d, v) \in Records
             /\ W!AppendRecord(LiveRecord(id, d, v))
      BY <1>3 DEF Upserted
    <2>2. /\ AppendRec(LiveRecord(id, d, v)) /\ pc = "idle" /\ seg' = seg /\ manifest' = manifest
      BY <2>1 DEF Upsert, LiveRecord, Idle, disk
    <2> QED
      BY <1>1, <2>1, <2>2, AppendSchema
  <1>4. CASE Deleted
    <2>1. PICK id \in Ids :
             Delete(id) /\ Gravestone(id) \in Records /\ W!AppendRecord(Gravestone(id))
      BY <1>4 DEF Deleted
    <2>2. /\ AppendRec(Gravestone(id)) /\ pc = "idle" /\ seg' = seg /\ manifest' = manifest
      BY <2>1 DEF Delete, Gravestone, Idle, disk
    <2>3. DimAndKind'
      BY <1>2, <2>1 DEF SchemaInv, DimAndKind, schema
    <2> QED
      BY <1>2, <2>1, <2>2, <2>3, AppendSchema
  <1>5. CASE SubRecords /\ ~Upserted /\ ~Deleted
    <2>1. PICK r \in Records : AppendRec(r) /\ ~W!AppendRecord(r)
      <3>1. ASSUME NEW id \in Ids, NEW d \in Dims, NEW v \in Vals, Upsert(id, d, v)
            PROVE  \E r \in Records : AppendRec(r) /\ ~W!AppendRecord(r)
        <4>1. LiveRecord(id, d, v) \in Records /\ AppendRec(LiveRecord(id, d, v))
          BY <3>1 DEF LiveRecord, Records, Record, Upsert
        <4> QED
          BY <1>5, <3>1, <4>1 DEF Upserted
      <3>2. ASSUME NEW id \in Ids, Delete(id)
            PROVE  \E r \in Records : AppendRec(r) /\ ~W!AppendRecord(r)
        <4>1. dim \in Dims
          <5>1. seg # {} \/ l0 # {}
            BY <3>2 DEF Delete, IsLive
          <5> QED
            BY <5>1 DEF IInv, TiersOK, ScalarsOK
        <4>2. Gravestone(id) \in Records /\ AppendRec(Gravestone(id))
          BY <3>2, <4>1 DEF Gravestone, Records, Tombstone, Delete
        <4> QED
          BY <1>5, <3>2, <4>2 DEF Deleted
      <3> QED
        BY <3>1, <3>2
    <2>2. pc' = pc /\ pc = "idle" /\ l0' = l0
      BY <2>1 DEF AppendRec, Upsert, Delete, Idle
    <2>3. seg' = seg /\ manifest' = manifest
      BY DEF Upsert, Delete, disk
    <2>4. DimAndKind' /\ (dim # 0 => UNCHANGED schema)
      <3>1. UNCHANGED schema => DimAndKind'
        BY DEF SchemaInv, DimAndKind, schema
      <3> QED
        BY <1>1, <1>2, <3>1
    <2> QED
      BY <1>5, <2>2, <2>3, <2>4, SchemaStays
  <1> QED
    BY <1>3, <1>4, <1>5

(* The schema a recovery arrives at: the manifest's, or the one of the     *)
(* records it replays, or none when there is neither.                      *)
LEMMA OpenSchema ==
  ASSUME IInv, IInv', SchemaInv, SubRecords, Open
  PROVE  SchemaInv'
  <1>1. LogOK /\ LogOK' /\ ManifestOK /\ ManifestAgrees
    BY DEF IInv, SchemaInv
  <1>2. manifest' = manifest
    BY DEF Open, disk
  <1>3. PICK readable \in Readability(manifest, segfiles) :
          LET r == Recovery(file', Len(file'), manifest, readable)
          IN  /\ \E s \in r.schemas : dim' = s[1] /\ id_kind' = s[2]
              /\ seg' = r.seg
              /\ l0' = r.l0
              /\ pc' = (IF r.rebuilt THEN "rebuild_publish" ELSE "idle")
    BY DEF Open
  <1> DEFINE ok == Honoured(file', Len(file'), manifest, readable)
             base == IF ok THEN manifest.checkpoint_seq ELSE 0
             d == IF ok THEN manifest.dim ELSE 0
             k == IF ok /\ Opened(manifest) THEN manifest.id_kind ELSE None
             new == RecordsAbove(file', Len(file'), base)
  <1>4. /\ \E s \in ReplayedSchema(file', Len(file'), base, d, k) : dim' = s[1] /\ id_kind' = s[2]
        /\ seg' = (IF ok THEN TheSegment(manifest) ELSE {})
        /\ l0' = Replay(file', Len(file'), base)
        /\ pc' = (IF ok THEN "idle" ELSE "rebuild_publish")
    BY <1>3 DEF Recovery, TheSegment
  <1>5. ok => manifest # None /\ manifest.checkpoint_seq \in Nat
              /\ (manifest.dim # 0 => manifest.dim \in Dims /\ manifest.dim > 0)
    <2>1. ok => manifest # None
      BY DEF Honoured
    <2>2. manifest # None => manifest.checkpoint_seq \in Nat /\ manifest.dim \in Dims \cup {0}
      BY <1>1 DEF ManifestOK
    <2>3. \A x \in Dims : x > 0
      BY StoreAssumption
    <2> QED
      BY <2>1, <2>2, <2>3
  <1>6. /\ d = 0 <=> k = None
        /\ d # 0 => ok /\ d = manifest.dim /\ k = manifest.id_kind
    BY <1>1, <1>5 DEF ManifestAgrees, Opened
  <1>7. /\ \A i \in new : file'[i].rec.dim = dim' /\ Kind(file'[i].rec.id) = id_kind'
        /\ IF d = 0 /\ new # {} THEN dim' # 0 ELSE dim' = d
        /\ IF k = None /\ new # {} THEN id_kind' # None ELSE id_kind' = k
    <2> HIDE DEF base, d, k
    <2> QED
      BY <1>4 DEF ReplayedSchema
  <1>8. \A i \in 1..Len(file') : file'[i].kind = "Record" =>
           /\ i \in 1..Len(file) /\ file'[i] = file[i]
           /\ i \in new \/ (ok /\ file[i].seq <= manifest.checkpoint_seq /\ manifest.dim # 0)
    <2> SUFFICES ASSUME NEW i \in 1..Len(file'), file'[i].kind = "Record"
                 PROVE  /\ i \in 1..Len(file) /\ file'[i] = file[i]
                        /\ i \in new \/ (ok /\ file[i].seq <= manifest.checkpoint_seq /\ manifest.dim # 0)
      OBVIOUS
    <2>1. i \in 1..Len(file) /\ file'[i] = file[i]
      BY DEF SubRecords
    <2>2. file[i].seq \in Nat /\ file[i].seq > 0
      BY <1>1, <2>1, RecordDims
    <2>3. i \in new \/ (ok /\ file[i].seq <= manifest.checkpoint_seq)
      BY <1>5, <2>1, <2>2 DEF RecordsAbove
    <2> QED
      BY <1>1, <1>5, <2>1, <2>3 DEF ManifestAgrees
  <1>9. d # 0 => /\ RecsAgree(file', d, k) /\ dim' = d /\ id_kind' = k
                 /\ EntriesAgree(seg', d, k)
    <2> SUFFICES ASSUME d # 0 PROVE /\ RecsAgree(file', d, k) /\ dim' = d /\ id_kind' = k
                                    /\ EntriesAgree(seg', d, k)
      OBVIOUS
    <2>1. RecsAgree(file', d, k)
      BY <1>1, <1>5, <1>6, FewerRecords DEF ManifestAgrees
    <2>2. EntriesAgree(TheSegment(manifest), d, k)
      BY <1>1, <1>5, <1>6 DEF ManifestAgrees
    <2> HIDE DEF base, d, k, new
    <2> QED
      BY <1>4, <1>6, <1>7, <2>1, <2>2
  <1>10. d = 0 => seg' = {} /\ RecsAgree(file', dim', id_kind')
    <2> SUFFICES ASSUME d = 0 PROVE seg' = {} /\ RecsAgree(file', dim', id_kind')
      OBVIOUS
    <2>1. ok => manifest.dim = 0
      OBVIOUS
    <2>2. seg' = {}
      <3>1. CASE ok
        <4>1. \A e \in TheSegment(manifest) : manifest.dim # 0
          BY <1>1, <1>5, <3>1 DEF TheSegment, ManifestOK
        <4> QED
          BY <1>4, <2>1, <3>1, <4>1
      <3>2. CASE ~ok
        BY <1>4, <3>2
      <3> QED
        BY <3>1, <3>2
    <2>3. RecsAgree(file', dim', id_kind')
      <3> HIDE DEF ok, new, d
      <3> QED
        BY <1>7, <1>8, <2>1 DEF RecsAgree
    <2> QED
      BY <2>2, <2>3
  <1>11. RecsAgree(file', dim', id_kind') /\ EntriesAgree(seg', dim', id_kind')
    <2> HIDE DEF d, k
    <2> QED
      BY <1>9, <1>10 DEF EntriesAgree
  <1>12. EntriesAgree(l0', dim', id_kind')
    <2>1. \A e \in l0' : \E i \in new : e = [seq |-> file'[i].seq, rec |-> file'[i].rec]
      BY <1>4, ReplayMember
    <2> HIDE DEF new
    <2> QED
      BY <1>7, <2>1 DEF EntriesAgree
  <1>13. DimAndKind'
    <2> HIDE DEF d, k, new, ok
    <2> QED
      BY <1>6, <1>7 DEF DimAndKind
  <1>14. ManifestAgrees'
    <2>1. ASSUME pc' \notin {"down", "rebuild_publish"}, manifest # None, manifest.dim # 0
          PROVE  dim' = manifest.dim /\ id_kind' = manifest.id_kind
      <3>1. ok
        BY <1>4, <2>1
      <3>2. d # 0
        BY <2>1, <3>1
      <3> QED
        BY <1>6, <1>9, <3>2
    <2> QED
      BY <1>1, <1>2, <2>1, ManifestAgreesStays
  <1>15. Uniform(file')
    BY FewerRecords DEF SchemaInv
  <1> QED
    BY <1>11, <1>12, <1>13, <1>14, <1>15
       DEF SchemaInv, StoreAgrees, Uniform, RecsAgree, EntriesAgree

(* A manifest is written: an empty one, or one for the sealed view; or the *)
(* rebuild that wrote it fails.                                            *)
LEMMA PublishSchema ==
  ASSUME IInv, SchemaInv, SubRecords, NEW s \in Nat, NEW gs \in SUBSET {Sealed},
         manifest' = ManifestOf(s, gs), file' = file, pc # "down",
         pc' # "down" => UNCHANGED <<schema, tiers>>, DimAndKind'
  PROVE  SchemaInv'
  <1>1. LogOK /\ TiersOK
    BY DEF IInv
  <1>2. RecsAgree(file, dim, id_kind) /\ EntriesAgree(seg \cup l0, dim, id_kind)
    BY DEF SchemaInv, StoreAgrees
  <1>3. /\ manifest'.dim = dim /\ manifest'.id_kind = id_kind /\ manifest'.segments = gs
    BY DEF ManifestOf
  <1>4. EntriesAgree(TheSegment(manifest'), dim, id_kind)
    <2>1. Merged(seg, l0) \subseteq seg \cup l0
      BY <1>1, MergedSealable
    <2>2. \A e \in TheSegment(manifest') : e \in seg \cup l0
      BY <1>3, <2>1 DEF TheSegment, Sealed
    <2> QED
      BY <1>2, <2>2 DEF EntriesAgree
  <1>5. \A i \in 1..Len(file) : file[i].kind = "Record" => dim # 0
    BY <1>1, <1>2, RecordDims DEF RecsAgree
  <1>6. ManifestAgrees'
    BY <1>2, <1>3, <1>4, <1>5
       DEF SchemaInv, DimAndKind, ManifestAgrees, RecsAgree, EntriesAgree, TheSegment, schema
  <1>7. StoreAgrees'
    BY <1>2 DEF StoreAgrees, RecsAgree, EntriesAgree, schema, tiers
  <1> QED
    BY <1>6, <1>7 DEF SchemaInv, Uniform

LEMMA SchemaStep ==
  ASSUME IInv, SchemaInv, "use_after_drop" \notin Verbs, [Next]_vars
  PROVE  SchemaInv'
  <1>1. IInv' /\ (SubRecords \/ Upserted \/ Deleted)
    BY LogSteps
  <1>2. LogOK /\ TiersOK /\ DimAndKind
    BY DEF IInv, SchemaInv
  <1>3. CASE \/ \E id \in Ids, d \in Dims, v \in Vals : Upsert(id, d, v)
             \/ \E id \in Ids : Delete(id)
    BY <1>1, <1>3, MutationSchema
  <1>4. ASSUME ~\E id \in Ids, d \in Dims, v \in Vals : Upsert(id, d, v),
               ~\E id \in Ids : Delete(id)
        PROVE  SubRecords
    BY <1>1, <1>4 DEF Upserted, Deleted
  <1>5. CASE SubRecords
    <2>1. UNCHANGED schema => DimAndKind'
      BY <1>2 DEF DimAndKind, schema
    <2>2. NoStore => DimAndKind' /\ pc' = "down"
      BY DEF NoStore, DimAndKind
    <2>3. CASE Open
      BY <1>1, <1>5, <2>3, OpenSchema
    <2> DEFINE stays == /\ manifest' \in {manifest, None}
                        /\ pc' # "down" => pc # "down" /\ seg' \cup l0' \subseteq seg \cup l0
                                           /\ (dim # 0 => UNCHANGED schema)
                        /\ pc = "rebuild_publish" => pc' \in {"down", "rebuild_publish"}
                        /\ DimAndKind'
    <2>4. CASE stays
      BY <1>5, <2>4, SchemaStays
    <2>5. OpenFail \/ OpenRefused \/ Exit \/ PowerLoss \/ LoseManifest => stays
      BY <2>1, <2>2 DEF OpenFail, OpenRefused, Exit, PowerLoss, LoseManifest, disk
    <2>6. CASE RebuildFail
      <3>1. file' = file
        BY <1>2, <2>6, ExitFacts DEF RebuildFail
      <3>2. CASE manifest' = manifest
        <4>1. stays
          BY <2>2, <2>6, <3>2 DEF RebuildFail
        <4> HIDE DEF stays
        <4> QED
          BY <2>4, <4>1
      <3>3. CASE manifest' = ManifestOf(0, {})
        BY <1>5, <2>2, <2>6, <3>1, <3>3, PublishSchema DEF RebuildFail
      <3> QED
        BY <2>6, <3>2, <3>3 DEF RebuildFail
    <2>7. CASE RebuildPublish
      <3>1. /\ manifest' = ManifestOf(0, {}) /\ file' = file /\ pc # "down"
            /\ UNCHANGED <<schema, tiers>> /\ DimAndKind'
        BY <2>1, <2>7 DEF RebuildPublish, log
      <3> QED
        BY <1>5, <3>1, PublishSchema
    <2>8. CASE Publish
      <3>1. file' = file /\ pc = "publish" /\ UNCHANGED <<schema, tiers>> /\ DimAndKind'
        BY <2>1, <2>8 DEF Publish, log
      <3>2. CASE manifest' = ManifestOf(CoveredSeq, {Sealed})
        <4>1. CoveredSeq \in Nat
          BY <1>2, LogTypes DEF CoveredSeq, LogTyped
        <4> QED
          BY <1>5, <3>1, <3>2, <4>1, PublishSchema
      <3>3. CASE manifest' = manifest
        <4>1. stays
          BY <3>1, <3>3 DEF tiers
        <4> HIDE DEF stays
        <4> QED
          BY <2>4, <4>1
      <3> QED
        BY <2>8, <3>2, <3>3 DEF Publish
    <2>9. RebuildGc \/ Seal \/ GcSegments => stays
      BY <2>1 DEF RebuildGc, Seal, GcSegments, tiers
    <2>10. Swap => stays
      <3> SUFFICES ASSUME Swap PROVE stays
        OBVIOUS
      <3>1. Merged(seg, l0) \subseteq seg \cup l0
        BY <1>2, MergedSealable
      <3>2. seg' \cup l0' \subseteq seg \cup l0
        BY <3>1 DEF Swap, Sealed, tiers
      <3> QED
        BY <2>1, <3>2 DEF Swap, disk
    <2>11. Autocommit \/ Commit \/ CommitTx \/ Checkpoint => stays
      BY <2>1 DEF Autocommit, Commit, CommitTx, Checkpoint, Idle, disk, tiers
    <2>12. Rollback \/ DropTx => stays
      BY <2>1 DEF Rollback, DropTx, RolledBack, disk
    <2>13. (\E m \in Metrics : SetMetric(m)) \/ Transaction \/ UNCHANGED vars => stays
      BY <2>1 DEF SetMetric, Transaction, vars, Idle, disk, tiers
    <2> HIDE DEF stays
    <2>14. CASE \/ \E id \in Ids, d \in Dims, v \in Vals : Upsert(id, d, v)
                \/ \E id \in Ids : Delete(id)
      BY <1>3, <2>14
    <2> QED
      BY <2>3, <2>4, <2>5, <2>6, <2>7, <2>8, <2>9, <2>10, <2>11, <2>12, <2>13, <2>14 DEF Next
  <1> QED
    BY <1>3, <1>4, <1>5

LEMMA SchemaInit == Init => SchemaInv
  BY DEF Init, W!Init, SchemaInv, Uniform, StoreAgrees, DimAndKind, ManifestAgrees

-----------------------------------------------------------------------------
(* The theorems.                                                           *)

(* The first write fixes the length and the kind of id, and no history of  *)
(* calls, faults and recoveries ever mixes two in the log or in the store. *)
(* (upsert, apply_replayed)                                                *)
THEOREM SchemaNeverMixes ==
  ASSUME "use_after_drop" \notin Verbs
  PROVE  Spec => []SchemaUniform
  <1>1. Init => IInv /\ SchemaInv
    BY InitStep, SchemaInit
  <1>2. IInv /\ SchemaInv /\ [Next]_vars => IInv' /\ SchemaInv'
    BY NextStep, SchemaStep
  <1>3. IInv /\ SchemaInv => SchemaUniform
    BY DEF SchemaInv, SchemaUniform, Uniform, StoreAgrees, EntriesAgree, RecordsAbove
  <1> QED
    BY <1>1, <1>2, <1>3, PTL DEF Spec

(* A segment is sealed only by a store that has a length, and a manifest   *)
(* that names one says so.                                                 *)
SegmentsHaveDim ==
    /\ pc \in {"seal", "publish", "swap"} => dim # 0
    /\ manifest # None /\ manifest.segments # {} => manifest.dim # 0

LEMMA SegmentsHaveDimStep ==
  ASSUME IInv, SchemaInv, SegmentsHaveDim, "checkpoint_empty" \notin Verbs, [Next]_vars
  PROVE  SegmentsHaveDim'
  <1>1. CASE \/ \E id \in Ids, d \in Dims, v \in Vals : Upsert(id, d, v)
             \/ \E id \in Ids : Delete(id)
    <2>1. pc' \in {"idle", "ack"} /\ manifest' = manifest
      BY <1>1 DEF Upsert, Delete, AppendRec, AfterMutation, Idle, disk
    <2> QED
      BY <2>1 DEF SegmentsHaveDim
  <1>2. CASE Checkpoint
    BY <1>2 DEF Checkpoint, SchemaInv, DimAndKind, SegmentsHaveDim, Idle, disk, schema
  <1>3. CASE Seal \/ Swap \/ Publish
    BY <1>3 DEF Seal, Swap, Publish, SegmentsHaveDim, ManifestOf, disk, schema
  <1>4. CASE RebuildPublish \/ RebuildFail
    BY <1>4 DEF RebuildPublish, RebuildFail, NoStore, SegmentsHaveDim, ManifestOf
  <1>5. CASE Open \/ OpenFail \/ OpenRefused \/ Exit \/ PowerLoss \/ LoseManifest
             \/ RebuildGc \/ GcSegments
    BY <1>5 DEF Open, OpenFail, OpenRefused, Exit, PowerLoss, LoseManifest,
                RebuildGc, GcSegments, NoStore, SegmentsHaveDim, disk
  <1>6. CASE \/ Autocommit \/ Commit \/ CommitTx \/ Rollback \/ DropTx \/ Transaction
             \/ (\E m \in Metrics : SetMetric(m)) \/ UNCHANGED vars
    BY <1>6 DEF Autocommit, Commit, CommitTx, Rollback, DropTx, Transaction, SetMetric, vars,
                SegmentsHaveDim, disk, schema, Idle
  <1> QED
    BY <1>1, <1>2, <1>3, <1>4, <1>5, <1>6 DEF Next

LEMMA OpensAgain ==
  ASSUME IInv, SchemaInv, SegmentsHaveDim, NEW f \in W!CrashImages,
         NEW n \in 0..Len(f), NEW c \in 0..Len(f), Found(f, n, c), NEW readable
  PROVE  Accepted(Recovery(f, c, manifest, readable))
  <1> DEFINE ok == Honoured(f, c, manifest, readable)
             base == IF ok THEN manifest.checkpoint_seq ELSE 0
             d == IF ok THEN manifest.dim ELSE 0
             k == IF ok /\ Opened(manifest) THEN manifest.id_kind ELSE None
             new == RecordsAbove(f, c, base)
             r == Recovery(f, c, manifest, readable)
  <1>1. LogOK /\ ManifestOK /\ ManifestAgrees /\ Uniform(file)
    BY DEF IInv, SchemaInv
  <1>2. ok => /\ manifest # None /\ manifest.dim \in Dims \cup {0}
              /\ manifest.id_kind \in {"int", "str", None}
              /\ (manifest.dim # 0 => manifest.dim > 0)
    <2>1. ok => manifest # None
      BY DEF Honoured
    <2>2. manifest # None => /\ manifest.dim \in Dims \cup {0}
                             /\ manifest.id_kind \in {"int", "str", None}
      BY <1>1 DEF ManifestOK
    <2>3. \A x \in Dims : x > 0
      BY StoreAssumption
    <2> QED
      BY <2>1, <2>2, <2>3
  <1>3. ~r.v1 /\ r.schemas = ReplayedSchema(f, c, base, d, k)
    <2>1. r.v1 = (ok /\ Opened(manifest) /\ manifest.id_kind = None)
          /\ r.schemas = ReplayedSchema(f, c, base, d, k)
      BY DEF Recovery
    <2>2. ok /\ Opened(manifest) => manifest.id_kind # None
      BY <1>1, <1>2 DEF ManifestAgrees, Opened, SegmentsHaveDim
    <2> QED
      BY <2>1, <2>2
  <1>4. /\ d = 0 <=> k = None
        /\ d \in Dims \cup {0} /\ k \in {"int", "str", None}
        /\ d # 0 => RecsAgree(file, d, k)
    BY <1>1, <1>2 DEF ManifestAgrees, Opened
  <1>5. \A i \in new : /\ i \in 1..Len(file) /\ f[i] = file[i] /\ file[i].kind = "Record"
                       /\ file[i].rec.dim \in Dims /\ file[i].rec.dim # 0
    <2>1. \A i \in new : i \in 1..Len(f) /\ f[i].kind = "Record"
      BY DEF RecordsAbove
    <2> QED
      BY <1>1, <2>1, ImageFacts, RecordDims
  <1> HIDE DEF ok, base, d, k, new
  <1>6. \E s \in (Dims \cup {0}) \X {"int", "str", None} :
          /\ \A i \in new : f[i].rec.dim = s[1] /\ Kind(f[i].rec.id) = s[2]
          /\ IF d = 0 /\ new # {} THEN s[1] # 0 ELSE s[1] = d
          /\ IF k = None /\ new # {} THEN s[2] # None ELSE s[2] = k
    <2>1. CASE d # 0 \/ new = {}
      <3>1. \A i \in new : f[i].rec.dim = d /\ Kind(f[i].rec.id) = k
        BY <1>4, <1>5, <2>1 DEF RecsAgree
      <3>2. <<d, k>> \in (Dims \cup {0}) \X {"int", "str", None}
        BY <1>4
      <3>3. <<d, k>>[1] = d /\ <<d, k>>[2] = k
        OBVIOUS
      <3>4. /\ IF d = 0 /\ new # {} THEN d # 0 ELSE d = d
            /\ IF k = None /\ new # {} THEN k # None ELSE k = k
        BY <1>4, <2>1
      <3> QED
        BY <3>1, <3>2, <3>3, <3>4
    <2>2. CASE d = 0 /\ new # {}
      <3>1. PICK i \in new : TRUE
        BY <2>2
      <3>2. \A j \in new : f[j].rec.dim = f[i].rec.dim /\ Kind(f[j].rec.id) = Kind(f[i].rec.id)
        BY <1>1, <1>5 DEF Uniform
      <3>3. /\ f[i].rec.dim \in Dims \cup {0} /\ f[i].rec.dim # 0
            /\ Kind(f[i].rec.id) \in {"int", "str", None} /\ Kind(f[i].rec.id) # None
        BY <1>5, KindTypes
      <3> DEFINE e == f[i].rec.dim
                 l == Kind(f[i].rec.id)
      <3>4. <<e, l>> \in (Dims \cup {0}) \X {"int", "str", None}
        BY <3>3
      <3>5. <<e, l>>[1] = e /\ <<e, l>>[2] = l
        OBVIOUS
      <3>6. /\ IF d = 0 /\ new # {} THEN e # 0 ELSE e = d
            /\ IF k = None /\ new # {} THEN l # None ELSE l = k
        BY <1>4, <2>2, <3>3
      <3> QED
        BY <3>2, <3>4, <3>5, <3>6
    <2> QED
      BY <2>1, <2>2
  <1>7. ReplayedSchema(f, c, base, d, k) # {}
    BY <1>6 DEF ReplayedSchema, new
  <1> QED
    BY <1>3, <1>7 DEF Accepted

(* As long as no store is checkpointed before its first record, no crash   *)
(* at any step leaves a store that its own open refuses, whether or not    *)
(* the derived files can be read.  (open_with)                             *)
THEOREM AlwaysReopens ==
  ASSUME "use_after_drop" \notin Verbs, "checkpoint_empty" \notin Verbs
  PROVE  Spec => []Reopenable
  <1> DEFINE inv == IInv /\ SchemaInv /\ SegmentsHaveDim
  <1>1. Init => inv
    BY InitStep, SchemaInit DEF Init, SegmentsHaveDim
  <1>2. inv /\ [Next]_vars => inv'
    <2> SUFFICES ASSUME inv, [Next]_vars PROVE inv'
      OBVIOUS
    <2>1. IInv' /\ SchemaInv' /\ SegmentsHaveDim'
      BY NextStep, SchemaStep, SegmentsHaveDimStep
    <2> QED
      BY <2>1
  <1>3. inv => Reopenable
    BY OpensAgain DEF Reopenable
  <1> HIDE DEF inv
  <1> QED
    BY <1>1, <1>2, <1>3, PTL DEF Spec
=============================================================================
