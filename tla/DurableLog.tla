----------------------------- MODULE DurableLog -----------------------------
(***************************************************************************)
(* What the write-ahead log promises its client, without frames, seqs or a *)
(* scan.  The log is a sequence of batches.  A batch enters it whole, when *)
(* it is committed, and never later: what was appended and not committed   *)
(* when the handle went away is gone for good.  The acknowledged batches,  *)
(* a prefix of the log, survive everything; a batch whose commit reported  *)
(* an error may be in the log or not, until it is acknowledged or lost.    *)
(***************************************************************************)
EXTENDS Naturals, Sequences

CONSTANT Payload

VARIABLES
    log,        \* the batches a recovery would find now
    stable,     \* how many of them are acknowledged
    pending,    \* the records appended since the last commit
    usable      \* is there a handle on which no call has failed?

vars == <<log, stable, pending, usable>>

Init ==
    /\ log = <<>>
    /\ stable = 0
    /\ pending = <<>>
    /\ usable = FALSE

Add(p) ==
    /\ usable
    /\ pending' = Append(pending, p)
    /\ UNCHANGED <<log, stable, usable>>

CommitBatch ==
    /\ usable
    /\ log' = Append(log, pending)
    /\ stable' = Len(log')
    /\ pending' = <<>>
    /\ UNCHANGED usable

(* A call reports an error: only a commit may leave its batch behind. *)
Fail ==
    /\ usable
    /\ log' \in {log, Append(log, pending)}
    /\ pending' = <<>>
    /\ usable' = FALSE
    /\ UNCHANGED stable

(* The handle goes away, or the machine does: unacknowledged batches may   *)
(* be lost, the latest first, and never in part.                           *)
Crash ==
    /\ \E k \in stable..Len(log) : log' = SubSeq(log, 1, k)
    /\ pending' = <<>>
    /\ usable' = FALSE
    /\ UNCHANGED stable

Reopen ==
    /\ pending' = <<>>
    /\ usable' = TRUE
    /\ UNCHANGED <<log, stable>>

Next ==
    \/ \E p \in Payload : Add(p)
    \/ CommitBatch
    \/ Fail
    \/ Crash
    \/ Reopen

Spec == Init /\ [][Next]_vars
=============================================================================
