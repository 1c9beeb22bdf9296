--------------------------- MODULE StoreRefinement ---------------------------
(***************************************************************************)
(* The store implements Collection.  What it shows is the merged view of   *)
(* its tiers; what a crash may leave is what the log holds at each barrier *)
(* that a recovery may end at, whatever the manifest and the segments say. *)
(***************************************************************************)
EXTENDS Store

(* A store that goes on: its last call succeeded, or the drop of a guard   *)
(* is still to come.                                                       *)
InUse == pc # "down" /\ (fenced => in_tx)

Contents(es) == {e.rec : e \in es}

(* What the first c frames of f hold. *)
ViewAt(f, c) == Contents(Live(Replay(f, c, 0)))

(* The frames a recovery may end at now: the last barrier that was synced, *)
(* the start of a log without one, and the barriers behind.                *)
Ends ==
    {c \in 0..Len(file) :
        /\ c > 0 => file[c].kind = "Commit"
        /\ \A i \in (c + 1)..synced : file[i].kind # "Commit"}

LastEnd == CHOOSE c \in Ends : \A d \in Ends : d <= c

Promise == INSTANCE Collection WITH
    Records  <- Record,
    state    <- IF ~InUse THEN "closed" ELSE IF fenced THEN "failed" ELSE "open",
    view     <- IF InUse THEN Contents(Merged(seg, l0)) ELSE {},
    saved    <- IF InUse THEN ViewAt(file, LastEnd) ELSE {},
    outcomes <- {ViewAt(file, c) : c \in Ends}

(* Whatever fails, and wherever a crash or the loss of derived files hits, *)
(* the store behaves as Collection: a commit that returned is kept whole,  *)
(* nothing else than a commit that failed can show after a crash besides,  *)
(* and what was rolled back, deleted or replaced never returns.            *)
(* (upsert, delete, commit, rollback, Transaction, checkpoint, open_with)  *)
ImplementsCollection == Promise!Spec
=============================================================================
