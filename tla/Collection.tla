----------------------------- MODULE Collection -----------------------------
(***************************************************************************)
(* What the store promises its client, without a log, tiers or files.  A   *)
(* collection shows one record per id.  What was saved is what a rollback  *)
(* returns to, and once it is saved a crash leaves it and nothing else.    *)
(* A save that reported an error may have taken effect or not; which, the  *)
(* next open decides.  Nothing that was written and not saved, nothing     *)
(* that was rolled back and nothing that was replaced ever comes back.     *)
(***************************************************************************)
CONSTANTS Ids, Records

VARIABLES
    state,      \* "closed"; "open"; "failed": open, and only a rollback is left
    view,       \* the records it shows
    saved,      \* the records a rollback returns to
    outcomes    \* the views that a crash may leave

vars == <<state, view, saved, outcomes>>

Init ==
    /\ state = "closed"
    /\ view = {}
    /\ saved = {}
    /\ outcomes = {{}}

Without(id) == {r \in view : r.id # id}

Put(r) ==
    /\ state = "open" /\ state' = "open"
    /\ view' = Without(r.id) \cup {r}
    /\ UNCHANGED <<saved, outcomes>>

Remove(id) ==
    /\ state = "open" /\ state' = "open"
    /\ Without(id) # view
    /\ view' = Without(id)
    /\ UNCHANGED <<saved, outcomes>>

Save ==
    /\ state = "open" /\ state' = "open"
    /\ view' = view
    /\ saved' = view
    /\ outcomes' = {view}

(* A write fails in a transaction. *)
FailWrite ==
    /\ state = "open"
    /\ state' = "failed"
    /\ UNCHANGED <<view, saved, outcomes>>

(* A rollback may lose outcomes of saves that failed before, never the     *)
(* view it returns to.                                                     *)
Rollback ==
    /\ state # "closed"
    /\ state' = "open"
    /\ view' = saved
    /\ saved \in outcomes' /\ outcomes' \subseteq outcomes
    /\ UNCHANGED saved

Gone == state' = "closed" /\ view' = {} /\ saved' = {}

(* A call fails, and the client lets the collection go: only a save may    *)
(* leave something behind.                                                 *)
FailSave ==
    /\ state = "open"
    /\ Gone
    /\ outcomes' = outcomes \cup {view}

(* The collection is closed, the process dies, or power is lost; or an     *)
(* attempt to open it fails.                                               *)
Crash ==
    /\ Gone
    /\ outcomes' # {} /\ outcomes' \subseteq outcomes

Open ==
    /\ state = "closed"
    /\ state' = "open"
    /\ saved' = view'
    /\ view' \in outcomes' /\ outcomes' \subseteq outcomes

Next ==
    \/ Crash
    \/ Open
    \/ Rollback
    \/ Save
    \/ FailSave
    \/ FailWrite
    \/ \E id \in Ids : Remove(id)
    \/ \E r \in Records : Put(r)

Spec == Init /\ [][Next]_vars
=============================================================================
