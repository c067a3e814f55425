----------------------------- MODULE TreeRemoval -----------------------------
(* What a deletion promises, whatever engine carries it out: it removes only *)
(* entries it was asked to remove, one empty entry at a time; from the abort *)
(* on, each thread finishes at most the one removal it had begun; once it    *)
(* has returned, it removes nothing.  The tree itself belongs to everybody:  *)
(* other processes change it as they like.                                   *)
EXTENDS Job

VARIABLES
    job,      \* the options of this deletion
    tree,     \* the entries that exist
    removed,  \* the entries the deletion has removed
    aborted,  \* an abort was requested
    grace,    \* the threads that have removed nothing since then
    done      \* the deletion has returned

vars == <<job, tree, removed, aborted, grace, done>>

Init ==
    /\ job \in Jobs
    /\ tree = Initial
    /\ removed = {}
    /\ aborted = FALSE
    /\ grace = Actors
    /\ done = FALSE

Remove(a, n) ==
    /\ ~done
    /\ n \in tree \cap Allowed(job)
    /\ Leaf(n, tree)
    /\ a \in grace
    /\ tree' = tree \ {n}
    /\ removed' = removed \cup {n}
    /\ grace' = IF aborted THEN grace \ {a} ELSE grace
    /\ UNCHANGED <<job, aborted, done>>

Abort ==
    /\ aborted' = TRUE
    /\ UNCHANGED <<job, tree, removed, grace, done>>

Return ==
    /\ done' = TRUE
    /\ UNCHANGED <<job, tree, removed, aborted, grace>>

(* Another process: a name the deletion has removed is not used again. *)
Interfere ==
    /\ tree' \in SUBSET (Nodes \ removed)
    /\ UNCHANGED <<job, removed, aborted, grace, done>>

Next ==
    \/ \E a \in Actors, n \in Nodes : Remove(a, n)
    \/ Abort
    \/ Return
    \/ Interfere

Spec == Init /\ [][Next]_vars
=============================================================================
