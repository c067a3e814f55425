-------------------------------- MODULE Job ---------------------------------
(* What a deletion may be asked to do: the options of FastDeleter, and the   *)
(* answers its DeletionFilter gives about each entry of the tree.            *)
EXTENDS Tree

CONSTANTS
    Matching,    \* files the caller's filter lets matches_file accept
    Traversable, \* directories it lets should_traverse_directory accept
    Removables,  \* directories it lets matches_dir_removal accept
    Workers,     \* the threads of the pool
    Main,        \* the thread that runs FastDeleter.run
    Jobs         \* the combinations of options to consider

(* dryRun: report only.  force: change modes that stand in the way and try   *)
(* again.  deleteRoot: remove the target itself, not only what it holds.     *)
(* pooled: workers > 1, so run() takes _run_parallel.  filtered: the caller  *)
(* gave a filter; the default DeletionFilter accepts everything.             *)
Options == [{"dryRun", "force", "deleteRoot", "pooled", "filtered"} -> BOOLEAN]

ASSUME JobAssumption ==
    /\ Matching \subseteq Files
    /\ Traversable \subseteq Dirs
    /\ Removables \subseteq Dirs
    /\ Main \notin Workers
    /\ Jobs \subseteq Options

(* The threads that can remove an entry. *)
Actors == Workers \cup {Main}

Matched(j)   == IF j.filtered THEN Matching ELSE Files
Traversed(j) == IF j.filtered THEN Traversable ELSE Dirs
Removable(j) == IF j.filtered THEN Removables ELSE Dirs

(* The directories DIR_POST may name under the options j. *)
Emitted(j) == IF j.deleteRoot THEN Removable(j) ELSE Removable(j) \ {Root}

(* The entries a deletion under the options j may remove. *)
Allowed(j) == IF j.dryRun THEN {} ELSE Matched(j) \cup Emitted(j)
=============================================================================
