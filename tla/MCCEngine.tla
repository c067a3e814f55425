------------------------------ MODULE MCCEngine ------------------------------
(* A small tree for CEngine: the target holds a file and a write-protected   *)
(* directory, which holds a symlink and a directory with a file, so that a   *)
(* stack of two frames has to grow.  Other processes may add a file that     *)
(* cannot be removed and a directory that cannot be read.                    *)
EXTENDS CEngine, TLC

CONSTANTS root, d, e, f1, f2, f3, newFile, newDir, outer, main

MCNodes   == {root, d, e, f1, f2, f3, newFile, newDir}
MCDirs    == {root, d, e, newDir}
MCParent  == (root :> outer) @@ (d :> root) @@ (e :> d) @@ (f1 :> e) @@ (f2 :> d) @@ (f3 :> root)
                @@ (newFile :> d) @@ (newDir :> root)
MCDepth   == (root :> 0) @@ (d :> 1) @@ (f3 :> 1) @@ (newDir :> 1)
                @@ (e :> 2) @@ (f2 :> 2) @@ (newFile :> 2) @@ (f1 :> 3)
MCInitial == {root, d, e, f1, f2, f3}

Given(options) == [o \in {"dryRun", "force", "deleteRoot", "pooled", "filtered"} |->
                       o \in options]

(* fastdelete -f, fastdelete, fastdelete -n, and FastDeleter with            *)
(* delete_root_dir=False and force, as empty_trash calls it.                 *)
MCJobs == {Given({"force", "deleteRoot"}), Given({"deleteRoot"}),
           Given({"dryRun", "deleteRoot"}), Given({"force"})}

(* What the memory of a moved stack may hold instead of the depth: one that  *)
(* makes the new frame look like the target's, and one that makes its first  *)
(* subdirectory look like it.                                                *)
MCGarbage == {-1, -2}
==============================================================================
