------------------------------ MODULE MCDeleter ------------------------------
(* A small tree for Deleter: the target holds a file and a write-protected   *)
(* directory, which holds a symlink and a directory with a file.  Other      *)
(* processes may add a file that cannot be removed and a directory that      *)
(* cannot be read.                                                           *)
EXTENDS Deleter, TLC

CONSTANTS root, d, e, f1, f2, f3, newFile, newDir, outer, w1, w2, main

MCNodes   == {root, d, e, f1, f2, f3, newFile, newDir}
MCDirs    == {root, d, e, newDir}
MCParent  == (root :> outer) @@ (d :> root) @@ (e :> d) @@ (f1 :> e) @@ (f2 :> d) @@ (f3 :> root)
                @@ (newFile :> d) @@ (newDir :> root)
MCDepth   == (root :> 0) @@ (d :> 1) @@ (f3 :> 1) @@ (newDir :> 1)
                @@ (e :> 2) @@ (f2 :> 2) @@ (newFile :> 2) @@ (f1 :> 3)
MCInitial == {root, d, e, f1, f2, f3}

Given(options) == [o \in {"dryRun", "force", "deleteRoot", "pooled", "filtered"} |->
                       o \in options]

(* fastdelete -f -w 2, fastdelete with a filter, fastdelete -n -w 2 with a   *)
(* filter, and the deletion empty_trash starts, with force.                  *)
MCJobs == {Given({"force", "deleteRoot", "pooled"}),
           Given({"deleteRoot", "filtered"}),
           Given({"dryRun", "deleteRoot", "pooled", "filtered"}),
           Given({"force"})}
==============================================================================
