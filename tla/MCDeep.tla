-------------------------------- MODULE MCDeep --------------------------------
(* A chain of directories with more levels than the process may open.        *)
EXTENDS Deleter

(* Node 0 is the target, -1 its container, node 5 a file. *)
Chain       == 0 .. 5
ChainDirs   == 0 .. 4
ChainParent == [n \in Chain |-> n - 1]
ChainDepth  == [n \in Chain |-> n]
Outside     == -1

PlainJob == {[o \in {"dryRun", "force", "deleteRoot", "pooled", "filtered"} |-> o = "deleteRoot"]}
===============================================================================
