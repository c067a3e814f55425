----------------------------- MODULE MCDuplicates -----------------------------
(* Five paths, one of them unreadable, and contents that differ in size, in  *)
(* their sample, or only in the middle; two paths may be one file.           *)
EXTENDS Duplicates, TLC

CONSTANTS a, b, c, torn

F(i, d, t) == [id |-> i, data |-> d, time |-> t]

MCSize   == (a :> 9) @@ (b :> 9) @@ (c :> 9) @@ (torn :> 5)
MCSample == (a :> "s") @@ (b :> "s") @@ (c :> "t") @@ (torn :> "t")
MCStarts == {<<F(1, a, 0), F(2, a, 1), F(3, b, 0), F(4, a, 0), F(5, a, 1)>>,
             <<F(1, a, 1), F(1, a, 1), F(3, a, 0), F(4, c, 0), None>>,
             <<F(1, b, 1), F(2, torn, 0), F(3, torn, 0), F(4, b, 0), F(5, b, 0)>>}
MCJobs   == [keep : {"first", "newest", "oldest"}, action : {"delete", "hardlink", "dry-run"}]
==============================================================================
