------------------------------ MODULE Selection ------------------------------
(* What DirectoryScanner.scan yields for a directory t under a filter f, as  *)
(* sets; Deleter has the order in which it yields them while others change   *)
(* the tree.  dev is the device scan() compares with.                        *)
EXTENDS World

Opened(t, f, dev) ==
    {d \in Dirs \cap Within(t) :
        /\ (Up[d] \ {d}) \cap Within(t) \cap Unreadable = {}
        /\ \A a \in Between(t, d) : ShouldTraverse(f, dev, Entry[a], Rel(t, a))}

ScanErrors(t, f, dev) == Opened(t, f, dev) \cap Unreadable

FileItems(t, f, dev) ==
    {n \in Below(t) \ Dirs :
        /\ Parent[n] \in Opened(t, f, dev) \ Unreadable
        /\ MatchesFile(f, Entry[n], Rel(t, n))}

DirItems(t, f, dev) ==
    {d \in Opened(t, f, dev) \ Unreadable :
        /\ MatchesDirRemoval(f, Entry[d], Rel(t, d))}

Items(t, f, dev) ==
    ScanErrors(t, f, dev) \cup FileItems(t, f, dev) \cup DirItems(t, f, dev)
==============================================================================
