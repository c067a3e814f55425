-------------------------------- MODULE Tree --------------------------------
(* The directory tree a deletion works on: the target directory, every entry *)
(* that is or may come to be below it, and what the operating system answers *)
(* about an entry.  The program never builds this tree, it only meets it     *)
(* through scandir, unlink, rmdir and chmod, so the operators here are the   *)
(* operating system as fastdelete/deleter.py and fastdelete/scanner.py use   *)
(* it.                                                                       *)
EXTENDS Integers, FiniteSets

CONSTANTS
    Nodes,       \* every name that can exist at or below the target
    Dirs,        \* the names that are directories; the others are files
    Links,       \* the files that are symbolic links
    Root,        \* the target directory
    Container,   \* the directory that holds the target, outside the tree
    Parent,      \* the directory each name is in
    Depth,       \* ScanItem.depth of each name
    Initial,     \* the names that exist when the deletion starts
    ReadOnly,    \* directories whose mode forbids changing their entries
    Unreadable,  \* directories scandir refuses to open
    Busy,        \* entries whose removal fails whatever their mode (EBUSY, EIO)
    Owned        \* names and the container whose mode the user may change

Files == Nodes \ Dirs

ASSUME TreeAssumption ==
    /\ IsFiniteSet(Nodes)
    /\ Dirs \subseteq Nodes
    /\ Links \subseteq Files
    /\ Root \in Dirs
    /\ Container \notin Nodes
    /\ Parent \in [Nodes -> Dirs \cup {Container}]
    /\ Depth \in [Nodes -> Nat]
    /\ Parent[Root] = Container
    /\ Depth[Root] = 0
    /\ \A n \in Nodes \ {Root} :
           /\ Parent[n] \in Dirs
           /\ Depth[n] = Depth[Parent[n]] + 1

ASSUME InitialAssumption ==
    /\ Initial \subseteq Nodes
    /\ Root \in Initial
    /\ \A n \in Initial \ {Root} : Parent[n] \in Initial
    /\ ReadOnly \subseteq Dirs \cup {Container}
    /\ Unreadable \subseteq Dirs
    /\ Busy \subseteq Nodes
    /\ Owned \subseteq Nodes \cup {Container}

(* The directories from n up to the target, n included. *)
Path[n \in Nodes] == IF n = Root THEN {n} ELSE {n} \cup Path[Parent[n]]

(* The names at or below n. *)
Within(n) == {m \in Nodes : n \in Path[m]}

Children(d) == {n \in Nodes : Parent[n] = d}

(* n has nothing in it, in a tree that holds the entries of tree. *)
Leaf(n, tree) == Children(n) \cap tree = {}
=============================================================================
