-------------------------------- MODULE World --------------------------------
(* The file system the commands meet, which nobody else changes meanwhile,   *)
(* and which of its paths safety.py protects.  A path leads to a node; links *)
(* are nodes of their own and are followed only where the system does.       *)
EXTENDS Filters

CONSTANTS
    Nodes,       \* every entry there is
    Top,         \* the root of the file system
    Parent,      \* the directory each other entry is in
    Level,       \* how many directories each entry is below the root
    Entry,       \* name, kind, size, age, dev, measured: see Filters
    Stuck,       \* entries whose removal fails
    Unreadable,  \* directories that cannot be listed
    Paths,       \* the paths the user may name
    Object,      \* what lstat finds there: an entry or None
    RealPath,    \* realpath of each
    RootPath,    \* "/"
    Home,        \* the user's home directory, resolved
    Critical     \* POSIX_DANGEROUS_PATHS

Dirs  == {n \in Nodes : Entry[n].kind = "dir"}
Links == {n \in Nodes : Entry[n].kind \in {"link", "dirlink"}}

ASSUME WorldAssumption ==
    /\ IsFiniteSet(Nodes)
    /\ Top \in Dirs
    /\ Parent \in [Nodes \ {Top} -> Dirs]
    /\ Level \in [Nodes -> Nat] /\ Level[Top] = 0
    /\ \A n \in Nodes \ {Top} : Level[n] = Level[Parent[n]] + 1
    /\ \A n \in Nodes : /\ Entry[n].dev # None /\ Entry[n].size \in Nat
                        /\ \A c \in Clocks : Entry[n].age[c] \in Int
    /\ Stuck \subseteq Nodes /\ Unreadable \subseteq Dirs
    /\ None \notin Nodes
    /\ Object \in [Paths -> Nodes \cup {None}]
    /\ RealPath \in [Paths -> Paths]
    /\ Critical \cup {RootPath, Home} \subseteq Paths

(* An entry has one resolved path, which resolves to itself.                 *)
ASSUME PathAssumption ==
    /\ \A p \in Paths : RealPath[RealPath[p]] = RealPath[p]
    /\ \A p, q \in Paths : Object[p] # None /\ Object[p] = Object[q] => RealPath[p] = RealPath[q]
    /\ RealPath[RootPath] = RootPath /\ RealPath[Home] = Home

(* The directories above n, from the root down, and n itself. *)
Route[n \in Nodes] == IF n = Top THEN <<n>> ELSE Append(Route[Parent[n]], n)

Up           == [n \in Nodes |-> {Route[n][i] : i \in DOMAIN Route[n]}]
Within(t)    == {n \in Nodes : t \in Up[n]}
Below(t)     == Within(t) \ {t}
Children(d)  == {n \in Nodes \ {Top} : Parent[n] = d}

(* From t, exclusive, down to n. *)
Between(t, n) == Up[n] \cap Below(t)

(* ScanItem.rel_path of n in a scan of t; its length is the depth.           *)
Rel(t, n) == LET names == [i \in DOMAIN Route[n] |-> Entry[Route[n][i]].name]
             IN  SubSeq(names, Len(Route[t]) + 1, Len(names))

-----------------------------------------------------------------------------
(* safety.py.                                                                *)

(* Mutant: the protected paths are not resolved. *)
DangerousUnresolved == Critical

DangerousPaths == Critical \cup {RealPath[p] : p \in Critical}

Spellings(p) == {p, RealPath[p]}

IsRoot(p)   == RootPath \in Spellings(p)
IsHome(p)   == Home \in Spellings(p)
IsSystem(p) == Spellings(p) \cap (DangerousPaths \ {Home}) # {}

Dangerous(p) == IsRoot(p) \/ IsSystem(p) \/ IsHome(p)

ValidateSafety(p, allowRoot, allowHome) ==
    /\ IsRoot(p) \/ IsSystem(p) => allowRoot
    /\ IsHome(p) => allowRoot \/ allowHome
==============================================================================
