------------------------------- MODULE Filters -------------------------------
(* filters.py: which entries a DeletionFilter lets be deleted or traversed.  *)
(* An entry e is a record: its name, its kind ("file", "dir", "link" or      *)
(* "dirlink" for a link to a directory, "socket", "fifo", "device"), size,   *)
(* age by each clock, device, and whether stat works on it.  rel is its path *)
(* from the target.                                                          *)
(* A pattern is the names and the paths it matches.                          *)
EXTENDS Gitignore

CONSTANT None

Clocks == {"modified", "accessed", "created"}
Styles == {"glob", "regex"}

NoFilter ==
    [include |-> [s \in Styles |-> {}], exclude |-> [s \in Styles |-> {}],
     types |-> None, minSize |-> None, maxSize |-> None,
     older |-> [c \in Clocks |-> None], newer |-> [c \in Clocks |-> None],
     minDepth |-> None, maxDepth |-> None,
     filesOnly |-> FALSE, dirsOnly |-> FALSE,
     emptyDirsOnly |-> FALSE, emptyFilesOnly |-> FALSE,
     oneFileSystem |-> FALSE, ignore |-> None]

(* What the options may be: those that are limits are numbers. *)
Limits(f) == {f.minSize, f.maxSize, f.minDepth, f.maxDepth}
                 \cup {f.older[c] : c \in Clocks} \cup {f.newer[c] : c \in Clocks}

IsFilter(f) == /\ DOMAIN f = DOMAIN NoFilter
               /\ Limits(f) \subseteq Int \cup {None}
               /\ f.ignore # None => IsIgnoreFile(f.ignore)

(* Mutant: an ignore file does not count as a filter. *)
HasFiltersButIgnore(f) == [f EXCEPT !.ignore = None] # NoFilter

HasFilters(f) == f # NoFilter

AtLeast(x, limit) == limit = None \/ x >= limit
AtMost(x, limit)  == limit = None \/ x <= limit

Fits(pattern, e, rel) == e.name \in pattern.names \/ rel \in pattern.paths

Included(f, e, rel) ==
    \A s \in Styles : f.include[s] = {} \/ \E p \in f.include[s] : Fits(p, e, rel)
Excluded(f, e, rel) ==
    \E s \in Styles : \E p \in f.exclude[s] : Fits(p, e, rel)

DepthWanted(f, rel) == AtLeast(Len(rel), f.minDepth) /\ AtMost(Len(rel), f.maxDepth)

(* The relative path of the target itself is the empty string.              *)
IgnoreWanted(f, rel, isDir) ==
    f.ignore # None => Ignores(f.ignore, IF rel = <<>> THEN <<"">> ELSE rel, isDir)

TypeOf(e) == CASE e.kind \in {"link", "dirlink"} -> "l"
               [] e.kind = "file"                -> "f"
               [] OTHER                          -> "s"

(* What only stat can tell: sizes, of regular files, and times. *)
NeedsStat(f) ==
    \/ f.minSize # None \/ f.maxSize # None \/ f.emptyFilesOnly
    \/ \E c \in Clocks : f.older[c] # None \/ f.newer[c] # None

Measured(f, e) ==
    /\ e.measured
    /\ e.kind = "file" => /\ f.emptyFilesOnly => e.size = 0
                          /\ AtLeast(e.size, f.minSize) /\ AtMost(e.size, f.maxSize)
    /\ \A c \in Clocks : AtLeast(e.age[c], f.older[c]) /\ AtMost(e.age[c], f.newer[c])

MatchesFile(f, e, rel) ==
    /\ ~f.dirsOnly /\ ~f.emptyDirsOnly
    /\ DepthWanted(f, rel)
    /\ IgnoreWanted(f, rel, FALSE)
    /\ ~Excluded(f, e, rel) /\ Included(f, e, rel)
    /\ f.types # None => TypeOf(e) \in f.types
    /\ NeedsStat(f) => Measured(f, e)

(* Mutant: a file system boundary is crossed. *)
ShouldTraverseAnywhere(f, baseDev, e, rel) ==
    ~Excluded(f, e, rel) /\ AtMost(Len(rel), f.maxDepth)

ShouldTraverse(f, baseDev, e, rel) ==
    /\ ~Excluded(f, e, rel)
    /\ AtMost(Len(rel), f.maxDepth)
    /\ f.oneFileSystem /\ baseDev # None /\ e.measured => e.dev = baseDev

MatchesDirRemoval(f, e, rel) ==
    /\ ~f.filesOnly
    /\ f.types # None => "d" \in f.types
    /\ DepthWanted(f, rel)
    /\ ~Excluded(f, e, rel)
    /\ IgnoreWanted(f, rel, TRUE)

(* build_filter: the options it refuses, and what it makes of the others.    *)
(* An ignore file that does not exist is no filter at all.                   *)
Refused(f, workers) ==
    \/ workers < 1
    \/ ~({f.minDepth, f.maxDepth} \ {None} \subseteq Nat)
    \/ f.minDepth # None /\ ~AtMost(f.minDepth, f.maxDepth)
    \/ f.emptyDirsOnly /\ (f.filesOnly \/ f.dirsOnly)

BuildFilter(f, ignoreExists) ==
    [f EXCEPT !.ignore = IF ignoreExists THEN @ ELSE None]
==============================================================================
