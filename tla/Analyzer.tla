------------------------------- MODULE Analyzer -------------------------------
(* analyzer.py: analyze_directory walks a directory with a stack of its own  *)
(* and adds up what it finds; nothing is changed.                            *)
EXTENDS World

VARIABLES
    stack,    \* <<directory, depth, subdirectory of the root it is in>>
    open,     \* the triple whose entries are being read, or None
    unread,   \* its entries still to come
    summary   \* DiskUsageSummary, with largest_files as the set of files

duVars == <<stack, open, unread, summary>>

NoSummary == [files |-> 0, dirs |-> 0, links |-> 0, bytes |-> 0,
              largest |-> {}, share |-> [d \in {} |-> 0]]

Subdirs(root) == IF root \in Unreadable THEN {} ELSE Children(root) \cap Dirs

DuInit == stack = <<>> /\ open = None /\ unread = {} /\ summary = NoSummary

(* A root that is no directory counts as one file.                           *)
Analyze(root) ==
    /\ IF root \in Dirs
       THEN /\ stack' = <<<<root, 0, None>>>>
            /\ summary' = [NoSummary EXCEPT !.share = [d \in Subdirs(root) |-> 0]]
       ELSE /\ stack' = <<>>
            /\ summary' = [NoSummary EXCEPT !.files = 1, !.bytes = Entry[root].size,
                                            !.largest = {root}]
    /\ UNCHANGED <<open, unread>>

Pop ==
    /\ unread = {} /\ stack # <<>>
    /\ open' = stack[Len(stack)]
    /\ stack' = SubSeq(stack, 1, Len(stack) - 1)
    /\ unread' = IF open'[1] \in Unreadable THEN {} ELSE Children(open'[1])
    /\ summary' = [summary EXCEPT !.dirs = @ + 1]

SizeOf(n) == IF Entry[n].measured THEN Entry[n].size ELSE 0

Smallest(files) == {m \in files : \A o \in files : SizeOf(o) >= SizeOf(m)}

(* Mutant: the heap gives up the wrong element. *)
LargestKeepNew(files, n, top) ==
    IF Cardinality(files) < top THEN {files \cup {n}}
    ELSE {(files \ {m}) \cup {n} : m \in Smallest(files)}

(* The heap of the largest files when n comes: it replaces a smallest one,   *)
(* if it is larger.  With top = 0 there is none: IndexError.                 *)
Largest(files, n, top) ==
    IF Cardinality(files) < top THEN {files \cup {n}}
    ELSE {IF SizeOf(n) > SizeOf(m) THEN (files \ {m}) \cup {n} ELSE files : m \in Smallest(files)}

LookDir(n, maxDepth) ==
    /\ LET depth == open[2] + 1
           top   == IF open[3] = None THEN n ELSE open[3]
       IN  stack' = IF AtMost(depth, maxDepth) THEN Append(stack, <<n, depth, top>>) ELSE stack
    /\ UNCHANGED summary

LookFile(n, topN) ==
    /\ \E h \in Largest(summary.largest, n, topN) :
           summary' = [summary EXCEPT
               !.files = @ + 1, !.bytes = @ + SizeOf(n), !.largest = h,
               !.share = [d \in DOMAIN @ |-> @[d] + (IF d = open[3] THEN SizeOf(n) ELSE 0)]]
    /\ UNCHANGED stack

Look(n, topN, maxDepth) ==
    /\ n \in unread
    /\ unread' = unread \ {n}
    /\ CASE n \in Links -> summary' = [summary EXCEPT !.links = @ + 1] /\ UNCHANGED stack
         [] n \in Dirs  -> LookDir(n, maxDepth)
         [] OTHER       -> LookFile(n, topN)
    /\ UNCHANGED open
===============================================================================
