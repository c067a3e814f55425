------------------------------ MODULE Gitignore ------------------------------
(* gitignore.py: whether the lines of an ignore file match a path.  A name   *)
(* is a value, a path the sequence of its names, <<"">> the empty path; the  *)
(* part of a pattern between two slashes is the set of the names it matches, *)
(* or AnyDepth for "**".                                                     *)
EXTENDS Integers, Sequences, FiniteSetsExt

CONSTANT AnyDepth

(* A line: blank, also for a comment or a pattern that is no regex; negated  *)
(* by "!"; dirOnly by a slash at the end; rooted by one at the beginning.    *)
Rules(lines) == {k \in DOMAIN lines : ~lines[k].blank}

(* Even the pattern of a lone slash has a part, an empty name.               *)
IsList(s) == Len(s) \in Nat /\ DOMAIN s = 1 .. Len(s)
IsIgnoreFile(lines) ==
    IsList(lines) /\ \A k \in Rules(lines) : IsList(lines[k].parts) /\ Len(lines[k].parts) > 0

Anchored(rule) == rule.rooted \/ Len(rule.parts) > 1

(* The parts match a beginning of the path; what follows may be anything.    *)
(* In the middle "**" stands for any number of names, at the end for the     *)
(* rest of the path.  from[k] are the places where the parts from k on fit.  *)
Covers(parts, path) ==
    LET from[k \in 1 .. Len(parts) + 1] ==
            IF k > Len(parts) THEN 1 .. Len(path) + 1
            ELSE {i \in DOMAIN path :
                     IF parts[k] = AnyDepth
                     THEN k = Len(parts) \/ \E j \in from[k + 1] : i <= j
                     ELSE path[i] \in parts[k] /\ i + 1 \in from[k + 1]}
    IN  1 \in from[1]

Found(rule, path) ==
    \E i \in IF Anchored(rule) THEN {1} ELSE DOMAIN path :
        Covers(rule.parts, SubSeq(path, i, Len(path)))

(* The last rule that applies decides. *)
Ignores(lines, path, isDir) ==
    LET heard == {k \in Rules(lines) : (lines[k].dirOnly => isDir) /\ Found(lines[k], path)}
    IN  heard # {} /\ ~lines[Max(heard)].negated
==============================================================================
