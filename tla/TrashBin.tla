------------------------------ MODULE TrashBin -------------------------------
(* What the trash promises about each object: it is where the user put it or *)
(* in the trash, and only emptying the trash destroys it.                    *)
CONSTANTS Objects,
          Dangling   \* the objects that are symbolic links to nothing

VARIABLES where, emptying

Init ==
    /\ where \in [Objects -> {"absent", "home"}]
    /\ emptying = FALSE

(* The user has the trash emptied, until that is done or given up. *)
Toggle == emptying' = ~emptying /\ UNCHANGED where

Move(o, from, to) == where[o] = from /\ where' = [where EXCEPT ![o] = to]

Create(o)  == Move(o, "absent", "home")
Trash(o)   == Move(o, "home", "trash")
Restore(o) == Move(o, "trash", "home")
Purge(o)   == emptying /\ Move(o, "trash", "gone")

(* A dangling link, which exists() does not see, is lost when something      *)
(* takes its slot: another object, or what is left of one.                   *)
Lose(r) == r \in Dangling /\ \E from \in {"home", "trash"} : Move(r, from, "gone")

Replace(o, r) ==
    /\ r \in Dangling
    /\ {where[o], where[r]} = {"home", "trash"}
    /\ \E rest \in {"gone", where[o]} :   \* a second copy of r may exist there
           where' = [where EXCEPT ![o] = where[r], ![r] = rest]

Carry ==
    \/ \E o \in Objects : Create(o) \/ Trash(o) \/ Restore(o) \/ Purge(o) \/ Lose(o)
    \/ \E o, r \in Objects : Replace(o, r)

Next == Toggle \/ (Carry /\ UNCHANGED emptying)

Spec == Init /\ [][Next]_<<where, emptying>>
=============================================================================
