-------------------------------- MODULE Disk ---------------------------------
(* The file system while a deletion runs: what exists, what may be changed,  *)
(* and what other processes do to it.  Both engines meet it through          *)
(* unlink, rmdir, chmod, scandir or opendir.                                 *)
EXTENDS Job

CONSTANTS
    MaxOpen,     \* directories the process can hold open (RLIMIT_NOFILE)
    EnvBudget    \* how many times other processes or the system interfere

ASSUME DiskAssumption == MaxOpen \in Nat /\ EnvBudget \in Nat

VARIABLES
    present,   \* the entries that exist
    mode,      \* the directories whose mode forbids changing their entries
    sameRoot,  \* the target path still names the directory run() inspected
    fresh,     \* names no process has used yet
    removed,   \* history: the entries the deletion has removed
    env        \* interference left in the budget

disk == <<present, mode, sameRoot, fresh, removed, env>>

DiskInit ==
    /\ present = Initial
    /\ mode = ReadOnly
    /\ sameRoot = TRUE
    /\ fresh = Nodes \ Initial
    /\ removed = {}
    /\ env = EnvBudget

Undisturbed == env = EnvBudget

-----------------------------------------------------------------------------
(* What the deletion does to the disk.                                       *)

(* unlink or rmdir works unless the entry is gone, may not be removed, or    *)
(* its directory may not be changed; rmdir moreover needs an empty one.      *)
Forbidden(n) == Parent[n] \in mode
Removal(n)   == n \in present \ Busy /\ ~Forbidden(n)

Erase(n) ==
    /\ present' = present \ {n}
    /\ removed' = removed \cup {n}
    /\ UNCHANGED <<mode, sameRoot, fresh, env>>

(* Mutant: only the mode of the entry itself is changed. *)
ChmodableEntryOnly(n) == Owned \cap (({n} \cap present) \ Links)

(* What chmod may change to make way for n: the entry, unless it is a        *)
(* symlink, and its directory.                                               *)
Chmodable(n) == Owned \cap ((({n} \cap present) \ Links) \cup {Parent[n]})

Chmod(n) ==
    /\ mode' = mode \ Chmodable(n)
    /\ UNCHANGED <<present, sameRoot, fresh, removed, env>>

(* scandir or opendir of d by a process with held directories open. *)
Openable(d, held) == d \in present \ Unreadable /\ held < MaxOpen

-----------------------------------------------------------------------------
(* What others do.                                                           *)

Interfere == env > 0 /\ env' = env - 1

(* The system fails a call that would have worked (EIO, ENOMEM). *)
Misfortune == Interfere /\ UNCHANGED <<present, mode, sameRoot, fresh, removed>>

(* Somebody moves an entry away, with all that is in it ... *)
Vanish(n) ==
    /\ Interfere
    /\ n \in present
    /\ present' = present \ Within(n)
    /\ UNCHANGED <<mode, sameRoot, fresh, removed>>

(* ... or creates one, under a name that was never used ... *)
Appear(n) ==
    /\ Interfere
    /\ n \in fresh
    /\ Parent[n] \in present
    /\ present' = present \cup {n}
    /\ fresh' = fresh \ {n}
    /\ UNCHANGED <<mode, sameRoot, removed>>

(* ... or takes the write permission of a directory away ... *)
Protect(d) ==
    /\ Interfere
    /\ d \in present \cap Dirs
    /\ mode' = mode \cup {d}
    /\ UNCHANGED <<present, sameRoot, fresh, removed>>

(* ... or moves the target away and puts an empty directory in its place.    *)
ReplaceRoot ==
    /\ Interfere
    /\ Root \in present
    /\ present' = {Root}
    /\ sameRoot' = FALSE
    /\ mode' = mode \ {Root}
    /\ UNCHANGED <<fresh, removed>>

Others == ReplaceRoot \/ \E n \in Nodes : Vanish(n) \/ Appear(n) \/ Protect(n)
==============================================================================
