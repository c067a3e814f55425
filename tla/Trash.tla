-------------------------------- MODULE Trash --------------------------------
(* trash.py: move_to_trash, restore_trash_item and empty_trash as processes  *)
(* carry them out on the same trash directory, one file-system call at a     *)
(* time, with full disks, failing copies and processes that die half-way.    *)
(* FastDeleter.run with trash=True is move_to_trash, fastdelete trash and    *)
(* fastdelete restore are the first two.  A slot is a path that can hold     *)
(* objects: a place of the user or a name in the files directory.            *)
EXTENDS Integers, FiniteSets

CONSTANTS
    Procs,        \* the processes
    Objects,      \* the files, directories and links of the user
    Directories,  \* the objects that are directories
    Dangling,     \* the objects that are symbolic links to nothing
    Places,       \* the paths where the user keeps objects
    Remote,       \* the places on another file system than the trash
    Base,         \* the last component of each place
    MaxSuffix,    \* the largest counter _get_unique_trash_name may need
    ReadBack,     \* the path that Path= of a place is read back as
    Mishaps,      \* how many calls may fail and processes die
    None, Blank   \* no info file, and one without a Path= line

Names == {Base[x] : x \in Places} \X (0 .. MaxSuffix)
Slots == Places \cup Names

ASSUME TrashAssumption ==
    /\ Directories \subseteq Objects
    /\ Dangling \subseteq Objects \ Directories
    /\ Remote \subseteq Places
    /\ DOMAIN Base = Places
    /\ ReadBack \in [Places -> Places]
    /\ {MaxSuffix, Mishaps} \subseteq Nat
    /\ Places \cap Names = {}
    /\ {None, Blank} \cap Slots = {} /\ None # Blank

VARIABLES
    holds,     \* the whole objects in each slot
    partial,   \* the slots that hold an incomplete copy or remainder
    info,      \* what each .trashinfo file names
    op,        \* what each process is doing
    fresh,     \* objects the user has not created yet
    mishaps,   \* calls that may still fail
    origin,    \* history: the place the payload of each name came from
    orphaned   \* history: names whose info was unlinked beside a payload

slotVars == <<holds, partial>>
vars == <<slotVars, info, op, fresh, mishaps, origin, orphaned>>

Idle == [at |-> "idle", src |-> None, dst |-> None, left |-> {}]

Init ==
    /\ holds \in [Slots -> {{}} \cup {{o} : o \in Objects}]
    /\ \A s, t \in Slots : s = t \/ holds[s] \cap holds[t] = {}
    /\ \A n \in Names : holds[n] = {}
    /\ partial = {}
    /\ info = [n \in Names |-> None]
    /\ op = [p \in Procs |-> Idle]
    /\ fresh = Objects \ UNION {holds[s] : s \in Slots}
    /\ mishaps = Mishaps
    /\ origin = [n \in Names |-> None]
    /\ orphaned = {}

(* Path.exists does not see a symbolic link to nothing. *)
Exists(s)   == s \in partial \/ holds[s] \ Dangling # {}
Occupied(s) == s \in partial \/ holds[s] # {}
IsDir(s)    == holds[s] \cap Directories # {}

Goto(p, at) == op' = [op EXCEPT ![p].at = at]
Stop(p)     == op' = [op EXCEPT ![p] = Idle]
Mishap      == mishaps > 0 /\ mishaps' = mishaps - 1

-----------------------------------------------------------------------------
(* move_to_trash, up to the move.                                            *)

(* Mutant: every object keeps its own name. *)
FreeAlways(n) == TRUE

Free(n) == ~Exists(n) /\ info[n] = None

(* _get_unique_trash_name: the first name that is free. *)
Named(p, x) ==
    /\ op[p].at = "idle"
    /\ Occupied(x)
    /\ \E k \in 0 .. MaxSuffix :
           /\ Free(<<Base[x], k>>)
           /\ \A i \in 0 .. k - 1 : ~Free(<<Base[x], i>>)
           /\ op' = [op EXCEPT ![p] = [Idle EXCEPT !.at = "named", !.src = x,
                                                   !.dst = <<Base[x], k>>]]
    /\ UNCHANGED <<slotVars, info, fresh, mishaps, origin, orphaned>>

(* Mutant: the info file holds the last component of the path. *)
WriteInfoName(p) ==
    /\ op[p].at = "named"
    /\ info' = [info EXCEPT ![op[p].dst] = Base[op[p].src]]
    /\ Goto(p, "moving")
    /\ UNCHANGED <<slotVars, fresh, mishaps, origin, orphaned>>

WriteInfo(p) ==
    /\ op[p].at = "named"
    /\ info' = [info EXCEPT ![op[p].dst] = op[p].src]
    /\ Goto(p, "moving")
    /\ UNCHANGED <<slotVars, fresh, mishaps, origin, orphaned>>

(* write_text fails once the file is open: a full disk, or a path that does  *)
(* not encode.  The error is not caught and the empty file stays.            *)
WriteInfoFails(p) ==
    /\ op[p].at = "named"
    /\ Mishap
    /\ info' = [info EXCEPT ![op[p].dst] = Blank]
    /\ Stop(p)
    /\ UNCHANGED <<slotVars, fresh, origin, orphaned>>

-----------------------------------------------------------------------------
(* shutil.move from src to dst, and what its callers do when it raises.      *)

ToTrash(p) == op[p].src \in Places
Name(p)    == IF ToTrash(p) THEN op[p].dst ELSE op[p].src

Apart(p) == {op[p].src, op[p].dst} \cap Remote # {}

(* Into a directory that exists already the source is moved under its own    *)
(* name; a file replaces a file if the two are on one file system.           *)
Movable(p) ==
    LET s == op[p].src
        d == op[p].dst
    IN  /\ Occupied(s)
        /\ IsDir(d) => Cardinality(holds[d]) = 1
        /\ Occupied(d) /\ ~IsDir(d) => ~IsDir(s) /\ (Apart(p) => Exists(d))

(* What a slot holds once the content of another one has come in. *)
Joined(d, s) == IF IsDir(d) THEN holds[d] \cup holds[s] ELSE holds[s]
Marked(d, s) == (partial \ {d}) \cup (IF s \in partial THEN {d} ELSE {})

Noted(p) ==
    IF ToTrash(p)
    THEN /\ origin' = [origin EXCEPT ![op[p].dst] = op[p].src]
         /\ orphaned' = orphaned \ {op[p].dst}
    ELSE UNCHANGED <<origin, orphaned>>

(* move_to_trash returns, restore_trash_item still has to unlink the info.   *)
Moved(p) == IF ToTrash(p) THEN Stop(p) ELSE Goto(p, "moved")

(* move_to_trash unlinks the info file, restore_trash_item just raises. *)
Raise(p) ==
    /\ Stop(p)
    /\ IF ToTrash(p)
       THEN /\ info' = [info EXCEPT ![Name(p)] = None]
            /\ orphaned' = orphaned \cup {n \in {Name(p)} : Occupied(n)}
       ELSE UNCHANGED <<info, orphaned>>

Rename(p) ==
    /\ op[p].at = "moving"
    /\ Movable(p)
    /\ ~Apart(p)
    /\ LET s == op[p].src
           d == op[p].dst
       IN  /\ holds' = [holds EXCEPT ![s] = {}, ![d] = Joined(d, s)]
           /\ partial' = Marked(d, s) \ {s}
    /\ Noted(p)
    /\ Moved(p)
    /\ UNCHANGED <<info, fresh, mishaps>>

MoveRefused(p) ==
    /\ op[p].at = "moving"
    /\ ~Movable(p)
    /\ Raise(p)
    /\ UNCHANGED <<slotVars, fresh, mishaps, origin>>

(* Across file systems the object is copied and then removed. *)
StartCopy(p) ==
    /\ op[p].at = "moving"
    /\ Movable(p)
    /\ Apart(p)
    /\ partial' = partial \cup {d \in {op[p].dst} : ~IsDir(d)}
    /\ Goto(p, "copying")
    /\ UNCHANGED <<holds, info, fresh, mishaps, origin, orphaned>>

FinishCopy(p) ==
    /\ op[p].at = "copying"
    /\ Occupied(op[p].src)
    /\ holds' = [holds EXCEPT ![op[p].dst] = Joined(op[p].dst, op[p].src)]
    /\ partial' = Marked(op[p].dst, op[p].src)
    /\ Noted(p)
    /\ Goto(p, "copied")
    /\ UNCHANGED <<info, fresh, mishaps>>

CopyFails(p) ==
    /\ op[p].at = "copying"
    /\ \/ Mishap
       \/ ~Occupied(op[p].src) /\ UNCHANGED mishaps
    /\ Raise(p)
    /\ UNCHANGED <<slotVars, fresh, origin>>

RemoveSource(p) ==
    /\ op[p].at = "copied"
    /\ holds' = [holds EXCEPT ![op[p].src] = {}]
    /\ partial' = partial \ {op[p].src}
    /\ Moved(p)
    /\ UNCHANGED <<info, fresh, mishaps, origin, orphaned>>

(* A slot whose removal failed: of a directory part of it may be gone. *)
Spoil(s) ==
    \/ UNCHANGED slotVars
    \/ IsDir(s) /\ holds' = [holds EXCEPT ![s] = {}] /\ partial' = partial \cup {s}

RemoveSourceFails(p) ==
    /\ op[p].at = "copied"
    /\ Mishap
    /\ Spoil(op[p].src)
    /\ Raise(p)
    /\ UNCHANGED <<fresh, origin>>

-----------------------------------------------------------------------------
(* restore_trash_item: by name, or by the last component of the path, which  *)
(* leads to one of the names.                                                *)

(* The destination the user gave, or the path read from the info file. *)
Goal(n, given) ==
    IF given # None THEN given
    ELSE IF info[n] \in Places THEN ReadBack[info[n]]
    ELSE None

Aim(p, n, given) ==
    /\ op[p].at = "idle"
    /\ info[n] # None
    /\ Occupied(n)
    /\ Goal(n, given) # None
    /\ op' = [op EXCEPT ![p] = [Idle EXCEPT !.at = "aimed", !.src = n, !.dst = Goal(n, given)]]
    /\ UNCHANGED <<slotVars, info, fresh, mishaps, origin, orphaned>>

(* Mutant: the info file is unlinked before the payload has moved. *)
CheckGoalUnlink(p) ==
    /\ op[p].at = "aimed"
    /\ IF Exists(op[p].dst) THEN Stop(p) ELSE Goto(p, "moving")
    /\ info' = [info EXCEPT ![op[p].src] = None]
    /\ UNCHANGED <<slotVars, fresh, mishaps, origin, orphaned>>

(* FileExistsError unless the destination is free. *)
CheckGoal(p) ==
    /\ op[p].at = "aimed"
    /\ IF Exists(op[p].dst) THEN Stop(p) ELSE Goto(p, "moving")
    /\ UNCHANGED <<slotVars, info, fresh, mishaps, origin, orphaned>>

(* Mutant: the info file stays. *)
UnlinkInfoNot(p) ==
    /\ op[p].at = "moved"
    /\ Stop(p)
    /\ UNCHANGED <<slotVars, info, fresh, mishaps, origin, orphaned>>

UnlinkInfo(p) ==
    /\ op[p].at = "moved"
    /\ info' = [info EXCEPT ![op[p].src] = None]
    /\ Stop(p)
    /\ UNCHANGED <<slotVars, fresh, mishaps, origin, orphaned>>

-----------------------------------------------------------------------------
(* empty_trash: one FastDeleter on files, then one on info.                  *)

Empty(p) ==
    /\ op[p].at = "idle"
    /\ op' = [op EXCEPT ![p] = [Idle EXCEPT !.at = "files",
                                            !.left = {n \in Names : Occupied(n)}]]
    /\ UNCHANGED <<slotVars, info, fresh, mishaps, origin, orphaned>>

Purging(p, n, folder) ==
    /\ op[p].at = folder
    /\ n \in op[p].left
    /\ op' = [op EXCEPT ![p].left = @ \ {n}]

PurgeFile(p, n) ==
    /\ Purging(p, n, "files")
    /\ holds' = [holds EXCEPT ![n] = {}]
    /\ partial' = partial \ {n}
    /\ UNCHANGED <<info, fresh, mishaps, origin, orphaned>>

PurgeFileFails(p, n) ==
    /\ Purging(p, n, "files")
    /\ Mishap
    /\ Spoil(n)
    /\ UNCHANGED <<info, fresh, origin, orphaned>>

FilesPurged(p) ==
    /\ op[p].at = "files"
    /\ op[p].left = {}
    /\ op' = [op EXCEPT ![p].at = "infos", ![p].left = {n \in Names : info[n] # None}]
    /\ UNCHANGED <<slotVars, info, fresh, mishaps, origin, orphaned>>

PurgeInfo(p, n) ==
    /\ Purging(p, n, "infos")
    /\ info' = [info EXCEPT ![n] = None]
    /\ orphaned' = orphaned \cup {m \in {n} : Occupied(m)}
    /\ UNCHANGED <<slotVars, fresh, mishaps, origin>>

Emptied(p) ==
    /\ op[p].at = "infos"
    /\ op[p].left = {}
    /\ Stop(p)
    /\ UNCHANGED <<slotVars, info, fresh, mishaps, origin, orphaned>>

-----------------------------------------------------------------------------
(* The user puts a new object at a place, while no process is at work.       *)
Create(o, x) ==
    /\ \A p \in Procs : op[p] = Idle
    /\ o \in fresh
    /\ ~Occupied(x)
    /\ holds' = [holds EXCEPT ![x] = {o}]
    /\ fresh' = fresh \ {o}
    /\ UNCHANGED <<partial, info, op, mishaps, origin, orphaned>>

(* A process dies where it is. *)
Crash(p) ==
    /\ op[p] # Idle
    /\ Mishap
    /\ Stop(p)
    /\ UNCHANGED <<slotVars, info, fresh, origin, orphaned>>

Step(p) ==
    \/ \E x \in Places : Named(p, x)
    \/ WriteInfo(p) \/ WriteInfoFails(p)
    \/ Rename(p) \/ MoveRefused(p)
    \/ StartCopy(p) \/ FinishCopy(p) \/ CopyFails(p)
    \/ RemoveSource(p) \/ RemoveSourceFails(p)
    \/ \E n \in Names : \E given \in Places \cup {None} : Aim(p, n, given)
    \/ CheckGoal(p) \/ UnlinkInfo(p)
    \/ Empty(p) \/ FilesPurged(p) \/ Emptied(p)
    \/ \E n \in Names : PurgeFile(p, n) \/ PurgeFileFails(p, n) \/ PurgeInfo(p, n)
    \/ Crash(p)

Next ==
    \/ \E p \in Procs : Step(p)
    \/ \E o \in Objects, x \in Places : Create(o, x)

Spec == Init /\ [][Next]_vars

-----------------------------------------------------------------------------
(* Properties.                                                               *)

(* Every variable holds what the code can put there. *)
TypeOK ==
    /\ holds \in [Slots -> SUBSET Objects]
    /\ partial \subseteq Slots
    /\ info \in [Names -> Places \cup {None, Blank}]
    /\ op \in [Procs -> [at : {"idle", "named", "moving", "copying", "copied", "aimed",
                               "moved", "files", "infos"},
                         src : Slots \cup {None}, dst : Slots \cup {None},
                         left : SUBSET Names]]
    /\ fresh \subseteq Objects
    /\ mishaps \in 0 .. Mishaps
    /\ origin \in [Names -> Places \cup {None}]
    /\ orphaned \subseteq Names

(* The places whose path is read back as it was written: no blank at its end *)
(* and no line break in it.                                                  *)
Legible == {x \in Places : ReadBack[x] = x}

(* Whatever fails and wherever a process dies, a payload in the trash has an *)
(* info file written for the place it came from, and restore leads back to   *)
(* that place if its path is legible; of another path it makes another place *)
(* (trash.py:210), against docs/trash.md:51.  Payloads are exempt whose info *)
(* was unlinked beside them: after a copy across file systems that failed    *)
(* when it was complete, or by an empty_trash that could not remove them.    *)
Recoverable ==
    \A n \in Names : holds[n] # {} /\ n \notin orphaned =>
        /\ info[n] = origin[n]
        /\ origin[n] \in Legible => Goal(n, None) = origin[n]

(* When nothing has failed, files and info correspond between operations. *)
Tidy ==
    mishaps = Mishaps /\ (\A p \in Procs : op[p] = Idle) =>
        \A n \in Names : Occupied(n) <=> info[n] # None

Where(o) ==
    IF o \in fresh THEN "absent"
    ELSE IF \E x \in Places : o \in holds[x] THEN "home"
    ELSE IF \E n \in Names : o \in holds[n] THEN "trash"
    ELSE "gone"

(* empty_trash is at the files directory. *)
Emptying == \E p \in Procs : op[p].at = "files"

Bin == INSTANCE TrashBin WITH where <- [o \in Objects |-> Where(o)], emptying <- Emptying

(* One process at a time keeps the promise of TrashBin through every failure *)
(* and crash: an object goes from the trash only while empty_trash is at the *)
(* files, never by a restore or a copy that fails; but for a dangling link   *)
(* that stands where something else arrives.                                 *)
KeepsPromise == Bin!Spec

(* docs/trash.md:9: "Instead of permanently unlinking files, fastdelete      *)
(* trash moves the target into the user's desktop Trash directory".  While   *)
(* nobody empties the trash, nothing is destroyed, whatever processes run    *)
(* at the same time.                                                         *)
NothingDestroyed ==
    [][\A o \in Objects :
           Where(o) \in {"home", "trash"} /\ Where(o)' = "gone"
               => Emptying]_vars
=============================================================================
