------------------------------- MODULE CEngine -------------------------------
(* FastDeleter.run with the compiled engine: _run_c_engine in deleter.py and *)
(* c_fastdelete_tree in c_engine.c, which deletes the whole tree in one call *)
(* without the filter (run() takes it only when there is none), while other  *)
(* processes change the tree and another thread asks for an abort.  The      *)
(* engine cannot see abort_event: request_abort also sets an integer that it *)
(* reads.                                                                    *)
EXTENDS Disk, Sequences

CONSTANTS
    Capacity,   \* stack_cap at the start (64)
    Garbage,    \* depths that may be read from a frame realloc has moved away
    MayAbort    \* another thread may call request_abort

ASSUME CEngineAssumption ==
    /\ Capacity \in Nat \ {0}
    /\ Garbage \subseteq Int
    /\ MayAbort \in BOOLEAN
    /\ \A j \in Jobs : ~j.filtered /\ ~j.pooled

VARIABLES
    job,       \* the options of this deletion
    event,     \* abort_event
    flag,      \* _c_abort_flag
    request,   \* where the thread that asks for an abort is
    seen,      \* abort_event as _run_c_engine read it
    pc,        \* where the call is
    cur,       \* the entry being removed
    blame,     \* the counter for a removal of cur that fails again
    stack,     \* the engine's frames, innermost last
    cap,       \* stack_cap
    unread,    \* entries an open directory stream still has to return
    given,     \* entries the streams have returned
    cstats,    \* CDeleteStats
    ret,       \* what c_fastdelete_tree returned
    stats,     \* DeletionStats
    late,      \* history: removals since the engine can see the abort
    after,     \* history: removals since request_abort returned
    mistaken   \* history: directories taken for the target

abortVars == <<event, flag, request, seen>>
frameVars == <<stack, cap, mistaken>>
entryVars == <<cur, blame>>
walkVars  == <<frameVars, entryVars, unread, given>>
outVars   == <<cstats, ret, stats>>
lateVars  == <<late, after>>
vars == <<disk, job, abortVars, pc, walkVars, outVars, lateVars>>

Counters == {"discovered", "files", "dirs", "failed", "skipped"}
NoStats  == [c \in Counters |-> 0]
Plus(s, c) == [s EXCEPT ![c] = @ + 1]
Count(c)   == cstats' = Plus(cstats, c)

Frames == [dir : Dirs, depth : Int]
Top    == stack[Len(stack)]
Below  == SubSeq(stack, 1, Len(stack) - 1)

(* run() has inspected the target and calls _run_c_engine. *)
Init ==
    /\ DiskInit
    /\ job \in Jobs
    /\ event = FALSE /\ flag = FALSE /\ seen = FALSE
    /\ request = "none"
    /\ pc = "read"
    /\ cur = Root /\ blame = "failed"
    /\ stack = <<>> /\ cap = Capacity /\ mistaken = {}
    /\ unread = {} /\ given = {}
    /\ cstats = NoStats /\ stats = NoStats
    /\ ret = 0
    /\ late = 0 /\ after = 0

-----------------------------------------------------------------------------
(* request_abort, on another thread: abort_event, then the engine's flag.    *)

RequestEvent ==
    /\ MayAbort
    /\ request = "none"
    /\ event' = TRUE
    /\ request' = "half"
    /\ UNCHANGED <<disk, job, flag, seen, pc, walkVars, outVars, lateVars>>

RequestFlag ==
    /\ request = "half"
    /\ flag' = TRUE
    /\ request' = "made"
    /\ UNCHANGED <<disk, job, event, seen, pc, walkVars, outVars, lateVars>>

-----------------------------------------------------------------------------
(* The Python side of the call.                                              *)

(* _c_abort_flag.value = 1 if abort_event.is_set() else 0: the event is read *)
(* before the flag is written, whatever another thread wrote in between.     *)
ReadEvent ==
    /\ pc = "read"
    /\ seen' = event
    /\ pc' = "write"
    /\ UNCHANGED <<disk, job, event, flag, request, walkVars, outVars, lateVars>>

WriteFlag ==
    /\ pc = "write"
    /\ flag' = seen
    /\ pc' = "enter"
    /\ UNCHANGED <<disk, job, event, request, seen, walkVars, outVars, lateVars>>

(* A call that failed without counting it adds one to stats.failed; then     *)
(* every counter, failed included, becomes the engine's.                     *)
CollectedFrom(before) ==
    LET noted == IF ret # 0 /\ cstats.failed = 0 THEN Plus(before, "failed") ELSE before
    IN  [c \in DOMAIN noted |-> cstats[c]]

Collect ==
    /\ pc = "collect"
    /\ stats' = CollectedFrom(stats)
    /\ pc' = "done"
    /\ UNCHANGED <<disk, job, abortVars, walkVars, cstats, ret, lateVars>>

-----------------------------------------------------------------------------
(* c_fastdelete_tree.                                                        *)

Return(code) == ret' = code /\ pc' = "collect"

EnterAborted ==
    /\ pc = "enter"
    /\ flag
    /\ Return(0)
    /\ UNCHANGED <<disk, job, abortVars, walkVars, cstats, stats, lateVars>>

(* lstat or opendir of the target fails. *)
EnterFails ==
    /\ pc = "enter"
    /\ ~flag
    /\ ~Openable(Root, 0)
    /\ Count("failed")
    /\ Return(-1)
    /\ UNCHANGED <<disk, job, abortVars, walkVars, stats, lateVars>>

(* malloc of the stack or strdup of the path fails: no counter changes.      *)
EnterNoMemory ==
    /\ pc = "enter"
    /\ ~flag
    /\ Root \in present
    /\ Misfortune
    /\ Return(-2)
    /\ UNCHANGED <<job, abortVars, walkVars, cstats, stats, lateVars>>

Enter ==
    /\ pc = "enter"
    /\ ~flag
    /\ Openable(Root, 0)
    /\ stack' = <<[dir |-> Root, depth |-> 0]>>
    /\ unread' = Children(Root) \cap present
    /\ pc' = "loop"
    /\ UNCHANGED <<disk, job, abortVars, entryVars, cap, mistaken, given, outVars, lateVars>>

(* The loop reads the flag before every readdir. *)
LoopAbort ==
    /\ pc = "loop"
    /\ flag
    /\ stack # <<>>
    /\ Return(0)
    /\ UNCHANGED <<disk, job, abortVars, walkVars, cstats, stats, lateVars>>

LoopDone ==
    /\ pc = "loop"
    /\ stack = <<>>
    /\ Return(0)
    /\ UNCHANGED <<disk, job, abortVars, walkVars, cstats, stats, lateVars>>

Reading == pc = "loop" /\ ~flag /\ stack # <<>>

(* An open stream returns what was there when it was opened and may return   *)
(* what came later; a replaced target is not the directory that is open.     *)
Listed(d) == Children(d) \cap (unread \cup IF sameRoot THEN present \ given ELSE {})

Take(n) ==
    /\ Reading
    /\ n \in Listed(Top.dir)
    /\ given' = given \cup {n}

(* malloc of the child's path fails: the entry is given up. *)
ReadNoMemory(n) ==
    /\ Take(n)
    /\ Misfortune
    /\ Count("failed")
    /\ unread' = unread \ {n}
    /\ UNCHANGED <<job, abortVars, pc, entryVars, frameVars, ret, stats, lateVars>>

ReadFile(n) ==
    /\ Take(n)
    /\ n \in Files
    /\ unread' = unread \ {n}
    /\ cur' = n
    /\ IF job.dryRun
       THEN cstats' = Plus(Plus(cstats, "discovered"), "files") /\ UNCHANGED pc
       ELSE Count("discovered") /\ pc' = "remove"
    /\ UNCHANGED <<disk, job, abortVars, blame, frameVars, ret, stats, lateVars>>

(* A directory that cannot be opened is a failure of its own. *)
ReadClosedDir(n) ==
    /\ Take(n)
    /\ n \in Dirs
    /\ ~Openable(n, Len(stack))
    /\ Count("failed")
    /\ unread' = unread \ {n}
    /\ UNCHANGED <<disk, job, abortVars, pc, entryVars, frameVars, ret, stats, lateVars>>

(* Mutant: the stack grows one frame too late. *)
FullBeyond == Len(stack) > cap

Full == Len(stack) >= cap

(* The depth of a new frame is computed from the frame curr points to, after *)
(* realloc may have moved the stack away from under it.                      *)
NewDepths == {Top.depth + 1} \cup IF Full THEN {g + 1 : g \in Garbage} ELSE {}

(* A directory is pushed; realloc doubles a stack that is full.              *)
ReadDir(n) ==
    /\ Take(n)
    /\ n \in Dirs
    /\ Openable(n, Len(stack))
    /\ \E k \in NewDepths : stack' = Append(stack, [dir |-> n, depth |-> k])
    /\ unread' = (unread \ {n}) \cup (Children(n) \cap present)
    /\ cap' = IF Full THEN 2 * cap ELSE cap
    /\ UNCHANGED <<disk, job, abortVars, pc, entryVars, mistaken, outVars, lateVars>>

(* realloc fails: the directory is given up and keeps what is in it.         *)
ReadDirNoGrowth(n) ==
    /\ Take(n)
    /\ n \in Dirs
    /\ Openable(n, Len(stack))
    /\ Full
    /\ Misfortune
    /\ Count("failed")
    /\ unread' = unread \ {n}
    /\ UNCHANGED <<job, abortVars, pc, entryVars, frameVars, ret, stats, lateVars>>

(* Mutant: delete_root_dir is not looked at. *)
KeptNever(frame) == FALSE

(* is_root, of a target that is to be kept. *)
Kept(frame) == frame.depth = 0 /\ ~job.deleteRoot

(* The directory on top is exhausted: it is closed and its turn has come.    *)
FinishDir ==
    /\ Reading
    /\ stack' = Below
    /\ cur' = Top.dir
    /\ unread' = unread \ Children(Top.dir)
    /\ IF Kept(Top)
       THEN /\ mistaken' = mistaken \cup ({Top.dir} \ {Root})
            /\ UNCHANGED <<cstats, pc>>
       ELSE /\ IF job.dryRun
               THEN Count("dirs") /\ UNCHANGED pc
               ELSE pc' = "remove" /\ UNCHANGED cstats
            /\ UNCHANGED mistaken
    /\ UNCHANGED <<job, abortVars, blame, cap, given, ret, stats, lateVars>>

ReadEnd == FinishDir /\ Children(Top.dir) \cap unread \cap present = {} /\ UNCHANGED disk

(* An error of readdir is taken for the end of the directory.                *)
ReadError == FinishDir /\ Misfortune

-----------------------------------------------------------------------------
(* unlink_with_force and rmdir_with_force.                                   *)

Kind(n)  == IF n \in Files THEN "files" ELSE "dirs"
Works(n) == Removal(n) /\ Leaf(n, present)

(* The counter for a removal the system refuses: rmdir of a directory that   *)
(* is merely not empty is skipped.                                           *)
Refusal(n) == IF n \in Busy \/ Forbidden(n) \/ Leaf(n, present) THEN "failed" ELSE "skipped"

Remove ==
    /\ pc \in {"remove", "retry"}
    /\ Works(cur)
    /\ Erase(cur)
    /\ Count(Kind(cur))
    /\ pc' = "loop"
    /\ late' = late + (IF flag THEN 1 ELSE 0)
    /\ after' = after + (IF request = "made" THEN 1 ELSE 0)
    /\ UNCHANGED <<job, abortVars, walkVars, ret, stats>>

(* Mutant: an entry that is gone is not counted. *)
RemoveGoneUncounted ==
    /\ pc \in {"remove", "retry"}
    /\ cur \notin present
    /\ pc' = "loop"
    /\ UNCHANGED <<disk, job, abortVars, walkVars, outVars, lateVars>>

(* ENOENT: somebody else removed it, which counts as success. *)
RemoveGone ==
    /\ pc \in {"remove", "retry"}
    /\ cur \notin present
    /\ Count(Kind(cur))
    /\ pc' = "loop"
    /\ UNCHANGED <<disk, job, abortVars, walkVars, ret, stats, lateVars>>

(* Mutant: changing the modes is taken for the removal itself. *)
RemoveForceNoRetry ==
    /\ pc = "remove"
    /\ cur \in present
    /\ ~Works(cur)
    /\ job.force
    /\ Chmod(cur)
    /\ Count(Kind(cur))
    /\ pc' = "loop"
    /\ UNCHANGED <<job, abortVars, walkVars, ret, stats, lateVars>>

(* Mutant: with force the removal is tried until it works. *)
RemoveForceForever ==
    /\ pc = "remove"
    /\ cur \in present
    /\ ~Works(cur)
    /\ job.force
    /\ Chmod(cur)
    /\ blame' = Refusal(cur)
    /\ UNCHANGED <<job, abortVars, pc, frameVars, cur, unread, given, outVars, lateVars>>

(* With force any error changes the modes and tries again. *)
RemoveForce ==
    /\ pc = "remove"
    /\ cur \in present
    /\ ~Works(cur)
    /\ job.force
    /\ Chmod(cur)
    /\ blame' = Refusal(cur)
    /\ pc' = "retry"
    /\ UNCHANGED <<job, abortVars, frameVars, cur, unread, given, outVars, lateVars>>

(* A second error is reported as the first one. *)
RemoveFails ==
    /\ \/ pc = "remove" /\ ~job.force
       \/ pc = "retry"
    /\ cur \in present
    /\ ~Works(cur)
    /\ Count(IF pc = "retry" THEN blame ELSE Refusal(cur))
    /\ pc' = "loop"
    /\ UNCHANGED <<disk, job, abortVars, walkVars, ret, stats, lateVars>>

RemoveStep == Remove \/ RemoveGone \/ RemoveForce \/ RemoveFails

-----------------------------------------------------------------------------
Call ==
    \/ ReadEvent \/ WriteFlag \/ Collect
    \/ EnterAborted \/ EnterFails \/ Enter
    \/ LoopAbort \/ LoopDone
    \/ \E n \in Nodes : ReadFile(n) \/ ReadClosedDir(n) \/ ReadDir(n)
    \/ ReadEnd
    \/ RemoveStep

Shortage ==
    \/ EnterNoMemory
    \/ \E n \in Nodes : ReadNoMemory(n) \/ ReadDirNoGrowth(n)
    \/ ReadError

Meddle ==
    /\ pc # "done"
    /\ Others
    /\ UNCHANGED <<job, abortVars, pc, walkVars, outVars, lateVars>>

Environment == RequestEvent \/ RequestFlag \/ Shortage \/ Meddle

(* run() has returned: nothing is left to do. *)
Finished == pc = "done" /\ UNCHANGED vars

Next == Call \/ Environment \/ Finished

Spec == Init /\ [][Next]_vars

(* The thread in the call runs; nobody else owes it anything. *)
FairSpec == Spec /\ WF_vars(Call)

-----------------------------------------------------------------------------
(* Properties.                                                               *)

(* Every variable holds what the code can put there. *)
TypeOK ==
    /\ job \in Jobs
    /\ present \subseteq Nodes
    /\ mode \subseteq Dirs \cup {Container}
    /\ sameRoot \in BOOLEAN
    /\ fresh \subseteq Nodes
    /\ removed \subseteq Nodes
    /\ env \in 0 .. EnvBudget
    /\ {event, flag, seen} \subseteq BOOLEAN
    /\ request \in {"none", "half", "made"}
    /\ pc \in {"read", "write", "enter", "loop", "remove", "retry", "collect", "done"}
    /\ cur \in Nodes
    /\ blame \in {"failed", "skipped"}
    /\ stack \in Seq(Frames)
    /\ cap \in Nat
    /\ Len(stack) <= cap
    /\ unread \subseteq Nodes
    /\ given \subseteq Nodes
    /\ cstats \in [Counters -> Nat]
    /\ stats \in [Counters -> Nat]
    /\ ret \in {0, -1, -2}
    /\ late \in Nat
    /\ after \in Nat
    /\ mistaken \subseteq Dirs

Counted == cstats.files + cstats.dirs + cstats.failed + cstats.skipped

(* Every entry readdir returned, and the target when it is to be removed,    *)
(* ends in exactly one counter of CDeleteStats once the walk is over,        *)
(* whatever was removed, added or refused meanwhile; only a directory the    *)
(* engine takes for a target to be kept is counted nowhere.                  *)
EntriesAccounted ==
    /\ Counted <= Cardinality(given) + 1
    /\ pc = "done" /\ request = "none" /\ ret = 0 =>
           Counted = Cardinality(given \ mistaken) + (IF job.deleteRoot THEN 1 ELSE 0)

(* While no other process interferes, the engine counts as deleted what it   *)
(* has removed, although it also counts an entry it finds gone.              *)
CountsAreRemovals ==
    Undisturbed /\ ~job.dryRun =>
        /\ cstats.files = Cardinality(removed \cap Files)
        /\ cstats.dirs  = Cardinality(removed \cap Dirs)

(* Why an entry may survive a deletion nobody interfered with: it is the     *)
(* target and to be kept, or was taken for it, the system will not remove    *)
(* it, something in it survives, its directory is write-protected for good   *)
(* or cannot be read.                                                        *)
Excused(n) ==
    \/ n \notin Allowed(job)
    \/ n \in Busy \cup mistaken
    \/ ~Leaf(n, present)
    \/ Parent[n] \in ReadOnly /\ (job.force => Parent[n] \notin Owned)
    \/ Path[n] \cap Unreadable # {}

(* A call that ran to its end, with nobody interfering, has removed all it   *)
(* could, however far the stack had to grow.                                 *)
NoLeftovers ==
    pc = "done" /\ request = "none" /\ Undisturbed /\ ~job.dryRun =>
        \A n \in present : Excused(n)

(* Once the engine is inside the call. *)
Visible == flag /\ pc \notin {"read", "write"}

Promise == INSTANCE TreeRemoval WITH
    tree <- present, aborted <- Visible, done <- (pc = "done"),
    grace <- IF late = 0 THEN Actors ELSE Workers

(* The engine keeps the promise of TreeRemoval from the moment it can see an *)
(* abort: it removes only entries of the tree (nothing in a dry run, never a *)
(* target that is to be kept), and after the flag is set at most the one     *)
(* entry it had begun with.                                                  *)
KeepsPromise == Promise!Spec

(* The call returns, whatever the other processes do. *)
Terminates == <>(pc = "done")

(* deleter.py:531-532, "ensure the failure is reflected in stats": a call    *)
(* that returned an error leaves a failure in DeletionStats.                 *)
FailureReported == pc = "done" /\ ret # 0 => stats.failed > 0

(* request_abort, deleter.py:186, "Signal a clean abort": once it has        *)
(* returned, at most the removal in progress is carried out.                 *)
AbortHonoured == after <= 1

(* docs/architecture.md:63: before the target is removed, device and inode   *)
(* are inspected "to verify the target directory was not replaced", so a     *)
(* target replaced after run() inspected it survives.                        *)
ReplacedTargetKept ==
    [](~sameRoot /\ Root \notin removed /\ pc \notin {"remove", "retry"}
           => [](Root \notin removed))
=============================================================================
