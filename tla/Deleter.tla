------------------------------- MODULE Deleter -------------------------------
(* FastDeleter.run on a directory with the Python engine: the scanner        *)
(* generator (scanner.py) that the main thread pulls items from, the         *)
(* sequential and the pooled loop (_run_sequential, _run_parallel), and      *)
(* delete_file_entry and delete_dir_entry as their threads carry them out,   *)
(* while other processes change the tree and an abort may arrive at any      *)
(* moment.  A step ends where another thread or process can come between:    *)
(* at a system call, at a test of abort_event, at the executor's queue.      *)
EXTENDS Disk, Sequences, Functions

CONSTANTS
    BatchSize,   \* batch_size of _run_parallel
    MayAbort     \* an abort may be requested

ASSUME DeleterAssumption ==
    /\ BatchSize \in Nat \ {0}
    /\ MayAbort \in BOOLEAN

VARIABLES
    job,       \* the options of this deletion
    abort,     \* abort_event
    pc,        \* where the main thread is
    item,      \* the ScanItem in its hand
    stack,     \* the scanner's stack of open directories, innermost last
    unread,    \* entries an open iterator still has to return
    given,     \* entries the iterators have returned
    batch,     \* file_batch
    queue,     \* batches submitted to the executor that no worker has taken
    hand,      \* what is left of the batch each thread is working on
    step,      \* where each thread is in delete_file_entry
    stats,     \* DeletionStats
    late,      \* history: removals of each thread since the abort
    yielded    \* history: items the scanner has yielded

scanVars == <<stack, unread, given, yielded>>
poolVars == <<batch, queue, hand, step>>
vars == <<job, disk, abort, pc, item, scanVars, poolVars, stats, late>>

Actions == {"FILE", "DIR_POST", "FILE_SKIP", "DIR_SKIP", "SCAN_ERROR"}
Items   == [action : Actions, node : Nodes]
Item(action, n) == [action |-> action, node |-> n]

Top   == stack[Len(stack)]
Below == SubSeq(stack, 1, Len(stack) - 1)

(* The counters of DeletionStats the two engines keep. *)
Counters == {"discovered", "files", "dirs", "failed", "skipped"}
Count(field) == stats' = [stats EXCEPT ![field] = @ + 1]

Init ==
    /\ job \in Jobs
    /\ DiskInit
    /\ abort = FALSE
    /\ pc = "start"
    /\ item = Item("SCAN_ERROR", Root)
    /\ stack = <<>>
    /\ unread = {}
    /\ given = {}
    /\ batch = <<>>
    /\ queue = <<>>
    /\ hand = [a \in Actors |-> <<>>]
    /\ step = [a \in Actors |-> "idle"]
    /\ stats = [c \in Counters |-> 0]
    /\ late = [a \in Actors |-> 0]
    /\ yielded = 0

-----------------------------------------------------------------------------
(* delete_file_entry, by thread a on the entry at the head of its hand.      *)

Current(a) == Head(hand[a])

(* Thread a removes n. *)
EraseBy(a, n) == Erase(n) /\ late' = IF abort THEN [late EXCEPT ![a] = @ + 1] ELSE late

(* _try_force_permission, where one chmod that works is enough. *)
Forceable(n) == job.force /\ Chmodable(n) # {}

(* The thread is through with the entry; worker_delete goes to the next one. *)
Advance(a) ==
    /\ hand' = [hand EXCEPT ![a] = Tail(@)]
    /\ step' = [step EXCEPT ![a] = IF Tail(hand[a]) = <<>> THEN "idle" ELSE "enter"]

Goto(a, s) == step' = [step EXCEPT ![a] = s] /\ UNCHANGED hand

FileAbort(a) ==
    /\ step[a] = "enter"
    /\ abort
    /\ hand' = [hand EXCEPT ![a] = <<>>]
    /\ step' = [step EXCEPT ![a] = "idle"]
    /\ UNCHANGED <<job, disk, abort, pc, item, scanVars, batch, queue, stats, late>>

FileDryRun(a) ==
    /\ step[a] = "enter"
    /\ ~abort
    /\ job.dryRun
    /\ stats' = [stats EXCEPT !.discovered = @ + 1, !.files = @ + 1]
    /\ Advance(a)
    /\ UNCHANGED <<job, disk, abort, pc, item, scanVars, batch, queue, late>>

(* Mutant: the test of abort_event is missing. *)
FileEnterAnyway(a) ==
    /\ step[a] = "enter"
    /\ ~job.dryRun
    /\ Count("discovered")
    /\ Goto(a, "unlink")
    /\ UNCHANGED <<job, disk, abort, pc, item, scanVars, batch, queue, late>>

FileEnter(a) ==
    /\ step[a] = "enter"
    /\ ~abort
    /\ ~job.dryRun
    /\ Count("discovered")
    /\ Goto(a, "unlink")
    /\ UNCHANGED <<job, disk, abort, pc, item, scanVars, batch, queue, late>>

(* os.unlink succeeds, the first time or after the modes were changed. *)
Unlink(a) ==
    /\ step[a] \in {"unlink", "retry"}
    /\ Removal(Current(a))
    /\ EraseBy(a, Current(a))
    /\ Count("files")
    /\ Advance(a)
    /\ UNCHANGED <<job, abort, pc, item, scanVars, batch, queue>>

(* FileNotFoundError from the first unlink: somebody else removed the file.  *)
UnlinkGone(a) ==
    /\ step[a] = "unlink"
    /\ Current(a) \notin present
    /\ Count("files")
    /\ Advance(a)
    /\ UNCHANGED <<job, disk, abort, pc, item, scanVars, batch, queue, late>>

(* PermissionError with force and a mode that could be changed. *)
UnlinkForce(a) ==
    /\ step[a] = "unlink"
    /\ Current(a) \in present
    /\ Forbidden(Current(a))
    /\ Forceable(Current(a))
    /\ Chmod(Current(a))
    /\ Goto(a, "retry")
    /\ UNCHANGED <<job, abort, pc, item, scanVars, batch, queue, stats, late>>

(* Any error of the unlink that is not handled above. *)
UnlinkError(a) ==
    /\ \/ /\ step[a] = "unlink"
          /\ Current(a) \in present
          /\ IF Forbidden(Current(a)) THEN ~Forceable(Current(a))
                                            ELSE Current(a) \in Busy
       \/ /\ step[a] = "retry"
          /\ \/ Current(a) \notin present
             \/ Forbidden(Current(a))
             \/ Current(a) \in Busy
    /\ Count("failed")
    /\ Advance(a)
    /\ UNCHANGED <<job, disk, abort, pc, item, scanVars, batch, queue, late>>

FileStep(a) ==
    \/ FileAbort(a) \/ FileDryRun(a) \/ FileEnter(a)
    \/ Unlink(a) \/ UnlinkGone(a) \/ UnlinkForce(a) \/ UnlinkError(a)

(* Mutant: an aborted pool takes no batch, so nobody completes its future. *)
TakeBatchUnlessAborted(w) ==
    /\ ~abort
    /\ step[w] = "idle"
    /\ queue # <<>>
    /\ hand' = [hand EXCEPT ![w] = Head(queue)]
    /\ step' = [step EXCEPT ![w] = "enter"]
    /\ queue' = Tail(queue)
    /\ UNCHANGED <<job, disk, abort, pc, item, scanVars, batch, stats, late>>

(* A worker of the executor takes the oldest batch. *)
TakeBatch(w) ==
    /\ step[w] = "idle"
    /\ queue # <<>>
    /\ hand' = [hand EXCEPT ![w] = Head(queue)]
    /\ step' = [step EXCEPT ![w] = "enter"]
    /\ queue' = Tail(queue)
    /\ UNCHANGED <<job, disk, abort, pc, item, scanVars, batch, stats, late>>

-----------------------------------------------------------------------------
(* delete_dir_entry, by the main thread.                                     *)

DirAbort ==
    /\ pc = "dir"
    /\ abort
    /\ pc' = "next"
    /\ UNCHANGED <<job, disk, abort, item, scanVars, poolVars, stats, late>>

(* verify_unchanged: the target is still the directory run() inspected.      *)
Unchanged == Root \in present /\ sameRoot

(* The target is gone or was replaced: it is left alone. *)
RootChanged ==
    /\ pc = "dir"
    /\ ~abort
    /\ ~job.dryRun
    /\ Depth[item.node] = 0
    /\ ~Unchanged
    /\ Count("failed")
    /\ pc' = "next"
    /\ UNCHANGED <<job, disk, abort, item, scanVars, poolVars, late>>

DirDryRun ==
    /\ pc = "dir"
    /\ ~abort
    /\ job.dryRun
    /\ Count("dirs")
    /\ pc' = "next"
    /\ UNCHANGED <<job, disk, abort, item, scanVars, poolVars, late>>

(* Mutant: the identity of the target is not verified. *)
DirEnterUnverified ==
    /\ pc = "dir"
    /\ ~abort
    /\ ~job.dryRun
    /\ pc' = "rmdir"
    /\ UNCHANGED <<job, disk, abort, item, scanVars, poolVars, stats, late>>

DirEnter ==
    /\ pc = "dir"
    /\ ~abort
    /\ ~job.dryRun
    /\ Depth[item.node] = 0 => Unchanged
    /\ pc' = "rmdir"
    /\ UNCHANGED <<job, disk, abort, item, scanVars, poolVars, stats, late>>

Rmdir ==
    /\ pc \in {"rmdir", "rmdir_retry"}
    /\ Removal(item.node)
    /\ Leaf(item.node, present)
    /\ EraseBy(Main, item.node)
    /\ Count("dirs")
    /\ pc' = "next"
    /\ UNCHANGED <<job, abort, item, scanVars, poolVars>>

RmdirGone ==
    /\ pc = "rmdir"
    /\ item.node \notin present
    /\ Count("dirs")
    /\ pc' = "next"
    /\ UNCHANGED <<job, disk, abort, item, scanVars, poolVars, late>>

(* ENOTEMPTY, which the system reports only when nothing worse is wrong. *)
RmdirNotEmpty ==
    /\ pc = "rmdir"
    /\ Removal(item.node)
    /\ ~Leaf(item.node, present)
    /\ Count("skipped")
    /\ pc' = "next"
    /\ UNCHANGED <<job, disk, abort, item, scanVars, poolVars, late>>

Refused(d) == d \in present /\ (Forbidden(d) \/ d \in Busy)

RmdirForce ==
    /\ pc = "rmdir"
    /\ Refused(item.node)
    /\ Forceable(item.node)
    /\ Chmod(item.node)
    /\ pc' = "rmdir_retry"
    /\ UNCHANGED <<job, abort, item, scanVars, poolVars, stats, late>>

RmdirError ==
    /\ \/ /\ pc = "rmdir"
          /\ Refused(item.node)
          /\ ~Forceable(item.node)
       \/ /\ pc = "rmdir_retry"
          /\ \/ item.node \notin present
             \/ Refused(item.node)
             \/ ~Leaf(item.node, present)
    /\ Count("failed")
    /\ pc' = "next"
    /\ UNCHANGED <<job, disk, abort, item, scanVars, poolVars, late>>

DirStep ==
    \/ DirAbort \/ RootChanged \/ DirDryRun \/ DirEnter
    \/ Rmdir \/ RmdirGone \/ RmdirNotEmpty \/ RmdirForce \/ RmdirError

-----------------------------------------------------------------------------
(* DirectoryScanner.scan, run by the main thread each time the loop asks for *)
(* the next item.                                                            *)

Yield(i) == item' = i /\ yielded' = yielded + 1 /\ pc' = "got"

(* Mutant: the last, partial batch is forgotten. *)
AfterLoopNoFlush == "done"

(* What follows the loop: the pool is flushed and joined. *)
AfterLoop == IF job.pooled THEN "flush" ELSE "done"

(* An iterator returns what was there when it was opened and may return what *)
(* came later; a replaced target is another directory than the one open.     *)
Listed(d) == Children(d) \cap (unread \cup IF sameRoot THEN present \ given ELSE {})

(* run() inspects the target, which may fail. *)
Inspect ==
    /\ pc = "start"
    /\ sameRoot' = TRUE
    /\ IF Root \in present
       THEN pc' = "open" /\ UNCHANGED stats
       ELSE pc' = "done" /\ Count("failed")
    /\ UNCHANGED <<job, present, mode, fresh, removed, env, abort, item, scanVars, poolVars,
                   late>>

(* The scanner's own lstat and scandir of the target. *)
OpenRoot ==
    /\ pc = "open"
    /\ IF Openable(Root, Len(stack))
       THEN /\ stack' = <<Root>>
            /\ unread' = Children(Root) \cap present
            /\ pc' = "next"
            /\ UNCHANGED <<item, yielded>>
       ELSE /\ Yield(Item("SCAN_ERROR", Root))
            /\ UNCHANGED <<stack, unread>>
    /\ UNCHANGED <<job, disk, abort, given, poolVars, stats, late>>

ScanStep(n) ==
    /\ pc = "next"
    /\ stack # <<>>
    /\ n \in Listed(Top)
    /\ given' = given \cup {n}

(* A file, a symlink or a special file. *)
ScanFile(n) ==
    /\ ScanStep(n)
    /\ n \in Files
    /\ unread' = unread \ {n}
    /\ Yield(Item(IF n \in Matched(job) THEN "FILE" ELSE "FILE_SKIP", n))
    /\ UNCHANGED <<job, disk, abort, stack, poolVars, stats, late>>

ScanDir(n) ==
    /\ ScanStep(n)
    /\ n \in Dirs
    /\ IF n \in Traversed(job) /\ Openable(n, Len(stack))
       THEN /\ stack' = Append(stack, n)
            /\ unread' = (unread \ {n}) \cup (Children(n) \cap present)
            /\ UNCHANGED <<item, yielded, pc>>
       ELSE /\ Yield(Item(IF n \in Traversed(job) THEN "SCAN_ERROR" ELSE "DIR_SKIP", n))
            /\ unread' = unread \ {n}
            /\ UNCHANGED stack
    /\ UNCHANGED <<job, disk, abort, poolVars, stats, late>>

Pop == stack' = Below /\ unread' = unread \ Children(Top) /\ UNCHANGED given

(* The innermost iterator is exhausted: its directory comes after its        *)
(* contents.  The target itself is not announced without delete_root_dir.    *)
ScanEnd ==
    /\ pc = "next"
    /\ stack # <<>>
    /\ Children(Top) \cap unread \cap present = {}
    /\ Pop
    /\ IF Depth[Top] = 0 /\ ~job.deleteRoot
       THEN UNCHANGED <<item, yielded, pc>>
       ELSE Yield(Item(IF Top \in Removable(job) THEN "DIR_POST" ELSE "DIR_SKIP", Top))
    /\ UNCHANGED <<job, disk, abort, poolVars, stats, late>>

(* Reading the directory fails: it is given up, with what it still holds. *)
ScanFail ==
    /\ pc = "next"
    /\ stack # <<>>
    /\ Misfortune
    /\ Pop
    /\ Yield(Item("SCAN_ERROR", Top))
    /\ UNCHANGED <<job, abort, poolVars, stats, late>>

ScanDone ==
    /\ pc = "next"
    /\ stack = <<>>
    /\ pc' = AfterLoop
    /\ UNCHANGED <<job, disk, abort, item, scanVars, poolVars, stats, late>>

-----------------------------------------------------------------------------
(* The loop of _run_sequential and of _run_parallel.                         *)

(* The loop tests abort_event once for every item. *)
LoopAbort ==
    /\ pc = "got"
    /\ abort
    /\ pc' = AfterLoop
    /\ UNCHANGED <<job, disk, abort, item, scanVars, poolVars, stats, late>>

(* Mutant: the test of item.action is missing. *)
GotAny(actions) == pc = "got" /\ ~abort /\ actions # {}

Got(actions) == pc = "got" /\ ~abort /\ item.action \in actions

(* Streaming: the main thread deletes the file itself and comes back. *)
StreamFile ==
    /\ Got({"FILE"})
    /\ ~job.pooled
    /\ hand' = [hand EXCEPT ![Main] = <<item.node>>]
    /\ step' = [step EXCEPT ![Main] = "enter"]
    /\ pc' = "file"
    /\ UNCHANGED <<job, disk, abort, item, scanVars, batch, queue, stats, late>>

StreamReturn ==
    /\ pc = "file"
    /\ step[Main] = "idle"
    /\ pc' = "next"
    /\ UNCHANGED <<job, disk, abort, item, scanVars, poolVars, stats, late>>

(* Mutant: file_batch is not reset after it was submitted. *)
SubmitKeep(b) == queue' = Append(queue, b) /\ UNCHANGED batch

(* submit_batch, and the reset of file_batch that follows it. *)
Submit(b) == queue' = Append(queue, b) /\ batch' = <<>>

(* Pooled: the file joins the batch, and a full batch goes to the pool. *)
BatchFile ==
    /\ Got({"FILE"})
    /\ job.pooled
    /\ LET b == Append(batch, item.node)
       IN  IF Len(b) >= BatchSize
           THEN Submit(b)
           ELSE batch' = b /\ UNCHANGED queue
    /\ pc' = "next"
    /\ UNCHANGED <<job, disk, abort, item, scanVars, hand, step, stats, late>>

SubmitRest == IF batch # <<>> THEN Submit(batch) ELSE UNCHANGED <<batch, queue>>

(* A directory comes up for removal: the pool gets the partial batch. *)
PostDir ==
    /\ Got({"DIR_POST"})
    /\ IF job.pooled
       THEN SubmitRest /\ pc' = "drain"
       ELSE pc' = "dir" /\ UNCHANGED <<batch, queue>>
    /\ UNCHANGED <<job, disk, abort, item, scanVars, hand, step, stats, late>>

(* Mutant: batches that a worker has begun do not count as pending. *)
DrainedQueueOnly == queue = <<>>

(* No submitted future is pending. *)
Drained == queue = <<>> /\ \A w \in Workers : step[w] = "idle"

(* drain_futures before the directory, then delete_dir_entry. *)
Drain ==
    /\ pc = "drain"
    /\ Drained
    /\ pc' = "dir"
    /\ UNCHANGED <<job, disk, abort, item, scanVars, poolVars, stats, late>>

SkipItem ==
    /\ Got({"FILE_SKIP", "DIR_SKIP"})
    /\ Count("skipped")
    /\ pc' = "next"
    /\ UNCHANGED <<job, disk, abort, item, scanVars, poolVars, late>>

ScanError ==
    /\ Got({"SCAN_ERROR"})
    /\ Count("failed")
    /\ pc' = "next"
    /\ UNCHANGED <<job, disk, abort, item, scanVars, poolVars, late>>

(* After the loop: the last batch, the last drain, the executor's shutdown.  *)
Flush ==
    /\ pc = "flush"
    /\ SubmitRest
    /\ pc' = "join"
    /\ UNCHANGED <<job, disk, abort, item, scanVars, hand, step, stats, late>>

Join ==
    /\ pc = "join"
    /\ Drained
    /\ pc' = "done"
    /\ UNCHANGED <<job, disk, abort, item, scanVars, poolVars, stats, late>>

MainStep ==
    \/ Inspect \/ OpenRoot \/ ScanEnd \/ ScanDone
    \/ \E n \in Nodes : ScanFile(n) \/ ScanDir(n)
    \/ LoopAbort \/ StreamFile \/ StreamReturn \/ BatchFile \/ PostDir \/ Drain
    \/ SkipItem \/ ScanError \/ Flush \/ Join
    \/ DirStep
    \/ FileStep(Main)

WorkerStep(w) == TakeBatch(w) \/ FileStep(w)

-----------------------------------------------------------------------------
(* Other threads and other processes.                                        *)

RequestAbort ==
    /\ MayAbort
    /\ ~abort
    /\ pc # "done"
    /\ abort' = TRUE
    /\ UNCHANGED <<job, disk, pc, item, scanVars, poolVars, stats, late>>

Meddle ==
    /\ pc # "done"
    /\ Others
    /\ UNCHANGED <<job, abort, pc, item, scanVars, poolVars, stats, late>>

Environment == RequestAbort \/ ScanFail \/ Meddle

(* run() has returned: nothing is left to do. *)
Finished == pc = "done" /\ UNCHANGED vars

Next == MainStep \/ (\E w \in Workers : WorkerStep(w)) \/ Environment \/ Finished

Spec == Init /\ [][Next]_vars

(* The operating system runs every thread that can go on; it owes nothing to *)
(* the other processes, and nobody need ever ask for an abort.               *)
Fairness == WF_vars(MainStep) /\ \A w \in Workers : WF_vars(WorkerStep(w))

FairSpec == Spec /\ Fairness

-----------------------------------------------------------------------------
(* Properties.                                                               *)

Positions == {"start", "open", "next", "got", "file", "drain", "dir", "rmdir",
              "rmdir_retry", "flush", "join", "done"}

(* Every variable holds what the code can put there. *)
TypeOK ==
    /\ job \in Jobs
    /\ present \subseteq Nodes
    /\ mode \subseteq Dirs \cup {Container}
    /\ sameRoot \in BOOLEAN
    /\ fresh \subseteq Nodes
    /\ abort \in BOOLEAN
    /\ pc \in Positions
    /\ item \in Items
    /\ stack \in Seq(Dirs)
    /\ unread \subseteq Nodes
    /\ given \subseteq Nodes
    /\ batch \in Seq(Files)
    /\ queue \in Seq(Seq(Files) \ {<<>>})
    /\ hand \in [Actors -> Seq(Files)]
    /\ step \in [Actors -> {"idle", "enter", "unlink", "retry"}]
    /\ stats \in [Counters -> Nat]
    /\ removed \subseteq Nodes
    /\ late \in [Actors -> Nat]
    /\ yielded \in Nat
    /\ env \in 0 .. EnvBudget

(* The files handed over to the pool or to a thread and not dealt with yet.  *)
Waiting == Range(batch) \cup (UNION {Range(b) : b \in Range(queue)})
              \cup (UNION {Range(hand[a]) : a \in Actors})

(* _run_parallel drains the pool before it removes a directory and before it *)
(* returns: from the drain to the rmdir, and after the return, no file the   *)
(* scanner handed over is still waiting for a thread.  So no rmdir meets a   *)
(* file this deletion is about to remove, and nothing is removed behind the  *)
(* caller's back.                                                            *)
PostOrder == pc \in {"dir", "rmdir", "rmdir_retry", "done"} => Waiting = {}

Counted == stats.files + stats.dirs + stats.failed + stats.skipped

(* Every item the scanner yields ends in exactly one counter of              *)
(* DeletionStats: none is counted twice, and without an abort none is lost,  *)
(* whichever thread dealt with it and however that ended.  The 1 is the      *)
(* inspection run() counts as failed before there is any item.               *)
ItemsAccounted ==
    /\ Counted <= yielded + (IF pc = "done" /\ yielded = 0 THEN 1 ELSE 0)
    /\ pc = "done" /\ ~abort /\ yielded > 0 => Counted = yielded
    /\ stats.files <= stats.discovered
    /\ pc = "done" => stats.discovered - stats.files <= stats.failed

(* While no other process interferes, files_deleted and directories_deleted  *)
(* are the numbers of entries this deletion has removed, although            *)
(* delete_file_entry also counts a file it finds gone.                       *)
CountsAreRemovals ==
    Undisturbed /\ ~job.dryRun =>
        /\ stats.files = Cardinality(removed \cap Files)
        /\ stats.dirs  = Cardinality(removed \cap Dirs)

(* Why an entry may survive a deletion nobody interfered with: it was not to *)
(* be removed, the system will not remove it, something in it survives, its  *)
(* directory is write-protected for good, or its directory was never read.   *)
Excused(n) ==
    \/ n \notin Allowed(job)
    \/ n \in Busy
    \/ ~Leaf(n, present)
    \/ Parent[n] \in ReadOnly /\ (job.force => Parent[n] \notin Owned)
    \/ \E d \in Path[n] \cap Dirs : d \in Unreadable \/ d \notin Traversed(job) \cup {Root}

(* A deletion that ran to its end, with nobody interfering, has removed all  *)
(* it could: every surviving entry has a reason of its own, never the order  *)
(* in which the scanner, the workers and the rmdir of the main thread ran.   *)
NoLeftovers ==
    pc = "done" /\ ~abort /\ Undisturbed /\ ~job.dryRun =>
        \A n \in present : Excused(n)

(* The same with no excuse but the caller's own filter.                      *)
(* docs/architecture.md:17: "Trees thousands of levels deep are processed    *)
(* without recursion or memory bloat."  The scanner holds one open directory *)
(* per level, and the process may not open that many.                        *)
AnyDepthRemoved ==
    pc = "done" /\ ~abort /\ Undisturbed /\ ~job.dryRun => present \cap Allowed(job) = {}

(* delete_dir_entry compares device and inode of the target with those run() *)
(* inspected: a target replaced before that comparison is never removed.     *)
(* Between the comparison and the rmdir, forced or not, nothing protects it. *)
ReplacedRootKept ==
    [](~sameRoot /\ Root \notin removed /\ pc \notin {"start", "rmdir", "rmdir_retry"}
           => [](Root \notin removed))

Promise == INSTANCE TreeRemoval WITH
    tree <- present, aborted <- abort, done <- (pc = "done"),
    grace <- {a \in Actors : late[a] = 0}

(* The Python engine keeps the promise of TreeRemoval: it removes only what  *)
(* the options and the filter allow (nothing in a dry run), and after an     *)
(* abort each thread removes at most the one entry it had begun with.        *)
KeepsPromise == Promise!Spec

(* run() returns, aborted or not, whatever the other processes do. *)
Terminates == <>(pc = "done")
=============================================================================
