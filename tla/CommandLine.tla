----------------------------- MODULE CommandLine -----------------------------
(* cli.py from the options to the exit code, and the calls of api.py that    *)
(* delete: which targets are inspected, confirmed and given to FastDeleter,  *)
(* one after the other, and what a signal does meanwhile.  An engine is here *)
(* a loop over the items of one target; Deleter and CEngine have its         *)
(* threads, its failures and other processes.                                *)
EXTENDS Selection, Presets, Analyzer

CONSTANT Commands   \* the options to consider

(* The options; kind is "delete" for the main command, "many" for            *)
(* delete_many, "clean" or "du".  unattended: one of --yes, --quiet, --json, *)
(* --ndjson; plain: neither --shred nor --verbose, so that the compiled      *)
(* engine can be used.  signals bounds the number of SIGINT and SIGTERM that *)
(* may arrive.                                                               *)
Options ==
    [kind : {"delete", "many", "clean", "du"}, targets : Seq(Paths),
     filter : {c.filter : c \in Commands}, ignoreExists : BOOLEAN, workers : Int,
     dryRun : BOOLEAN, unattended : BOOLEAN, allowRoot : BOOLEAN, allowHome : BOOLEAN,
     trash : BOOLEAN, plain : BOOLEAN, preset : STRING, top : Int, maxDepth : Nat \cup {None},
     signals : Nat]

(* clean and du have one path, if need be the current directory. *)
ASSUME CommandAssumption ==
    /\ Commands \subseteq Options
    /\ \A c \in Commands : IsFilter(c.filter) /\ (c.kind \in {"clean", "du"} => c.targets # <<>>)

VARIABLES
    command,   \* the options of this call
    pc,        \* where the main thread is
    code,      \* exit code: "ok" 0, "failed" 1, "refused" 2, "interrupted" 130,
               \* "raised" an exception
    waiting,   \* targets not inspected yet
    queue,     \* targets to delete: a sequence of sets, each in any order
    target,    \* the target being deleted
    chosen,    \* the items of it still to come
    baseDev,   \* DeletionFilter.base_dev
    present,   \* the entries that exist
    stats,     \* what all deletions have counted, and the targets that failed
    arrivals,  \* signals still to come
    pending,   \* signals that have come and whose handler has not begun
    frames,    \* the handlers that run, each interrupting the one before
    held,      \* the lock inside abort_event is taken
    event,     \* abort_event
    removed,   \* history: what was removed, for which target
    replies    \* history: the prompts that were answered with consent

main     == <<command, pc, code, waiting, queue, target, chosen, baseDev, present, stats>>
signals  == <<arrivals, pending, frames, held, event>>
history  == <<removed, replies>>
vars     == <<main, signals, history, duVars>>

(* The counters of DeletionStats but for bytes, links and what was skipped.  *)
NoStats == [files |-> 0, dirs |-> 0, failed |-> 0]

Init ==
    /\ command \in Commands
    /\ pc = "start" /\ code = "none"
    /\ waiting = command.targets /\ queue = <<>>
    /\ target = None /\ chosen = {} /\ baseDev = None
    /\ present = Nodes
    /\ stats = NoStats
    /\ arrivals = command.signals /\ pending = 0
    /\ frames = <<>> /\ held = FALSE /\ event = FALSE
    /\ removed = {} /\ replies = {}
    /\ DuInit

Kind(k) == command.kind = k
First   == Head(waiting)
Filter  == CASE Kind("delete") -> BuildFilter(command.filter, command.ignoreExists)
             [] Kind("many")   -> BuildFilter(command.filter, TRUE)
             [] OTHER          -> NoFilter

Exit(c)     == pc' = "exit" /\ code' = c
Count(s)    == stats' = [stats EXCEPT ![s] = @ + 1]
KeepAll     == UNCHANGED <<command, signals, history, duVars>>
Untouched   == UNCHANGED <<present, removed>>

-----------------------------------------------------------------------------
(* main and the other entry points, up to the first deletion.                *)

StartDelete ==
    /\ pc = "start" /\ command.kind \in {"delete", "many"}
    /\ IF Kind("delete") /\ (waiting = <<>> \/ Refused(command.filter, command.workers))
       THEN Exit(IF waiting = <<>> THEN "failed" ELSE "refused")
       ELSE pc' = "inspect" /\ UNCHANGED code
    /\ UNCHANGED <<waiting, queue, target, chosen, baseDev, present, stats>> /\ KeepAll

Stage(targets) == IF targets = {} THEN <<>> ELSE <<targets>>

(* run_preset_clean looks for its targets before it deletes the first.       *)
StartClean ==
    /\ pc = "start" /\ Kind("clean")
    /\ LET preset == GetPreset(command.preset)
           root   == Object[RealPath[First]]
       IN  IF preset = None THEN Exit("refused") /\ UNCHANGED queue
           ELSE /\ queue' = IF root = None THEN <<>>
                            ELSE Stage(FindPresetTargets(root, preset)[1])
                                    \o Stage(FindPresetTargets(root, preset)[2])
                /\ pc' = "execute" /\ UNCHANGED code
    /\ UNCHANGED <<waiting, target, chosen, baseDev, present, stats>> /\ KeepAll

StartDu ==
    /\ pc = "start" /\ Kind("du")
    /\ IF Object[RealPath[First]] = None
       THEN Exit("failed") /\ UNCHANGED duVars
       ELSE Analyze(Object[First]) /\ pc' = "visit" /\ UNCHANGED code
    /\ UNCHANGED <<command, waiting, queue, target, chosen, baseDev, present, stats, signals, history>>

Visit ==
    /\ pc = "visit"
    /\ \/ Pop /\ UNCHANGED <<pc, code>>
       \/ \E n \in unread : Look(n, command.top, command.maxDepth) /\ UNCHANGED <<pc, code>>
       \/ /\ command.top < 1
          /\ unread \ (Links \cup Dirs) # {}
          /\ Exit("raised") /\ UNCHANGED duVars
       \/ unread = {} /\ stack = <<>> /\ Exit("ok") /\ UNCHANGED duVars
    /\ UNCHANGED <<command, waiting, queue, target, chosen, baseDev, present, stats, signals, history>>

-----------------------------------------------------------------------------
(* Phase 1: every target is inspected, judged and confirmed.  delete_many    *)
(* deletes each target before it looks at the next, and asks nothing.        *)

Reached(p) == Object[p] \in present
Allowed(p) == ValidateSafety(p, command.allowRoot, command.allowHome)
Asks       == Kind("delete") /\ ~command.unattended /\ ~command.dryRun

Accept ==
    /\ queue' = Append(queue, {Object[First]})
    /\ waiting' = Tail(waiting)
    /\ pc' = IF Kind("many") THEN "execute" ELSE "inspect"

Inspect ==
    /\ pc = "inspect" /\ waiting # <<>>
    /\ Reached(First) /\ Allowed(First)
    /\ IF Asks THEN pc' = "prompt" /\ UNCHANGED <<queue, waiting>> ELSE Accept
    /\ UNCHANGED <<code, target, chosen, baseDev, present, stats>> /\ KeepAll

InspectUnsafe ==
    /\ pc = "inspect" /\ waiting # <<>>
    /\ Reached(First) /\ ~Allowed(First)
    /\ Exit(IF Kind("many") THEN "raised" ELSE "refused")
    /\ UNCHANGED <<waiting, queue, target, chosen, baseDev, present, stats>> /\ KeepAll

(* Mutant: a target that does not exist is queued all the same. *)
InspectMissingQueued ==
    /\ pc = "inspect" /\ waiting # <<>>
    /\ ~Reached(First)
    /\ Count("failed") /\ Accept
    /\ UNCHANGED <<code, target, chosen, baseDev, present>> /\ KeepAll

InspectMissing ==
    /\ pc = "inspect" /\ waiting # <<>>
    /\ ~Reached(First)
    /\ IF Kind("many")
       THEN Exit("raised") /\ UNCHANGED <<waiting, stats>>
       ELSE waiting' = Tail(waiting) /\ Count("failed") /\ UNCHANGED <<pc, code>>
    /\ UNCHANGED <<queue, target, chosen, baseDev, present>> /\ KeepAll

(* A directory is confirmed by its path and, if it is protected, by DELETE. *)
Twice == Object[First] \in Dirs /\ Dangerous(First) /\ (command.allowRoot \/ command.allowHome)

Consent ==
    /\ pc \in {"prompt", "secondary"}
    /\ replies' = replies \cup {<<First, pc>>}
    /\ IF pc = "prompt" /\ Twice
       THEN pc' = "secondary" /\ UNCHANGED <<queue, waiting>> ELSE Accept
    /\ UNCHANGED <<command, code, target, chosen, baseDev, present, stats, signals, removed, duVars>>

(* Mutant: without consent the target is left out, not the whole command. *)
DeclineSkip ==
    /\ pc \in {"prompt", "secondary"}
    /\ waiting' = Tail(waiting) /\ pc' = "inspect"
    /\ UNCHANGED <<code, queue, target, chosen, baseDev, present, stats>> /\ KeepAll

(* Any other answer, or the end of the input. *)
Decline ==
    /\ pc \in {"prompt", "secondary"}
    /\ Exit("refused")
    /\ UNCHANGED <<waiting, queue, target, chosen, baseDev, present, stats>> /\ KeepAll

(* Without a handler a signal raises KeyboardInterrupt; inside the compiled  *)
(* engine it does so only when the call returns.                             *)
Interrupt ==
    /\ arrivals > 0
    /\ arrivals' = arrivals - 1
    /\ \/ Kind("delete") /\ pc \in {"inspect", "prompt", "secondary"}
       \/ command.kind \in {"clean", "du"} /\ pc \in {"execute", "scan", "visit"}
    /\ Exit("interrupted")
    /\ UNCHANGED <<command, waiting, queue, target, chosen, baseDev, present, stats,
                   pending, frames, held, event, history, duVars>>

Confirmed ==
    /\ pc = "inspect" /\ waiting = <<>>
    /\ pc' = "execute"
    /\ UNCHANGED <<code, waiting, queue, target, chosen, baseDev, present, stats>> /\ KeepAll

-----------------------------------------------------------------------------
(* Phase 2: one FastDeleter after the other.                                 *)

(* The main thread runs while no handler does. *)
Running == frames = <<>>

Next1(t) ==
    /\ pc = "execute" /\ Running /\ ~event
    /\ queue # <<>> /\ t \in Head(queue)
    /\ queue' = IF Head(queue) = {t} THEN Tail(queue) ELSE [queue EXCEPT ![1] = @ \ {t}]
    /\ target' = t

TypeCounter(n) == IF n \in Dirs THEN "dirs" ELSE "files"

(* --trash moves the target as a whole; the filter is not asked. *)
TrashTarget(t) ==
    /\ Next1(t) /\ command.trash
    /\ CASE command.dryRun -> Count("files") /\ Untouched
         [] ~command.dryRun /\ t \in present \ Stuck ->
                /\ Count(TypeCounter(t))
                /\ present' = present \ Within(t)
                /\ removed' = removed \cup {<<n, t>> : n \in Within(t) \cap present}
         [] OTHER -> Count("failed") /\ Untouched
    /\ UNCHANGED <<command, pc, code, waiting, chosen, baseDev, signals, replies, duVars>>

(* run() inspects the target again; an earlier one may have taken it along.  *)
TargetGone(t) ==
    /\ Next1(t) /\ ~command.trash
    /\ t \notin present
    /\ Count("failed")
    /\ UNCHANGED <<pc, code, waiting, chosen, baseDev, present>> /\ KeepAll

(* A target that is no directory is deleted without asking the filter. *)
SingleTarget(t) ==
    /\ Next1(t) /\ ~command.trash
    /\ t \in present \ Dirs
    /\ pc' = "scan" /\ chosen' = {t}
    /\ UNCHANGED <<code, waiting, baseDev, present, stats>> /\ KeepAll

(* The filter is shared: the first target it meets gives the device. *)
BaseDev(t) == IF Filter.oneFileSystem /\ baseDev = None THEN Entry[t].dev ELSE baseDev

DirectoryTarget(t) ==
    /\ Next1(t) /\ ~command.trash
    /\ t \in present \cap Dirs
    /\ IF command.plain /\ ~HasFilters(Filter)
       THEN /\ pc' = "call"
            /\ chosen' = Items(t, NoFilter, None) \cap present
            /\ UNCHANGED baseDev
       ELSE /\ pc' = "scan"
            /\ baseDev' = BaseDev(t)
            /\ chosen' = Items(t, Filter, baseDev') \cap present
    /\ UNCHANGED <<code, waiting, present, stats>> /\ KeepAll

(* What came before n in the walk is through. *)
Due(n) == n \in chosen /\ Below(n) \cap chosen = {}

Dispose(n) ==
    /\ present' = present \ {n}
    /\ removed' = removed \cup {<<n, target>>}
    /\ Count(TypeCounter(n))

(* Mutant: a dry run spares the files only. *)
SimulatedFiles(n) == command.dryRun /\ n \notin Dirs

Simulated(n) == command.dryRun

(* delete_file_entry, delete_dir_entry or the report of a SCAN_ERROR. *)
Process(n) ==
    /\ pc \in {"scan", "call"} /\ Running /\ ~event
    /\ Due(n)
    /\ chosen' = chosen \ {n}
    /\ CASE n \in Unreadable             -> Count("failed") /\ Untouched
         [] n \notin Unreadable /\ Simulated(n) -> Count(TypeCounter(n)) /\ Untouched
         [] OTHER ->
                IF Children(n) \cap present # {} THEN UNCHANGED stats /\ Untouched
                ELSE IF n \in Stuck              THEN Count("failed") /\ Untouched
                ELSE Dispose(n)
    /\ UNCHANGED <<command, pc, code, waiting, queue, target, baseDev, signals, replies, duVars>>

(* Mutant: after an abort the run waits for the items nobody will process. *)
RunReturnsWaits ==
    /\ pc \in {"scan", "call"} /\ Running
    /\ chosen = {} \/ event
    /\ pc' = (IF event THEN pc ELSE "execute") /\ chosen' = {}
    /\ UNCHANGED <<code, waiting, queue, target, baseDev, present, stats>> /\ KeepAll

RunReturns ==
    /\ pc \in {"scan", "call"} /\ Running
    /\ chosen = {} \/ event
    /\ pc' = "execute" /\ chosen' = {}
    /\ UNCHANGED <<code, waiting, queue, target, baseDev, present, stats>> /\ KeepAll

NextOfMany ==
    /\ pc = "execute" /\ Kind("many")
    /\ queue = <<>> /\ waiting # <<>>
    /\ pc' = "inspect"
    /\ UNCHANGED <<code, waiting, queue, target, chosen, baseDev, present, stats>> /\ KeepAll

(* Mutant: only the targets that phase 1 missed make the command fail. *)
ExitCodeMissingOnly ==
    IF event THEN "interrupted"
    ELSE IF \E i \in DOMAIN command.targets : Object[command.targets[i]] = None THEN "failed" ELSE "ok"

(* Mutant: an abort that comes after the last failure goes unnoticed. *)
ExitCodeFailuresFirst == IF stats.failed > 0 THEN "failed" ELSE IF event THEN "interrupted" ELSE "ok"

ExitCode == IF event THEN "interrupted" ELSE IF stats.failed > 0 THEN "failed" ELSE "ok"

Finish ==
    /\ pc = "execute" /\ Running
    /\ event \/ (queue = <<>> /\ (Kind("many") => waiting = <<>>))
    /\ Exit(ExitCode)
    /\ UNCHANGED <<waiting, queue, target, chosen, baseDev, present, stats>> /\ KeepAll

-----------------------------------------------------------------------------
(* Signals in phase 2.  Python runs the handler on the main thread, between  *)
(* two of its instructions, so never inside the call of the compiled engine; *)
(* one handler can interrupt another.                                        *)

Handling == Kind("delete") /\ pc \in {"execute", "scan", "call"}

Arrive ==
    /\ Handling /\ arrivals > 0
    /\ arrivals' = arrivals - 1 /\ pending' = pending + 1
    /\ UNCHANGED <<main, frames, held, event, history, duVars>>

Deliver ==
    /\ Handling /\ pc # "call" /\ pending > 0
    /\ pending' = pending - 1
    /\ frames' = Append(frames, "enter")
    /\ UNCHANGED <<main, arrivals, held, event, history, duVars>>

Frame      == frames[Len(frames)]
Step(f)    == frames' = [frames EXCEPT ![Len(frames)] = f]
Return     == frames' = SubSeq(frames, 1, Len(frames) - 1)

(* Event.set takes its lock, which is not reentrant, ... *)
EnterSet ==
    /\ frames # <<>> /\ Frame \in {"enter", "enter again"}
    /\ ~held /\ held' = TRUE
    /\ Step(IF Frame = "enter" THEN "set" ELSE "set again")
    /\ UNCHANGED <<main, arrivals, pending, event, history, duVars>>

(* ... sets the event and lets it go; the handler does this once itself and  *)
(* once through request_abort, when a deletion has begun.                    *)
LeaveSet ==
    /\ frames # <<>> /\ Frame \in {"set", "set again"}
    /\ event' = TRUE /\ held' = FALSE
    /\ IF Frame = "set" /\ target # None THEN Step("enter again") ELSE Return
    /\ UNCHANGED <<main, arrivals, pending, history, duVars>>

-----------------------------------------------------------------------------
(* A handler waits for the lock that the handler it interrupts holds. *)
Blocked == frames # <<>> /\ Frame \in {"enter", "enter again"} /\ held

Over     == pc = "exit"
Finished == (Over \/ Blocked) /\ UNCHANGED vars

Program ==
    \/ StartDelete \/ StartClean \/ StartDu \/ Visit
    \/ Inspect \/ InspectUnsafe \/ InspectMissing \/ Confirmed
    \/ \E t \in Nodes : TrashTarget(t) \/ TargetGone(t) \/ SingleTarget(t) \/ DirectoryTarget(t)
    \/ \E n \in Nodes : Process(n)
    \/ RunReturns \/ NextOfMany \/ Finish

User    == Consent \/ Decline
Handler == Deliver \/ EnterSet \/ LeaveSet

Next == Program \/ User \/ Handler \/ Interrupt \/ Arrive \/ Finished

Spec == Init /\ [][Next]_vars

(* The main thread runs, and so do the handlers; users and signals may or    *)
(* may not come.                                                             *)
FairSpec == Spec /\ WF_vars(Program) /\ WF_vars(Handler)

-----------------------------------------------------------------------------
(* Properties.                                                               *)

Deletes == command.kind \in {"delete", "many"}
Named   == {command.targets[i] : i \in DOMAIN command.targets}
Targets == {Object[p] : p \in Named} \ {None}
Devices == {Entry[n].dev : n \in Nodes}

TypeOK ==
    /\ pc \in {"start", "inspect", "prompt", "secondary", "execute", "scan", "call", "visit", "exit"}
    /\ code \in {"none", "ok", "failed", "refused", "interrupted", "raised"}
    /\ waiting \in Seq(Paths) /\ queue \in Seq(SUBSET Nodes)
    /\ target \in Nodes \cup {None}
    /\ chosen \subseteq Nodes /\ present \subseteq Nodes
    /\ baseDev \in Devices \cup {None}
    /\ stats \in [DOMAIN NoStats -> Nat]
    /\ arrivals \in Nat /\ pending \in Nat /\ arrivals + pending <= command.signals
    /\ frames \in Seq({"enter", "set", "enter again", "set again"})
    /\ held \in BOOLEAN /\ event \in BOOLEAN
    /\ removed \subseteq Nodes \X Nodes
    /\ replies \subseteq Paths \X {"prompt", "secondary"}

(* Nothing is deleted before every target has been judged and, unless the    *)
(* options say otherwise, confirmed, a protected directory twice: cli.py,    *)
(* Phase 1.                                                                  *)
ConfirmedFirst ==
    Kind("delete") /\ removed # {} /\ ~command.unattended =>
        \A p \in Named : Object[p] # None =>
            /\ <<p, "prompt">> \in replies
            /\ Object[p] \in Dirs /\ Dangerous(p) => <<p, "secondary">> \in replies

(* The directories safety.py protects, whatever path leads to them. *)
ProtectedDirs == {Object[RealPath[p]] : p \in Critical \cup {RootPath}} \ {Object[Home]}

(* No protected directory, and nothing in one, is deleted without the option *)
(* that allows it, under whatever name it was given, unless the target is a  *)
(* place inside it or one that contains it: validate_safety.                 *)
ProtectedKept ==
    Deletes => \A r \in removed :
        /\ r[2] \in ProtectedDirs   => command.allowRoot
        /\ r[2] = Object[Home]      => command.allowRoot \/ command.allowHome

(* What an ignore file means, rule by rule: the pattern is laid out along    *)
(* some part of the path, one name for each set and any number for "**".     *)
LaidOut(parts, path) ==
    \E at \in [1 .. Len(parts) + 1 -> 1 .. Len(path) + 1] :
        /\ at[1] = 1 /\ at[Len(parts) + 1] = Len(path) + 1
        /\ \A k \in DOMAIN parts :
               \/ parts[k] = AnyDepth /\ at[k + 1] - at[k] >= IF k = Len(parts) THEN 1 ELSE 0
               \/ parts[k] # AnyDepth /\ at[k + 1] = at[k] + 1 /\ path[at[k]] \in parts[k]

Listed(lines, path, isDir) ==
    \E k \in Rules(lines) :
        LET Says(j) == /\ lines[j].dirOnly => isDir   \* gitignore.py:168
                       /\ \E a, b \in DOMAIN path : /\ a <= b
                                                    /\ Anchored(lines[j]) => a = 1
                                                    /\ LaidOut(lines[j].parts, SubSeq(path, a, b))
        IN  /\ Says(k) /\ ~lines[k].negated
            /\ \A j \in Rules(lines) : j > k => ~Says(j)

(* The letter --type has for an entry, by its documentation.                 *)
Special(e) == e.kind \notin {"dir", "file", "link", "dirlink"}
Letter(e)  == CASE e.kind = "dir"               -> "d"
                [] e.kind = "file"              -> "f"
                [] e.kind \in {"link", "dirlink"} -> "l"
                [] e.kind = "socket"            -> "s"
                [] e.kind = "fifo"              -> "p"
                [] OTHER                        -> "none"

(* The entries of the target t that --type f.types promises to leave, those  *)
(* that --empty-files-only does ("Only delete 0-byte empty regular files"),  *)
(* and those that each of the other options does; sizes are those of regular *)
(* files.                                                                    *)
OfOtherType(f, t) == {n \in Within(t) : f.types # None /\ Letter(Entry[n]) \notin f.types}

NotEmptyFile(f, t) ==
    {n \in Within(t) : f.emptyFilesOnly /\ (Entry[n].kind # "file" \/ Entry[n].size > 0)}

SparedBy(f, t) ==
    LET In    == Within(t)
        Files == In \ Dirs
        Regular == {n \in Files : Entry[n].kind = "file"}
        Path(n) == IF n = t THEN <<"">> ELSE Rel(t, n)
    IN  UNION {
          {n \in In : \E a \in Between(t, n) \cup {n} : Excluded(f, Entry[a], Rel(t, a))},
          {n \in In : f.maxDepth # None /\ Len(Rel(t, n)) > f.maxDepth},
          {n \in In : f.minDepth # None /\ Len(Rel(t, n)) < f.minDepth},
          IF f.filesOnly THEN In \cap Dirs ELSE {},
          IF f.dirsOnly \/ f.emptyDirsOnly THEN Files ELSE {},
          {n \in Files : ~Included(f, Entry[n], Rel(t, n))},
          {n \in Regular : f.minSize # None /\ Entry[n].size < f.minSize},
          {n \in Regular : f.maxSize # None /\ Entry[n].size > f.maxSize},
          {n \in Files : \E c \in Clocks : f.older[c] # None /\ Entry[n].age[c] < f.older[c]},
          {n \in Files : \E c \in Clocks : f.newer[c] # None /\ Entry[n].age[c] > f.newer[c]},
          {n \in Files : NeedsStat(f) /\ ~Entry[n].measured},
          {n \in In : f.ignore # None /\ ~Listed(f.ignore, Path(n), n \in Dirs)} }

(* Where the code does not keep to that: it takes every special file for a   *)
(* socket, so that --type s deletes fifos and devices and --type p nothing,  *)
(* and asks only regular files whether they are empty.                       *)
AsSocket(f, t)   == {n \in Within(t) : Special(Entry[n]) /\ f.types # None /\ "s" \in f.types}
NoSocket(f, t)   == {n \in Within(t) : Special(Entry[n]) /\ f.types # None /\ "s" \notin f.types}
NoRegularFile(t) == {n \in Within(t) : Entry[n].kind # "file"}

(* Only what the options select is deleted: nothing outside the target, and  *)
(* nothing an option promises to leave, but for the special files that       *)
(* --type s takes and what --empty-files-only takes that is no regular file. *)
(* The options say nothing about a target that is no directory or is moved   *)
(* to the trash.  filters.py: matches_file, matches_dir_removal.             *)
OnlySelected ==
    Deletes => \A t \in {r[2] : r \in removed} :
        LET gone == {r[1] : r \in {q \in removed : q[2] = t}}
        IN  /\ t \in Targets /\ gone \subseteq Within(t)
            /\ t \in Dirs /\ ~command.trash =>
                   /\ gone \cap SparedBy(Filter, t) = {}
                   /\ gone \cap OfOtherType(Filter, t) \subseteq AsSocket(Filter, t)
                   /\ gone \cap NotEmptyFile(Filter, t) \subseteq NoRegularFile(t)

(* What is below a directory the scan of t finds to be on another device; a  *)
(* directory it cannot stat is entered.                                      *)
Foreign(t) ==
    LET crossed == {d \in Dirs : Entry[d].measured /\ Entry[d].dev # Entry[t].dev}
    IN  {n \in Below(t) : Between(t, n) \cap crossed # {}}

(* With --one-file-system nothing in a directory of another device is        *)
(* deleted; as the code has it, only for the first target.                   *)
OneFileSystem ==
    Deletes /\ Filter.oneFileSystem /\ ~command.trash =>
        \A r \in removed : r[2] = Object[command.targets[1]] => r[1] \notin Foreign(r[2])

(* What the options leave to delete in t, with the exceptions named above.   *)
Skipped(f, t) ==
    UNION {SparedBy(f, t), OfOtherType(f, t) \ AsSocket(f, t), NoSocket(f, t),
           NotEmptyFile(f, t) \ NoRegularFile(t)}

Selected(t) ==
    IF t \in Dirs /\ ~command.trash
    THEN Within(t) \ (Skipped(Filter, t) \cup (IF Filter.oneFileSystem THEN Foreign(t) ELSE {}))
    ELSE Within(t)

Exempt == Filter.oneFileSystem /\ Len(command.targets) > 1

(* Exit code 0 means that all that was selected is gone, but for directories *)
(* with something in them that was not selected and so had to stay: no       *)
(* failure goes unnoticed.                                                   *)
SelectedGone ==
    Deletes /\ code = "ok" /\ ~command.dryRun /\ ~Exempt =>
        \A t \in Targets : \A n \in Selected(t) \cap present :
            n \in Dirs /\ ~(Within(n) \subseteq Selected(t))

Overlapping == \E i, j \in DOMAIN command.targets :
                   i # j /\ Object[command.targets[j]] # None
                         /\ Object[command.targets[i]] \in Up[Object[command.targets[j]]]

(* What lies below no directory that cannot be read. *)
Visible(t) == {n \in Within(t) : (Up[n] \ {n}) \cap Within(t) \cap Unreadable = {}}

(* A dry run changes nothing and names exactly the files a real run deletes  *)
(* or fails to, each once; of directories it names at least those (more: the *)
(* ones that will not be empty, deleter.py:374).                             *)
DryRunTruth ==
    Deletes /\ code \in {"ok", "failed"} /\ ~command.trash /\ ~Overlapping /\ ~Exempt =>
        LET visible == UNION {Selected(t) \cap Visible(t) : t \in Targets}
            files   == visible \ Dirs
            emptied == {d \in (visible \cap Dirs) \ Unreadable : Within(d) \subseteq visible \ Unreadable}
        IN  IF command.dryRun
            THEN removed = {} /\ stats.files = Cardinality(files)
                              /\ stats.dirs >= Cardinality(emptied)
            ELSE stats.files = Cardinality(files \ Stuck)

(* The exit code tells what happened: 1 needs something that could not be    *)
(* deleted or was not there, 2 deletes nothing, 130 follows a signal and     *)
(* every signal that was handled leads to it.                                *)
ExitTruthful ==
    Over /\ Deletes =>
        /\ code = "ok" => Named \cap {p \in Paths : Object[p] = None} = {}
        /\ code = "failed" =>
               \/ None \in {Object[p] : p \in Named} \/ Named = {}
               \/ (UNION {Within(t) : t \in Targets}) \cap (Stuck \cup Unreadable) # {}
               \/ Overlapping
        /\ code = "refused"     => removed = {}
        /\ code = "interrupted" => arrivals < command.signals
        /\ event                => code = "interrupted"

(* What a preset asks for by name, and by the end of a path, as              *)
(* docs/presets.md has it for .yarn/cache and .m2/repository, each with what *)
(* is in it.                                                                 *)
CleanRoot   == Object[RealPath[command.targets[1]]]
CleanPreset == GetPreset(command.preset)
EndsIn(n, path) == \E k \in DOMAIN Rel(CleanRoot, n) :
                       SubSeq(Rel(CleanRoot, n), k, Len(Rel(CleanRoot, n))) = path

ByName == {n \in Below(CleanRoot) :
              \/ MatchedFile(CleanPreset, n)
              \/ \E a \in Between(CleanRoot, n) : MatchedDir(CleanPreset, a)}
ByPath == {n \in Below(CleanRoot) :
              \E a \in Between(CleanRoot, n), path \in CleanPreset.nested :
                  DirLike(a) /\ EndsIn(a, path)}

Wanted == IF CleanPreset = None \/ CleanRoot = None THEN {} ELSE ByName \cup ByPath

(* What only a path asks for: find_preset_targets never finds it. *)
Unfound == Wanted \ ByName

(* clean deletes what the preset asks for and nothing else; all of it but    *)
(* what it asks for only by a path, unless something cannot be deleted, and  *)
(* then the exit code tells: find_preset_targets, run_preset_clean.          *)
CleanExact ==
    Kind("clean") =>
        /\ {r[1] : r \in removed} \subseteq IF command.dryRun THEN {} ELSE Wanted
        /\ code = "ok" /\ ~command.dryRun =>
               (Wanted \ Unfound) \cap Visible(CleanRoot) \cap present = {}
        /\ code = "failed" => (Wanted \ Unfound) \cap (Stuck \cup Unreadable) # {}

(* du counts each file, link and directory it can reach once, each file in   *)
(* the subdirectory it is in, and lists no file when a larger one is left    *)
(* out (with --top below 1 the first file raises): analyze_directory.        *)
DuExact ==
    Kind("du") /\ code = "ok" /\ Object[First] \in Dirs =>
        LET root  == Object[First]
            near  == {n \in Within(root) : AtMost(Len(Rel(root, n)), command.maxDepth)}
            dirs  == near \cap Dirs \cap Visible(root)
            seen  == {n \in Below(root) : Parent[n] \in dirs \ Unreadable}
            files == seen \ (Dirs \cup Links)
            Bytes(S) == MapThenSumSet(SizeOf, S)
        IN  /\ summary.dirs = Cardinality(dirs) /\ summary.links = Cardinality(seen \cap Links)
            /\ summary.files = Cardinality(files) /\ summary.bytes = Bytes(files)
            /\ \A d \in Subdirs(root) : summary.share[d] = Bytes(files \cap Within(d))
            /\ summary.largest \subseteq files
            /\ files # {} => Cardinality(summary.largest) = Min({command.top, Cardinality(files)})
            /\ \A m \in summary.largest, n \in files \ summary.largest : SizeOf(m) >= SizeOf(n)

(* Once the deletions have begun the command ends, whether signals come or   *)
(* not, and the only way not to end is a signal that interrupts the handler  *)
(* of another inside Event.set: the loop of main, signal_handler.            *)
Terminates == pc \in {"execute", "scan", "call", "visit"} ~> Over \/ Blocked

(* "Do not cross filesystem mount boundaries during traversal", docs/cli.md: *)
(* of no target is anything in a directory of another device deleted.        *)
BoundariesKept ==
    Deletes /\ Filter.oneFileSystem /\ ~command.trash =>
        \A r \in removed : r[1] \notin Foreign(r[2])
===============================================================================
