------------------------------ MODULE Duplicates ------------------------------
(* duplicates.py: find_duplicates narrows the files below a directory down   *)
(* to groups by size, sample and whole content; clean_duplicates later       *)
(* removes or links all but one path of each group, trusting the report.     *)
(* Steps end at system calls, where other processes change the files, calls  *)
(* fail and the process may die.  Nothing but the files outlives a call.     *)
EXTENDS Integers, Sequences, FiniteSets

CONSTANTS
    Paths,       \* the paths below the directory, in the order sort() gives
    Ids,         \* inodes
    Data,        \* contents; equal hashes mean equal contents
    Size,        \* the size of each content
    Sample,      \* its first and last 4 KB
    Torn,        \* the content of a copy that was not completed
    LastTime,    \* the mtime of whatever is written from now on
    Wanted,      \* sizes from min_size to max_size
    Unreadable,  \* paths that open() refuses
    Starts,      \* what the paths may hold at first
    Jobs,        \* the combinations of keep_strategy and action to consider
    Meddling,    \* how many times other processes interfere
    Mishaps,     \* how many calls fail and processes die
    None

Files == [id : Ids, data : Data, time : 0 .. LastTime]

ASSUME DuplicatesAssumption ==
    /\ Paths \subseteq Nat /\ IsFiniteSet(Paths)
    /\ Torn \in Data
    /\ Size \in [Data -> Nat]
    /\ DOMAIN Sample = Data
    /\ {LastTime, Meddling, Mishaps} \subseteq Nat
    /\ Unreadable \subseteq Paths
    /\ Starts \subseteq [Paths -> Files \cup {None}]
    /\ Jobs \subseteq [keep : {"first", "newest", "oldest"},
                       action : {"delete", "hardlink", "dry-run"}]
    /\ None \notin Files \cup Data \cup Nat

VARIABLES
    at,        \* the file each path leads to; hard links lead to the same one
    job,       \* keep_strategy and action
    phase,     \* where the process is
    todo,      \* paths this stage of the search has not come to
    key,       \* what the search knows of each path
    report,    \* DuplicateReport.groups
    left,      \* groups clean_duplicates has not come to
    primary,   \* the path that is kept
    order,     \* duplicates_to_process that are left, the current one first
    stats,     \* DeletionStats
    meddling,  \* interference left in the budget
    mishaps,   \* failures left in the budget
    was        \* history: at when this search began

searchVars == <<todo, key, report>>
cleanVars  == <<left, primary, order, stats>>
outside    == <<meddling, mishaps, was>>
vars == <<at, job, phase, searchVars, cleanVars, outside>>

NoKey   == [size |-> None, sample |-> None, whole |-> None]
NoStats == [found |-> 0, deleted |-> 0, failed |-> 0]

Init ==
    /\ at \in Starts
    /\ job \in Jobs
    /\ phase = "size" /\ todo = Paths
    /\ key = [p \in Paths |-> NoKey]
    /\ report = {} /\ left = {}
    /\ primary = None /\ order = <<>>
    /\ stats = NoStats
    /\ meddling = Meddling /\ mishaps = Mishaps
    /\ was = at

Mishap == mishaps > 0 /\ mishaps' = mishaps - 1 /\ UNCHANGED <<meddling, was>>

-----------------------------------------------------------------------------
(* find_duplicates: three stages, each on what the one before has left.      *)

(* The map of a stage is keyed by the size and what that stage has read. *)
SizeKey(d)      == [NoKey EXCEPT !.size = Size[d]]
SampleKey(k, d) == [k EXCEPT !.sample = Sample[d]]

(* Mutant: the full hash covers no more than the sample. *)
WholeKeyOfSample(k, d) == [k EXCEPT !.whole = CHOOSE c \in Data : Sample[c] = Sample[d]]

(* Mutant: the hash of the whole goes where the hash of the sample was. *)
WholeKeyMisplaced(k, d) == [k EXCEPT !.sample = d]

WholeKey(k, d) == [k EXCEPT !.sample = None, !.whole = d]

KeyAt(p) ==
    CASE phase = "size"   -> SizeKey(at[p].data)
      [] phase = "sample" -> SampleKey(key[p], at[p].data)
      [] phase = "whole"  -> WholeKey(key[p], at[p].data)

(* lstat works and the size is wanted, or the file can be opened and read.   *)
Usable(p) ==
    /\ at[p] # None
    /\ IF phase = "size" THEN Size[at[p].data] \in Wanted ELSE p \notin Unreadable

Examine(p) ==
    /\ phase \in {"size", "sample", "whole"}
    /\ p \in todo
    /\ key' = [key EXCEPT ![p] = IF Usable(p) THEN KeyAt(p) ELSE NoKey]
    /\ todo' = todo \ {p}
    /\ UNCHANGED <<at, job, phase, report, cleanVars, outside>>

(* Mutant: a path alone under its key stays a candidate. *)
AlikeAny == {p \in Paths : key[p] # NoKey}

Alike == {p \in Paths : key[p] # NoKey /\ \E q \in Paths \ {p} : key[q] = key[p]}

NextStage ==
    /\ phase \in {"size", "sample"}
    /\ todo = {}
    /\ phase' = IF phase = "size" THEN "sample" ELSE "whole"
    /\ todo' = Alike
    /\ key' = [p \in Paths |-> IF p \in Alike THEN key[p] ELSE NoKey]
    /\ UNCHANGED <<at, job, report, cleanVars, outside>>

Report ==
    /\ phase = "whole"
    /\ todo = {}
    /\ report' = {{q \in Paths : key[q] = key[p]} : p \in Alike}
    /\ left' = report'
    /\ phase' = "clean"
    /\ UNCHANGED <<at, job, todo, key, primary, order, stats, outside>>

-----------------------------------------------------------------------------
(* clean_duplicates.                                                         *)

(* Mutant: the newest come first by a reversal, of those of one time, too.   *)
BeforeReversed(p, q) ==
    CASE job.keep = "first"  -> p < q
      [] job.keep = "newest" -> at[p].time > at[q].time \/ (at[p].time = at[q].time /\ q < p)
      [] job.keep = "oldest" -> at[p].time < at[q].time \/ (at[p].time = at[q].time /\ p < q)

(* The order of the sort: by mtime, then by path. *)
Before(p, q) ==
    LET newer == at[p].time > at[q].time
        older == at[p].time < at[q].time
    IN  CASE job.keep = "first"  -> p < q
          [] job.keep = "newest" -> newer \/ (~older /\ p < q)
          [] job.keep = "oldest" -> older \/ (~newer /\ p < q)

Orders(g) == {s \in [1 .. Cardinality(g) -> g] :
                 \A i, j \in 1 .. Cardinality(g) : i < j => Before(s[i], s[j])}

(* The next group; getmtime of a path that is gone ends the whole call.      *)
Begin(g) ==
    /\ phase = "clean"
    /\ order = <<>>
    /\ g \in left
    /\ left' = left \ {g}
    /\ IF job.keep = "first" \/ \A p \in g : at[p] # None
       THEN /\ \E s \in Orders(g) : primary' = s[1] /\ order' = Tail(s)
            /\ UNCHANGED phase
       ELSE phase' = "stopped" /\ UNCHANGED <<primary, order>>
    /\ UNCHANGED <<at, job, searchVars, stats, outside>>

Dupe    == Head(order)
Put(f)  == at' = [at EXCEPT ![Dupe] = f]
Through == phase' = "clean" /\ order' = Tail(order)
Tally(counters) ==
    stats' = [c \in DOMAIN stats |-> stats[c] + (IF c \in counters THEN 1 ELSE 0)]

(* Mutant: what was done is not counted. *)
DeletedUncounted == Through /\ UNCHANGED stats

Deleted == Tally({"deleted"}) /\ Through
Failed  == Tally({"failed"}) /\ Through
Same    == UNCHANGED <<job, searchVars, left, primary>>
Calm    == UNCHANGED outside

Turn == phase = "clean" /\ order # <<>>

Simulate ==
    /\ Turn /\ job.action = "dry-run"
    /\ Tally({"found", "deleted"}) /\ Through
    /\ UNCHANGED at /\ Same /\ Calm

Skip ==
    /\ Turn /\ job.action # "dry-run"
    /\ at[Dupe] = None
    /\ Through
    /\ UNCHANGED <<at, stats>> /\ Same /\ Calm

Take ==
    /\ Turn /\ job.action # "dry-run"
    /\ at[Dupe] # None
    /\ Tally({"found"})
    /\ phase' = IF job.action = "delete" THEN "unlink" ELSE "compare"
    /\ UNCHANGED <<at, order>> /\ Same /\ Calm

(* Two paths that are one file already count as done. *)
Compare ==
    /\ phase = "compare"
    /\ IF None \in {at[Dupe], at[primary]}   THEN Failed
       ELSE IF at[Dupe].id = at[primary].id THEN Deleted
       ELSE phase' = "unlink" /\ UNCHANGED <<order, stats>>
    /\ UNCHANGED at /\ Same /\ Calm

Unlink ==
    /\ phase = "unlink"
    /\ at[Dupe] # None
    /\ Put(None)
    /\ IF job.action = "delete" THEN Deleted
       ELSE phase' = "link" /\ UNCHANGED <<order, stats>>
    /\ Same /\ Calm

UnlinkFails ==
    /\ phase = "unlink"
    /\ (at[Dupe] = None /\ Calm) \/ Mishap
    /\ Failed
    /\ UNCHANGED at /\ Same

Link ==
    /\ phase = "link"
    /\ at[primary] # None /\ at[Dupe] = None
    /\ Put(at[primary])
    /\ Deleted
    /\ Same /\ Calm

(* Mutant: a link that fails is reported without restoring a copy. *)
RestoreNothing == Failed

(* Mutant: the link is tried until it works. *)
RestoreRetry == UNCHANGED <<phase, order, stats>>

Restore == phase' = "copy" /\ UNCHANGED <<order, stats>>

LinkFails ==
    /\ phase = "link"
    /\ ((at[primary] = None \/ at[Dupe] # None) /\ Calm) \/ Mishap
    /\ Restore
    /\ UNCHANGED at /\ Same

NewIds == Ids \ {at[p].id : p \in {q \in Paths : at[q] # None}}

(* The inode copy2 writes: a new one, or that of a file that appeared there. *)
Target == IF at[Dupe] = None THEN NewIds ELSE {at[Dupe].id}

(* The copy restores the path; the error of the link is reported anyway.     *)
Copy ==
    /\ phase = "copy"
    /\ at[primary] # None
    /\ \E i \in Target : Put([at[primary] EXCEPT !.id = i])
    /\ Failed
    /\ Same /\ Calm

(* What a copy that fails leaves: what was there, if its file could not even *)
(* be opened, an incomplete file, or all of the content without its mtime.   *)
LeaveCopy ==
    \/ UNCHANGED at
    \/ \E i \in Target, d \in {Torn, at[primary].data} :
           Put([id |-> i, data |-> d, time |-> LastTime])

CopyFails ==
    /\ phase = "copy"
    /\ \/ at[primary] = None /\ UNCHANGED at /\ Calm
       \/ at[primary] # None /\ Mishap /\ LeaveCopy
    /\ Failed
    /\ Same

Finish ==
    /\ phase = "clean"
    /\ order = <<>> /\ left = {}
    /\ phase' = "done"
    /\ UNCHANGED <<at, job, searchVars, cleanVars, outside>>

Clean ==
    \/ \E g \in left : Begin(g)
    \/ Simulate \/ Skip \/ Take \/ Compare \/ Unlink \/ UnlinkFails
    \/ Link \/ LinkFails \/ Copy \/ CopyFails \/ Finish

-----------------------------------------------------------------------------
Over == phase \in {"done", "stopped"}

Crash ==
    /\ ~Over
    /\ Mishap
    /\ phase' = "stopped"
    /\ UNCHANGED <<at, job, searchVars, cleanVars>>

(* Another process removes, replaces or creates a file. *)
Meddle(p) ==
    /\ ~Over
    /\ meddling > 0
    /\ meddling' = meddling - 1
    /\ \/ at' = [at EXCEPT ![p] = None]
       \/ \E d \in Data, i \in NewIds :
              at' = [at EXCEPT ![p] = [id |-> i, data |-> d, time |-> LastTime]]
    /\ UNCHANGED <<job, phase, searchVars, cleanVars, mishaps, was>>

Finished == Over /\ UNCHANGED vars

Next ==
    \/ \E p \in Paths : Examine(p) \/ Meddle(p)
    \/ NextStage \/ Report \/ Clean
    \/ Crash \/ Finished

Spec == Init /\ [][Next]_vars

(* The process runs until it is through. *)
FairSpec == Spec /\ WF_vars((\E p \in Paths : Examine(p)) \/ NextStage \/ Report \/ Clean)

-----------------------------------------------------------------------------
(* Properties.                                                               *)

Samples == {Sample[d] : d \in Data}

(* Every variable holds what the code can put there. *)
TypeOK ==
    /\ at \in [Paths -> Files \cup {None}]
    /\ job \in Jobs
    /\ phase \in {"size", "sample", "whole", "clean", "compare", "unlink", "link", "copy",
                  "done", "stopped"}
    /\ todo \subseteq Paths
    /\ key \in [Paths -> [size : Nat \cup {None}, sample : Samples \cup {None},
                           whole : Data \cup {None}]]
    /\ report \subseteq SUBSET Paths /\ left \subseteq report
    /\ primary \in Paths \cup {None}
    /\ order \in Seq(Paths)
    /\ stats \in [{"found", "deleted", "failed"} -> Nat]
    /\ meddling \in 0 .. Meddling /\ mishaps \in 0 .. Mishaps

Undisturbed == meddling = Meddling
DataAt(p)   == IF at[p] = None THEN None ELSE at[p].data
WasAt(p)    == IF was[p] = None THEN None ELSE was[p].data
Hurt        == {p \in Paths : DataAt(p) # WasAt(p)}

(* The three stages find exactly the groups that comparing every pair of     *)
(* contents would find: no file is lost to a stage that compared less, and   *)
(* none is grouped with a file it merely resembles.                          *)
ReportExact ==
    Undisturbed /\ phase = "clean" /\ left = report /\ order = <<>> =>
        LET eligible == {p \in Paths \ Unreadable : at[p] # None /\ Size[at[p].data] \in Wanted}
        IN  report = {g \in SUBSET eligible :
                         /\ Cardinality(g) > 1
                         /\ \A p \in g, q \in eligible : q \in g <=> DataAt(p) = DataAt(q)}

(* While nobody else writes, every content that was below the directory      *)
(* stays at some path: through the unlink before each link, a link or a copy *)
(* that fails, and the death of the process at any step.                     *)
NoContentLost ==
    Undisturbed => \A p \in Paths :
        was[p] # None => \E q \in Paths : DataAt(q) = was[p].data

(* keep_strategy decides which path survives: whenever a path is removed, a  *)
(* file of the same content stays that the strategy puts before it, and of   *)
(* paths it does not tell apart the first one in the report stays.           *)
KeepsBetter ==
    [][\A p \in Paths : Undisturbed' /\ at[p] # None /\ at'[p] = None =>
           \E q \in Paths \ {p} :
               /\ at'[q] # None
               /\ at'[q].data = at[p].data
               /\ \/ job.keep = "newest" /\ at'[q].time > at[p].time
                  \/ job.keep = "oldest" /\ at'[q].time < at[p].time
                  \/ q < p /\ (job.keep = "first" \/ at'[q].time = at[p].time)]_vars

(* Linking, and a dry run, leave every path with its content, also when the  *)
(* link fails.  A path is left without its content, as an incomplete file or *)
(* none at all, only where the copy failed as well, two failures for each    *)
(* such path, and each of them is counted as failed.                         *)
NamesKept ==
    Undisturbed /\ phase = "done" /\ job.action # "delete" =>
        /\ \A p \in Hurt : DataAt(p) \in {None, Torn}
        /\ Cardinality(Hurt) <= stats.failed
        /\ 2 * Cardinality(Hurt) <= Mishaps - mishaps

(* Every redundant path of the report ends in files_deleted or in failed,    *)
(* and a deletion has removed as many files as files_deleted says.           *)
StatsExact ==
    Undisturbed /\ phase = "done" =>
        /\ stats.deleted + stats.failed = Cardinality(UNION report) - Cardinality(report)
        /\ stats.found = stats.deleted + stats.failed
        /\ job.action = "delete" =>
               stats.deleted = Cardinality({p \in Paths : was[p] # None /\ at[p] = None})

(* The call ends, whatever the other processes do. *)
Terminates == <>Over
=============================================================================
