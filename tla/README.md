# A verification of fastdelete

TLA+ models of `fastdelete`, the TLC runs that check them on small instances,
and proofs, checked by TLAPS, that hold for every instance.  Paths are relative
to the repository; `deleter.py` stands for `src/fastdelete/deleter.py`, and so
on.

1. The system
2. The modules and the code
3. The runs
4. Bounds
5. Fairness
6. What is proved
7. What is only checked, and what is not modelled
8. Disagreements found
9. Plan

## 1. The system

`fastdelete` removes directory trees.  Its parts:

| Part | State | Operations | Meets |
|---|---|---|---|
| Python engine (`deleter.py`) | `stats`, `abort_event`, `_c_abort_flag`, the batch and the futures of the pool | `run`, `_run_sequential`, `_run_parallel`, `delete_file_entry`, `delete_dir_entry`, `request_abort` | pulls items from the scanner, shares `stats` with its workers, shares the tree with everybody |
| Scanner (`scanner.py`) | a stack of open `scandir` iterators | a generator: one item for each `next()` | runs between two steps of the loop that consumes it, so it reads directories that are being emptied |
| Compiled engine (`c_engine.c`, `_run_c_engine`) | a growing stack of open directories, `CDeleteStats` | one call for the whole tree | sees an abort only through an integer another thread writes |
| Target identity (`safety.py`) | device and inode recorded by `run()` | `inspect_target`, `verify_unchanged` | read again before the target itself is removed |
| Trash (`trash.py`) | `files/`, `info/` on disk, shared by every process of the user | `move_to_trash`, `restore_trash_item`, `empty_trash`, `list_trash` | `FastDeleter` with `trash=True`; `empty_trash` runs two `FastDeleter`s |
| Filters, gitignore (`filters.py`, `gitignore.py`) | the rules; `base_dev`, written by the scanner | decisions about one entry | asked by the scanner |
| Shredder (`shredder.py`) | the file being overwritten, its temporary names | overwrite, rename, unlink | a worker of the engine runs it while the scanner reads the same directory |
| Duplicates (`duplicates.py`) | a report made earlier | `find_duplicates`, `clean_duplicates` | the tree may have changed since the report |
| Command line (`cli.py`) | targets, the running engine, `abort_event`, the exit code | inspect all, confirm, delete one by one, signals | everything above |
| Programming interface (`api.py`) | the filter its caller shares between calls | `delete`, `delete_many` and one function for each subcommand | the same engines, without prompts and without signals |
| Presets (`presets.py`) | none | a search, then one deletion for each result | `clean`; the Python or the compiled engine |
| Analyzer (`analyzer.py`) | a stack of directories and a heap of files | `analyze_directory` | `du` |
| Progress, errors | none that lasts | print, record | |

What is hard about it:

- **A generator interleaved with deletion.**  The scanner yields a directory
  after its contents, but in the pooled loop its files may still be in a batch,
  in the executor's queue or in a worker's hands.  Correct: no `rmdir` before
  all of them are through (`PostOrder`), and nothing survives because of the
  order in which threads ran (`NoLeftovers`).
- **Counters written by several threads and several paths.**  Correct: every
  item ends in exactly one of them (`ItemsAccounted`, `EntriesAccounted`), and
  what is counted as deleted was removed (`CountsAreRemovals`).
- **An abort at any moment.**  Correct: from then on each thread finishes at
  most the removal it had begun (`KeepsPromise`), and `run()` still returns
  (`Terminates`).
- **A tree that belongs to everybody.**  Entries vanish or appear, directories
  become write-protected, calls fail, the target is replaced.  Correct: only
  allowed entries are removed (`KeepsPromise`), a replaced target is not
  (`ReplacedRootKept`), and the counters still add up.
- **Two files for one object in the trash.**  The payload and its `.trashinfo`
  are written and removed one after the other, by processes that die or run out
  of space.  Correct: nothing is destroyed but while `empty_trash` is at the
  files (`KeepsPromise`), and each payload has the info file that leads back to
  the place it came from (`Recoverable`).
- **Files that change names while they are shredded.**  Workers rename a file
  three times before they unlink it, in a directory the scanner still reads, and
  two names may be one file.  Correct: nothing is truncated or unlinked with
  its content (`WipedFirst`), every name is counted once (`Accounted`), and
  once the directory gives no more names the pool comes to its end
  (`Terminates`).
- **Deleting from a report.**  Three stages narrow files down to groups;
  later all but one path of each are removed, or unlinked and linked again.
  Correct: the groups are exactly those of equal contents (`ReportExact`), no
  content is lost whatever fails (`NoContentLost`), the strategy decides which
  path stays, also between files of one time (`KeepsBetter`), linking leaves every
  name with its content unless the link and then the copy fail (`NamesKept`), and
  the counters add up (`StatsExact`).
- **Twenty options that decide what is spared.**  The filter is asked at three
  places of the traversal, and not at all when `has_filters` says that there is
  none.  Correct: whatever path through the code a deletion takes, nothing an
  option promises to leave is removed (`OnlySelected`, `OneFileSystem`), a dry run says
  what a real one does (`DryRunTruth`), and exit code 0 means that all the rest
  is gone, but for directories that hold something to be kept (`SelectedGone`).
- **Several targets, prompts and signals.**  Correct: nothing is removed before
  everything is confirmed (`ConfirmedFirst`), no protected directory without
  the option for it, under whatever name (`ProtectedKept`), the exit code tells
  what happened (`ExitTruthful`), and the command comes to its end
  (`Terminates`).
- **Searches and sums.**  `clean` removes nothing but what the preset names,
  and all it names but by a path (`CleanExact`); `du` counts everything once (`DuExact`).

`PROJECT.json` lists every component and every hazard at its line.

## 2. The modules and the code

    Tree ── Job ─┬─ Disk ─┬─ Deleter ── MCDeleter, MCDeep, DeleterProofs
                 │        └─ CEngine ── MCCEngine, CEngineProofs
                 └─ TreeRemoval            (Deleter and CEngine implement it)
    TreeProofs                             (Tree; DeleterOutcome, CEngineProofs use it)
    DeleterProofs ── DeleterOutcome
    TrashBin                               (Trash implements it)
    Trash ─┬─ MCTrash
           └─ TrashProofs
    Shredder ─┬─ MCShredder
              └─ ShredderProofs
    Duplicates ─┬─ MCDuplicates
                └─ DuplicatesProofs
    Gitignore ── Filters ── World ─┬─ Selection ─┐
                                   ├─ Presets ───┼─ CommandLine ─┬─ MCCommandLine
                                   └─ Analyzer ──┘               └─ CommandLineProofs

- **Tree** is the operating system's side: the names that can exist, which are
  directories, links, unreadable, write-protected, busy.  All are constants
  with named assumptions; the program meets them only through system calls.
- **Job** holds the options of `FastDeleter` and the answers of its filter, as
  sets of accepted files and directories.  `Allowed(job)` is the set of entries
  a deletion may remove at all.
- **Disk** is the state of the tree (`present`, `mode`, `sameRoot`), what
  `unlink`, `rmdir`, `chmod` and `scandir` answer in it, and what other
  processes do: move an entry away with what is in it, create one, protect a
  directory, replace the target.
- **TreeRemoval** is what a deletion promises, whatever engine carries it out.
- **Deleter** is `run()` with the Python engine.  A step ends where another
  thread or process can come between: at a system call, at a test of
  `abort_event`, at the executor's queue.
- **CEngine** is `run()` with the compiled engine, with the three-way race of
  `abort_event`, `_c_abort_flag` and the C loop.
- **Trash** is `trash.py`, one file-system call at a time, by several
  processes, with failing calls and crashes.  **TrashBin** is its promise.

- **Shredder** is `shredder.py` as the workers of the pool run it, one system
  call at a time, with the scanner beside them.  Random names are numbered in
  the order they are drawn; a file's content is `"secret"`, `"partly"`
  overwritten, `"clean"` or of size zero.  Composed with the whole of `Deleter`
  it would only repeat what `Deleter` shows of the pool, so it has a scanner and
  a queue of its own, without batches and aborts.
- **Duplicates** is `find_duplicates` followed by `clean_duplicates` on its
  report.  Equal hashes are taken to mean equal contents; a content is a model
  value with a size and a sample, so that two contents can agree in both and
  differ.

- **Gitignore** and **Filters** are `gitignore.py` and `filters.py` as
  operators on one entry and its relative path.  Patterns are the sets of names
  and paths they match; ages, sizes and depths are numbers.
- **World** is the file system of a command that nobody disturbs, the paths
  that lead to its entries (several to one, through links), and `safety.py`.
- **Selection** is what the scanner yields for a target under a filter, as
  sets.  `Deleter` has the order and the interference, and takes the filter's
  answers as constants; `CommandLine` has the filter and no interference.
- **Presets** and **Analyzer** are `presets.py` and `analyzer.py`.
- **CommandLine** is `main`, `confirm_deletion`, the signal handler, `clean`,
  `du`, and `delete` and `delete_many` of `api.py`, as one process: the targets
  are inspected, confirmed and then given one after the other to an engine,
  which here is a loop over the items, contents first.

How the state corresponds to the code:

| Model | Code |
|---|---|
| `Deleter!pc` | where the main thread is: `run`, `scan`, the loop, `drain_futures`, `delete_dir_entry`, the last flush and the join |
| `stack`, `unread`, `given` | the scanner's stack of `(iterator, path, depth)`; what the iterators still have to return and have returned |
| `batch`, `queue` | `file_batch`; the batches submitted that no worker has taken |
| `hand[a]`, `step[a]` | what is left of the batch thread `a` works on; where it is in `delete_file_entry` |
| `stats`, `cstats` | `DeletionStats`, `CDeleteStats` |
| `late`, `after`, `yielded`, `removed`, `mistaken`, `origin`, `orphaned` | history: no action reads them |
| `CEngine!event`, `flag`, `seen` | `abort_event`, `_c_abort_flag`, the value read by `_run_c_engine` before it writes the flag |
| `CEngine!cap` | `stack_cap` |
| `Trash!holds`, `partial`, `info` | the payload of each path, whether it is an incomplete copy, the content of `.trashinfo` |
| `Shredder!at`, `name`, `fd`, `todo` | where each worker is in `shred_file`; `path`, later `curr_path`; the descriptor; passes, then renames, still to do |
| `Shredder!short`, `exposed` | history: a write was short; what was truncated or unlinked with content |
| `Duplicates!key` | the keys of `size_map`, `sample_map` and `full_map` that lead to a path |
| `Duplicates!left`, `primary`, `order` | groups to come; `primary`; what is left of `duplicates_to_process` |
| `CommandLine!command` | `args`, or the arguments of `delete_many` |
| `waiting`, `queue`, `target`, `chosen` | `args.targets` still to inspect; `identities`; the target of `active_deleter`; the items its scanner has still to give |
| `CommandLine!pc` | `call` is the call of `c_fastdelete_tree`, `scan` the Python loop, `prompt` and `secondary` the two questions of `confirm_deletion` |
| `CommandLine!event`, `held`, `frames` | `abort_event`; its lock; the activations of `signal_handler`, each interrupting the one before |
| `CommandLine!baseDev` | `DeletionFilter.base_dev` of the filter all targets share |
| `CommandLine!removed`, `replies` | history: no action reads them |
| `Analyzer!summary` | `DiskUsageSummary`, with the heap as the set of its files |

Points where the model says more than a first reading of the code:

- *An open directory stream* returns what was there when it was opened and may
  return what came later (POSIX leaves that open), so `Listed` offers both.  A
  replaced target is another directory than the one that is open.
- *The depth of a pushed frame in the C engine* is computed as
  `curr->depth + 1` after `realloc` may have moved the stack that `curr` points
  into (`c_engine.c:492`).  When the stack is full, `NewDepths` therefore also
  offers what such a read may return (`Garbage`).  A frame whose depth comes
  out 0 is taken for a target to be kept; `mistaken` remembers it and
  `EntriesAccounted` and `NoLeftovers` name that exception.
- *`Path.exists` does not see a dangling link* (`trash.py:53`, the check before a
  restore), so a dangling link can be lost when another object is restored to
  its place.  `TrashBin` states that exception; without it the promise does not
  hold.
- *`os.write` may write less than it is given*, and `shredder.py:179` does not
  look at the result.  `WriteShort` is that write; `WipedFirst` names it as its
  exception, and without the exception it does not hold.

- *A target that is no directory is deleted without asking the filter*
  (`deleter.py:465`), and `--trash` moves the whole target without asking it
  (`deleter.py:433`).  `OnlySelected` and `Selected` say so.
- *Every special file has the type of a socket* (`filters.py:282`), and only
  regular files are asked whether they are empty (`filters.py:321`).
  `OnlySelected` compares with what the documentation promises and names these
  as its exceptions, `AsSocket` and `NoRegularFile`; `Selected` also has
  `NoSocket`, what `--type p` would delete and does not.
- *A preset's name that is a path* is compared with basenames and never found
  (`presets.py:254`).  `Wanted` has what such a name asks for; `Unfound`, what only
  a path asks for, is the exception of `CleanExact`.
- *The path in an info file is read back from text*, by lines and
  stripped (`trash.py:210`).  `Legible` are the places whose path
  survives that; `Recoverable` promises the way back to those only.
- *Prompts are left out* not only with `--yes` but also with `--quiet`,
  `--json`, `--ndjson` and `--dry-run` (`cli.py:672`).
- *`base_dev` belongs to the first target* (`scanner.py:103`).  `OneFileSystem`
  is therefore about the first target; `BoundariesKept`, about all, is violated.
- *A signal that arrives inside `Event.set`* starts a handler that waits for the
  lock its own thread holds (`cli.py:693`).  `Blocked` is that state, the only
  exception of `Terminates`.
- *A rule of an ignore file that ends in a slash* never holds for a file
  (`gitignore.py:168`), although the expression built for it matches what is in
  the directory; the definition `OnlySelected` compares with has the same
  exception.
- *A dry run counts directories that will not be empty* (`deleter.py:374`), so
  `DryRunTruth` gives for directories a lower bound only.

`PROJECT.json` maps each definition to the lines it stands for.

## 3. The runs

| Run | Module | Shows |
|---|---|---|
| `deleter` | MCDeleter | The Python engine, sequential and pooled with two workers, with and without filter, force and dry run, under interference and an abort: `TypeOK`, `PostOrder`, `ItemsAccounted`, `CountsAreRemovals`, `NoLeftovers`, `ReplacedRootKept`, `Terminates`, and the refinement `KeepsPromise` of `TreeRemoval`. |
| `cengine` | MCCEngine | The compiled engine with a stack that grows: `TypeOK`, `EntriesAccounted`, `CountsAreRemovals`, `NoLeftovers`, `Terminates`, and the same refinement from the moment the engine can see an abort. |
| `trash` | MCTrash | One process after another on one trash, over two file systems, with one failing call or crash anywhere, and one place whose path the info file does not give back: `TypeOK`, `Recoverable`, `Tidy`, and the refinement `KeepsPromise` of `TrashBin`. |
| `shredder` | MCShredder | Two workers, two links to a read-only file and an empty file, a directory that may be write-protected, one random name met by the scanner, one failing call or short write: `TypeOK`, `WipedFirst`, `Accounted`, `Terminates`. |
| `duplicates` | MCDuplicates | Five paths, each strategy with each action, two failures or a death, and one interference: `TypeOK`, `ReportExact`, `NoContentLost`, `KeepsBetter`, `NamesKept`, `StatsExact`, `Terminates`. |
| `command` | MCCommandLine | 226 commands on a file system of 26 entries: each filter option on a tree with a link, a fifo, mounts, entries that cannot be removed, read or measured; protected directories under several names with each override; several, missing and overlapping targets; prompts; presets, one with a name that is a path; `du`; up to two signals: `TypeOK`, `ConfirmedFirst`, `ProtectedKept`, `OnlySelected`, `OneFileSystem`, `SelectedGone`, `DryRunTruth`, `ExitTruthful`, `CleanExact`, `DuExact`, `Terminates`. |
| `one_file_system` | MCCommandLine | Violated: below the second target a mount of the first one's device is entered. |
| `deep` | MCDeep | Violated: trees deeper than the descriptor limit are not removed. |
| `c_failure` | MCCEngine | Violated: a call that returned an error reports no failure. |
| `c_abort` | MCCEngine | Violated: an abort requested while the call is being set up is lost. |
| `c_identity` | MCCEngine | Violated: a replaced target is removed by the compiled engine. |
| `trash_race` | MCTrash | Violated: two processes destroy a file without emptying the trash. |

The runs that are violated each check one sentence of the documentation or of a
comment; section 8 says what they show.  Every property of a passing run has a
mutant, a definition changed the way a plausible bug would change it (among the
`Mutant:` definitions of the modules), under which the run fails.

## 4. Bounds

| Bound | Value | Why it is enough |
|---|---|---|
| The tree | 3 levels of directories, a file on three of them, a link, a write-protected directory, one name that cannot be removed and one directory that cannot be read | A directory with several files, a directory that empties only after another, and each way an entry resists removal. |
| `Workers`, `BatchSize` | 2, 2 | One full batch, one partial batch, two batches in progress at once. |
| `Jobs` | 4 combinations in each engine | The combinations the command line and `empty_trash` use; each option occurs with each value. |
| `EnvBudget` | 1 | One interference anywhere, of any kind. With 2 the same properties hold in `CEngine` (391 235 states) and, on a smaller tree, in `Deleter`; those take longer than a run should. |
| `MaxOpen` | 4 (3 in `MCDeep`) | As many as the tree of `MCDeleter` needs, so that the limit is met only in `MCDeep`. |
| `Capacity` | 2 | Instead of 64: the tree fills the stack and makes it grow. |
| `Garbage` | -1, -2 | The new frame looks like the target's, or its first subdirectory will. In a tree of this depth every other value behaves like the right one. |
| `Mishaps` | 1 (2 in `duplicates`, 0 in `trash_race`) | One failure or crash at any step; among the duplicates two, since the copy that may fail is made only where a link has failed. |
| `MaxSuffix` | 2 (1 in `trash_race`) | More names than there are objects to collide. |
| `Renames` | 2 | Instead of 3: a rename that is not the last, and the last. |
| `MaxMet` | 1 | The scanner meets one random name, which gives a worker a path another worker is about to unlink. The code has no such bound: `Terminates` does not use it, and `Accounted` counts names whatever it is, for which the proof takes any value. `MaxDrawn` follows from it and is never reached with names left to draw. |
| `Jobs` in `Shredder` | zero; custom with one pass | One pass, and one pass with the zeros after it. The proof is about every method and number of passes. |
| `Starts` | 3 | A group of three and files that agree with it in the sample only; a pair of links beside another copy and a missing path; two groups in one directory. One path cannot be read. |
| `Meddling` | 1 | One removal, replacement or creation by another process, anywhere. The properties of the cleaning are about runs without it; `Terminates` and `TypeOK` are about all. |
| `LastTime` | 2 | Older, newer, and written since. |
| `Procs` in `Trash` | 1 (2 in `trash_race`) | The promise holds for one process at a time, interrupted anywhere, followed by others; two at a time break it, which is the point of `trash_race`. |
| `Commands` | see MCCommandLine | One filter for each option and the combinations in which two options decide about one entry; each override with each protected path; three targets at most, so that a failure or a prompt can come before, between and after others. |
| `signals` | 2, in six commands | One signal at any moment, and a second one inside the handler of the first. |
| `top`, `maxDepth` | -1 to 2; none or 1 | The heap that may hold nothing (below 1 the first file raises, and only a tree without files is counted), that is full at once, and that gives an element up. |

The user creates an object in `Trash` only while no process works, so that
`KeepsPromise` is about what `trash.py` does and not about a race with the user.
`yielded`, the counters and `late` are not capped: they are bounded by the tree
and the budget.

Deadlock is checked in every run: the returned state of each engine stutters
explicitly (`Finished`), and the trash can always be used again.

## 5. Fairness

`Deleter!FairSpec` assumes weak fairness of the main thread and of each worker:
they are ordinary threads with no priorities, and no lock is held across a
system call that could starve another.  `CEngine!FairSpec` assumes weak fairness
of the call.  Nothing is assumed of other processes, of failures or of aborts,
so `Terminates` holds whether they act or not.  `Shredder!FairSpec` assumes weak
fairness of each worker, and that the scanner comes to the names that were there
when it began (`readdir` returns those); it need never return a random name, and
no write need be short.  Whether it ever stops to return random names, one for
each rename of a file it had met under another, is up to the file system and
not to fairness: `Terminates` has that it does as its premise, `given` not
changing from some moment on, and `MaxMet` is only a bound of the model.  `Duplicates!FairSpec` assumes that the process, a single
thread, runs until it is through or dies.  `Trash` has no liveness
property: a process may die at any step.  `CommandLine!FairSpec` assumes weak
fairness of the main thread and of the signal handlers, which Python runs on that
same thread as soon as it executes Python code again; neither that a user answers
a prompt nor that a signal comes is assumed, and `Terminates` begins after the
prompts.

## 6. What is proved

Every assumption on a constant is named, in the module that declares it, and
evaluated by TLC in the runs.  No theorem bounds the number of threads,
processes, files or steps.  Each proof module keeps to one shape: an invariant
that adds to a property what makes it inductive, a lemma for each part saying
that `Next` preserves it, with one step for each action that can disturb it, and
a temporal step at the end.  The inductive invariants were checked by TLC on the
instances of section 3 before they were proved.

### The Python engine

From `TreeAssumption`, `InitialAssumption`, `JobAssumption`, `DiskAssumption` and
`DeleterAssumption`, for every tree, filter, set of options, number of workers,
batch size, descriptor limit and amount of interference:

| Theorem | Statement |
|---|---|
| `DeleterProofs!Invariance` | `Spec => []IInv` |
| `DeleterProofs!TypeCorrectness` | `Spec => []TypeOK` |
| `DeleterProofs!PostOrderRemoval` | `Spec => []PostOrder` |
| `DeleterProofs!PromiseKept` | `Spec => KeepsPromise`: the Python engine implements `TreeRemoval` |
| `DeleterProofs!ReplacedTargetKept` | `Spec => ReplacedRootKept` |
| `DeleterOutcome!NoItemLost` | `Spec => []ItemsAccounted` |
| `DeleterOutcome!CountsTrue` | `Spec => []CountsAreRemovals` |
| `DeleterOutcome!NothingLeft` | `(\A d \in Dirs : Depth[d] < MaxOpen) => (Spec => []NoLeftovers)` |

`IInv` has the parts

- `Types`: `TypeOK`, and `HandsBusy`: a thread that is idle has nothing in its
  hand and a thread that is not has something, which makes "no pending future"
  (what the code tests) the same as "no file waiting" (what matters).
- `Drains`: where the main thread is tells what can be waiting: nothing in the
  batch after a submit, nothing anywhere after the drain, no batch at all
  outside the pooled loop.
- `Asked`: every entry in the batch, the queue or a hand is a file the filter
  accepted, every directory on its way to `rmdir` is one it accepted and, if it
  is the target, is to be removed, and a dry run never gets as far as a
  removal.
- `NamesOnce`: a name that was removed is not in use and is not used again, so
  that no entry is removed twice.
- `Graceful`: after the abort a thread that has removed an entry is not about
  to remove another.

`PromiseKept` maps each step to a step of `TreeRemoval` or a stutter:
`RemovalAllowed` for the steps that remove an entry (`FilesAreLeaves`: a file has
nothing in it), `OtherKept` for those that do not.  `ReplacedTargetKept` needs a
second invariant, `Replaced`: a replaced target stays replaced, and its `rmdir`
never begins.

`DeleterOutcome` counts.  Its `CInv` says that the scanner gives a name once and
after its directory (`ScanOnce`), that a file given is in one place at a time,
the partial batch, one submitted batch or one thread's hands (`Piles`, `Waits`),
and that the counters and what waits or is in hand add up to what was yielded
(`Tally`, `Discovery`).  `ItemsAccounted` follows because at the end nothing waits.
`Calm` adds that undisturbed everything that waits exists, so that
`delete_file_entry` never counts a file somebody else removed.

`NothingLeft` needs what a deletion has not yet dealt with to be somewhere:
`Thorough` says that, undisturbed and not aborted, an entry that exists and is no
longer with the scanner, the pool or the main thread is `Stuck`, for one of the
reasons `NoLeftovers` accepts, and `AllRead` that what was listed under an open
directory has been or will be given.  `StackShape` ties the depth of a directory to
the length of the scanner's stack.  Its hypothesis, one open directory for each
level of the tree, is the code's limit and not a convenience of the proof: the
run `deep` is the counterexample without it.

### The compiled engine

From `TreeAssumption`, `InitialAssumption`, `JobAssumption`, `DiskAssumption` and
`CEngineAssumption`, for every tree, capacity of the stack, depth that may be read
from a frame `realloc` has moved away, failure, interference and abort:

| Theorem | Statement |
|---|---|
| `CEngineProofs!Invariance` | `Spec => []IInv` |
| `CEngineProofs!TypeCorrectness` | `Spec => []TypeOK` |
| `CEngineProofs!Accounted` | `Spec => []EntriesAccounted` |
| `CEngineProofs!CountsRight` | `Spec => []CountsAreRemovals` |
| `CEngineProofs!PromiseKept` | `Spec => KeepsPromise`: the compiled engine implements `TreeRemoval` |
| `CEngineProofs!NothingLeft` | `(\A d \in Dirs : Depth[d] < MaxOpen) => (Spec => []NoLeftovers)` |

The argument for the counters is a count of sets.  `Shapes` says what a step can
do to the walk: note an entry, take it in hand, push it, close a frame, settle what
is in hand, return, or none of these.  The parts of `IInv`:

- `Met`: an entry is met once.  No directory has two frames, nothing is both on
  the stack and in hand, whatever is on either was returned by `readdir` (or is
  the target), and the directory of an entry that was returned was returned before
  it, so that the children of a directory just opened are new.
- `Begins`: before the walk nothing has happened; what is in hand may be removed,
  the target only when it is to be (only its own frame has depth 0 with its name,
  whatever depth another frame took from a stack that moved).
- `NoAbort`: nobody sees an abort before it is asked for.
- `Tallied`: the counters add up to the number of entries that are `Settled`:
  returned, or the target, and no longer on the stack, in hand or mistaken for a
  target.  Each step adds at most one to both.
- `NamesOnce` and `Graceful`, as for the Python engine.

`CountsRight` adds `Calm`: while nobody interferes, what is on the stack, in hand
or still to be read exists, so that `RemoveGone`, which counts an entry somebody
else removed, cannot happen.  `PromiseKept` maps a removal to `Remove` by the main
thread, and the write of the flag to `Abort` or to nothing.  `NothingLeft` runs as
for the Python engine, with the frames for the scanner's stack, and with the same
hypothesis: the engine, too, keeps every directory above it open.

### The tree

`Path` is defined by recursion over the directories, and the provers cannot do
induction over a recursive definition.  `TreeProofs` replaces it: `Up(n)`, the
smallest set that holds `n` and with an entry its directory, satisfies the equation
by which `Path` is defined (`UpSteps`, hence `PathSteps`), and what holds of the
target and passes from a directory to its entries holds of every name
(`Downwards`), since among the entries without it one would have the least depth
(`Least`, from the well-foundedness of `<` on the natural numbers).

### The trash

From `TrashAssumption`, for any objects, places, names, failures and crashes:

| Theorem | Statement |
|---|---|
| `TrashProofs!TypeCorrectness` | `Spec => []TypeOK` |
| `TrashProofs!Recovery` | `Spec /\ []OneAtATime => []Recoverable` |
| `TrashProofs!Tidiness` | `Spec /\ []OneAtATime => []Tidy` |
| `TrashProofs!PromiseKept` | `Spec /\ []OneAtATime => KeepsPromise`: the trash implements `TrashBin` |

`OneAtATime` says that no two processes are inside an operation at once; any
number of them may follow one another, fail or die.  `_get_unique_trash_name` looks
for a name and does not reserve it, so without the hypothesis the three are
false: the run `trash_race` shows it for the promise.  `TrashBin` has two variables: where
each object is, and whether the user has the trash emptied (`emptying`, in `Trash`
that a process is at the files directory in `empty_trash`).  `Purge` needs the
second, so that a restore, or a copy across file systems, that destroyed what it
moves would be no step of the promise.  The parts that make them
inductive: a process that has chosen a name and written its info file finds the
info file of nobody else there (`Noting`); the info file of a payload names its
origin (`Labelled`, from which `Goal` leads back where the path is legible); every payload has a place it came from
(`Traced`); what stands in the way of a move is only what `exists()` does not see
(`Unseen`), a slot holds one object (`Single`) and what the user has not created is
nowhere (`Unborn`); and, as long as nothing failed, how far files and info
correspond at each point of an operation (`Level`).

### The shredder

From `ShredderAssumption`, for any number of workers, names, links, methods,
passes and failures:

| Theorem | Statement |
|---|---|
| `ShredderProofs!WipedBeforeUnlink` | `Spec => []WipedFirst` |
| `ShredderProofs!TypeCorrectness` | `Spec => []TypeOK` |
| `ShredderProofs!AccountsTrue` | `Spec => []Accounted` |

`WipedFirst` alone is not inductive: `Truncate` works on a descriptor and `Unlink`
on a path.  `WInv` adds:

- `NamesUsed`: nobody holds a path that has not been used, so that no path comes
  to lead to another file than the one opened through it;
- `SameFile`: a worker's descriptor is the file its path leads to, or the path
  is gone;
- `Wiped`: a worker that is past its passes has no content left in its hands,
  whatever the others do to the same file meanwhile.

`Accounted` speaks of the end only.  `AInv` says at every moment that each name
given is counted, in the queue or in the hands of a busy worker (`Counted`); that
the names in the directory nobody will come to any more are at most the failures
(`Blamed`); and that, until the scanner meets a random name, no two workers have a
name in common, what is to be dealt with is there, and those names are exactly
the failures (`Apart`).

### The duplicates

From `DuplicatesAssumption`, for any files, links, groups, strategies and failures:

| Theorem | Statement |
|---|---|
| `DuplicatesProofs!TypeCorrectness` | `Spec => []TypeOK` |
| `DuplicatesProofs!SearchExact` | `Spec => []ReportExact` |
| `DuplicatesProofs!NothingLost` | `Spec => []NoContentLost` |
| `DuplicatesProofs!NamesSafe` | `Spec => []NamesKept` |
| `DuplicatesProofs!StatsTrue` | `Spec => []StatsExact` |
| `DuplicatesProofs!BetterKept` | `Spec => KeepsBetter` |

`DInv` carries the argument from the search into the cleaning, for as long as
nobody else writes:

- `KeysTrue`: what the search knows of a path is what the path holds;
- `Pure`: the groups are apart, and each is of one content;
- `Retained`: only paths of groups that were begun have changed, each of those
  groups has a path that did not, and in the current one that path is the primary, which
  is not among the paths still to come.

`SearchExact` adds `KeysExact`: a path that a stage has come to has the key of its
content or is out of the search, and one that has a twin is never out of it; so
that at the end the groups are the classes of equal contents (`ReportIs`).  The theorems about cleaning add `Sorted` (what is left of the group
in turn is in the order the strategy gave, the primary before all of it),
`NamesTrue` (a path in the group in turn is without its content while its link or
its copy is due, and beyond that only where both failed, two mishaps and one
`failed` for each, `Lacking`) and `Count` (the counters against the groups done and the part of the group in turn).

### The command line

From `WorldAssumption`, `PathAssumption` and `CommandAssumption`, for every file
system, list of commands, number of targets and number of signals:

| Theorem | Statement |
|---|---|
| `CommandLineProofs!TypeCorrect` | `Spec => []TypeOK` |
| `CommandLineProofs!Confirmation` | `Spec => []ConfirmedFirst` |
| `CommandLineProofs!Protection` | `Spec => []ProtectedKept` |
| `CommandLineProofs!ExitCodes` | `Spec => []ExitTruthful` |
| `CommandLineProofs!Boundaries` | `Spec => []OneFileSystem` |
| `CommandLineProofs!Selective` | `Spec => []OnlySelected` |
| `CommandLineProofs!Thorough` | `Spec => []SelectedGone` |
| `CommandLineProofs!CleansExactly` | `Spec => []CleanExact` |
| `CommandLineProofs!DryRuns` | `Spec => []DryRunTruth` |
| `CommandLineProofs!Usage` | `Spec => []DuExact` |

`IInv` adds to the types:

- `Prompted`: whoever is asked about a target is asked about one that was found
  and allowed, and the second question comes after consent to the first;
- `Aimed` and `Settled`: a run has a target; the main command deletes nothing
  while a target waits, so that what is confirmed late is confirmed in time;
  and until something is removed nothing is missing;
- `Replied`: each target of a command that asks has its answers or waits still;
- `AllJudged`: each target in the queue, in work, or with something removed was
  allowed by `validate_safety` under one of its names.  That the other names
  would have given the same answer is `PathAssumption`: an entry has one resolved
  path.  The mutant that compares unresolved paths shows what it is needed for.

The exit code and the boundaries need a second one, `OInv`:

- `Alarmed` and `Coded`: the event is set only by a signal that came, and leads
  to 130; every other code is decided at the end, from the counters;
- `MissingCounted`: a target that does not exist waits or was counted;
- `Removals`: what is missing was removed with a target it was in, and
  `Ordered`: the targets are taken in the order given, each place in the list
  once.  Together they give `Blamed`: a deletion that failed found its target
  missing from the start, something in it stuck or unreadable, or, the only other
  way a target can be gone, two targets that overlap;
- `OwnDevice`: while the first target is in work `base_dev` is its device, so
  that what is chosen below it is not `Foreign`;
- `Sparing`: what is chosen in a directory and can be read, and what was removed
  from it, is not passed over (`PassedOver`);
- `Grounded`: the directory of what exists exists;
- `Complete`: as long as nothing has failed, everything selected in a target that
  was taken is gone, or is a directory that holds something not selected, or is
  still to come in the run in work, or that run is still to report a directory it
  cannot read.

`Complete` rests on `ScanComplete`, the converse of `ItemsSelected`: what no option
spares is yielded, since every directory on the way to it is entered
(`WayTraversed`) and whatever `matches_file` or `matches_dir_removal` says no to is
in one part of `PassedOver`; or the nearest directory above it that cannot be read is
yielded, as an error.  The proof corrected the property.  It used to say that a
directory that stays has something in it at the end; with two targets, one in
the other, and a filter, the second run may take what the first had to leave
(`fastdelete /w /w/build --min-depth 1 --max-depth 1` leaves `/w/build`, which was
not empty when its turn came, empty).  TLC confirmed it, that command is now one of
the run, and the property says what holds: something in the directory was not
selected for that target.

`Sparing` rests on `ItemsSelected`: nothing the scan yields is passed over, option
by option.  `SamePassedOver` then shows that what the code passes over (`TypeOf`,
regular files) is what the options promise to leave, less the exceptions that
`OnlySelected` names and with what `--type p` would delete (`Skipped`).  For an ignore file that is `IgnoresListed`, the equivalence of two
definitions: the code goes from the last part of a pattern back and keeps the
places where the rest fits (`Covers`), while the property says that the pattern
can be laid out along the path (`LaidOut`).  The recursive function of `Covers` is the
solution of an equation; the places that some layout of the rest begins at solve
it (`FitSolves`), and there is only one solution (`OneSolution`, by the least
counterexample).

`CleanExact` has an invariant of its own, `CInv`, since `clean` asks nobody and
takes its targets from the search.  `TargetsApart`: the search does not enter what
it has matched, so no target lies in another, and none is gone before its turn
(`NeverGone`); hence what fails is stuck or cannot be read (`Judgement`).
`SoughtFound`: whatever has a name of the preset, not a path, above it and no unreadable
directory lies in the match nearest to the root, and that one is a target; with
`ScanComplete` for a run without options, and children before their directory,
nothing of a target stays as long as nothing fails (`Clearing`).

`DryRunTruth` counts what is *not* seen to happen, so its invariant counts too.
A target owes what is selected in it, visible and readable (`Owed`).  `Tally`
says that, as long as no signal came, the counters are the cardinalities of what
the targets that were begun owe, less what the run in work has still to take
(`Handled`).  A step adds one to a counter and one to that set, which needs two
facts: a run is offered exactly what its target owes (`RunOwes`, from
`ItemsSelected` and `ScanComplete`), and what two targets owe is disjoint, since
without overlap no target is taken twice and none takes another one along
(`Apart`, from `Ordered`).  At the end nothing is left, so that the same sets count
for a dry run and, without what is stuck, for a real one.

`DuExact` is proved from `Survey`, which holds of a walk at every step and has two
halves.  `Shape` is about what is still to come: each directory on the stack is one
that counts, with its depth and the subdirectory of the root that it is in
(`Placed`), and neither of the entries that are still to come, on the stack or
unread in the open directory, lies in the other, so that nothing is reached twice.
`Sums` says that the summary is exact for what does not lie in any of those:
the counts, the bytes, the share of each subdirectory, and that the heap holds the
heaviest files so far (`Heavier` for the element it gives up).  When the stack is
empty that is everything.  `WithinParts` carries the steps that open a directory:
what is in it is in one child, or is the directory.

The sums are folds, whose definition chooses an order, which no backend can
follow.  `BytesMore` (a file more adds its size) is proved by another route: the
sum of a finite set is the number of pairs of a file in it with a number up to its
size (`Spread`), by the least counterexample among the subsets of `Nodes`, and
cardinalities the library has facts about.  This proof corrected its property,
too: it used to say that the heap is as large as the smaller of `--top` and the
number of files, which is false for a negative `--top` and a tree without files.
TLC confirmed it with `--top -1`, now among the commands of the run.

`Foreign` and `Between` speak of the ancestors of an entry, so the proof has the
counterparts of `TreeProofs` for `World`, with `Level`, the number of directories
above an entry, in the place of `Depth`.

## 7. What is only checked, and what is not modelled

Every safety property and every refinement of a passing run has a theorem.  Only
checked by TLC: every `Terminates`, since liveness under fairness is out of the
prover's reach.  The six properties of the violated runs are false, and TLC shows
it.

Left out of the modelled parts: event callbacks and the error log, progress,
dates, `list_trash`, `max_depth` and `one_file_system` in `CEngine` (`run()` does
not take it with them).  The executor's queue has no bound in the model and none
in the code.  In `Gitignore`
a `**` stands for whole directories; inside a name, where the code's expression
also lets it cross slashes, it cannot be expressed.  In `Shredder` a `chmod`
that succeeds always cures the `PermissionError` it answers (where it would not,
the second try fails, which a failing call does in the model, too); left out are the patterns of the passes, `fsync`, symbolic links
(which are unlinked like any file in `Deleter`), `obfuscate_name=False`, and
other processes, so also data appended to a file while it is shredded.  In
`Duplicates`: byte counts, the order of the groups (any order is allowed) and the
rendered report.

Whether the scanner ever stops handing out random names is not claimed
(section 5).  `ConfirmedFirst` is about commands that ask at all: `--quiet`,
`--json` and `--ndjson` do not (section 8).  `Recoverable` exempts the payloads
whose info file was removed beside them (`orphaned`), which the hazard says.

In `CommandLine` the engines have no threads and meet no other process: what
those add is in `Deleter`, `CEngine` and `Shredder`, whose properties hold for any
answers of a filter.  Its statistics are the files, the directories and the
failures.  A signal before the handler is installed raises `KeyboardInterrupt`;
SIGTERM there, which ends the process at once, is not told apart from it.  Left
out: the subcommands `trash`, `dupes` and `bench` (the functions they call are in
`Trash` and `Duplicates`), `argparse`, `parse_size` and `parse_duration`, which
turn text into numbers before anything is decided, the Windows branches of
`safety.py`, the matching of one name by `fnmatch` or `re`, and all output.

Not modelled: progress and errors have no control of their own; the benchmarks
are no part of the tool.

## 8. Disagreements found

- `deep`: the scanner holds one open directory for each level
  (`scanner.py:296`), so a tree deeper than the descriptor limit ends in
  `SCAN_ERROR` and stays, while `docs/architecture.md:17` promises "Trees
  thousands of levels deep".
- `c_failure`: `deleter.py:530-534` adds a failure to the statistics of a call
  that failed without counting it, and `deleter.py:542` overwrites it.
- `c_abort`: `_run_c_engine` reads `abort_event` and then writes
  `_c_abort_flag` (`deleter.py:515`); a `request_abort` between the two is lost.
- `c_identity`: the compiled engine never compares device and inode, which
  `docs/architecture.md:63` says is done before a root target is removed.
- `one_file_system`: `scan()` writes the device of its root into the filter only
  while there is none (`scanner.py:103`), and `main` and `delete_many` use one
  filter for all targets.  With targets on two devices the second traversal
  leaves its own device for a mount of the first one's, while
  `docs/cli.md:23` says "Do not cross filesystem mount boundaries during
  traversal."
- `trash_race`: `_get_unique_trash_name` looks for a free name but does not
  reserve it, so of two files moved at the same time under the same name the
  first is overwritten.

Met while modelling, and stated as exceptions of properties or as hazards
instead of runs of their own: a second signal inside `Event.set` blocks the
process, although `deleter.py:186` calls `request_abort` "Safe to call from a
signal handler"; a file named by `--gitignore` that does not exist leaves no
filter at all (`cli.py:351`); `--gitignore` selects what the rules ignore, while
its help (`cli.py:285`) speaks of exclusion rules; `--empty-files-only` also deletes links,
fifos and the directories left empty, which have no size to compare
(`filters.py:321`), against its help, "Only delete 0-byte empty regular files"
(`cli.py:278`); `--type s` also deletes fifos and devices and `--type p` nothing
(`filters.py:282`), against `docs/cli.md:44` and the comment at `filters.py:126`;
`.yarn/cache` and `.m2/repository`, which `docs/presets.md:16` and
`docs/presets.md:31` list among the folders to clean, are compared with basenames
(`presets.py:72`, `presets.py:125`, `presets.py:254`), so they stay and `clean`
returns 0; the path of an info file is written and read back as text
(`trash.py:210`), so an object whose path has a line break in it or a blank at its end
is restored elsewhere than to the "original path" of `docs/trash.md:51`; where
`docs/architecture.md:55` asks for "an interactive typing confirmation (`DELETE`)"
to delete a system directory, the unattended options `--quiet` and `--json` go
without it (`cli.py:672`); a write that is short leaves bytes that
`docs/shredder.md:22` says are all overwritten (`shredder.py:179`); where linking a
duplicate fails and the copy made instead fails too, the path stays away or
incomplete, and the error that is reported is that of the link
(`duplicates.py:272`); `du --top 0`,
or less, raises as soon as it meets a file (`analyzer.py:158`);
`dupes --hardlink --dry-run` carries out the links (`cli.py:533`); a directory
above the home directory is not protected unless it is on the list itself.

## 9. Plan

Done: the tree, the two engines, the trash, the shredder, the duplicates, the
filters, the command line with presets, analyzer and programming interface; the
proofs of every safety property of the engines, the trash, the shredder, the
duplicates and the command line.  Left, in this order:

1. The actions `dupes` and `trash` choose from their options, composed with
   `Duplicates` and `Trash`.
2. A second interference in `Deleter` and `CEngine`, on smaller trees.
