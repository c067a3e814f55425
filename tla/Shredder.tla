------------------------------- MODULE Shredder -------------------------------
(* shredder.py under the pooled engine: workers overwrite, rename and unlink *)
(* the files of a directory, one system call at a time, while the scanner    *)
(* still reads that directory and may meet the random names they give to     *)
(* files that another worker is about to unlink.                             *)
EXTENDS Integers, FiniteSets

CONSTANTS
    Workers,    \* the threads of the pool
    Names,      \* the names in the directory, all of regular files
    Files,      \* the files they lead to; two names may be links to one file
    LeadsTo,    \* the file of each name
    Empty,      \* files of size 0
    ReadOnly,   \* files that open() refuses for writing
    Owned,      \* files whose mode the user may change
    Jobs,       \* the methods and pass counts to consider
    Renames,    \* how often a name is obfuscated (3)
    MaxMet,     \* how many random names the scanner may meet
    Mishaps,    \* how many calls may fail
    None

(* Every name the workers can come to use: the random ones are numbered, as  *)
(* they are never drawn twice.                                               *)
MaxDrawn == Renames * (Cardinality(Names) + MaxMet)
Randoms  == 1 .. MaxDrawn
Entries == Names \cup Randoms

ASSUME ShredderAssumption ==
    /\ IsFiniteSet(Names) /\ Names \cap Randoms = {}
    /\ LeadsTo \in [Names -> Files] /\ ReadOnly \subseteq Files
    /\ None \notin Entries \cup Files
    /\ {MaxMet, Mishaps} \subseteq Nat /\ Renames \in Nat \ {0}
    /\ Jobs \subseteq [method : {"zero", "random", "dod", "dod7", "gutmann", "custom"},
                       passes : Nat \cup {None}]

VARIABLES
    job,       \* shred_method and shred_passes
    locked,    \* the directory's mode forbids changing its entries
    entry,     \* the file each name leads to
    data,      \* what a file holds: only "secret" and "partly" hold its content
    readOnly,  \* the files whose mode forbids writing
    drawn,     \* random names used so far
    given,     \* names the scanner has yielded
    queue,     \* names no worker has taken
    at,        \* where each worker is in shred_file
    name,      \* the path in its hands
    fd,        \* the file it has open
    todo,      \* passes, then renames, it has still to do
    stats,     \* files_deleted and files_failed
    mishaps,   \* calls that may still fail
    short,     \* history: a write was short
    exposed    \* history: files truncated or unlinked that still held content

diskVars == <<entry, data, readOnly, drawn>>
scanVars == <<given, queue>>
handVars == <<at, name, fd, todo>>
lastVars == <<job, locked, mishaps, short, exposed>>
vars == <<diskVars, scanVars, handVars, stats, lastVars>>

Init ==
    /\ job \in Jobs
    /\ locked \in BOOLEAN
    /\ entry = [n \in Entries |-> IF n \in Names THEN LeadsTo[n] ELSE None]
    /\ data = [f \in Files |-> IF f \in Empty THEN "zero" ELSE "secret"]
    /\ readOnly = ReadOnly
    /\ drawn = 0
    /\ given = {} /\ queue = {}
    /\ at = [w \in Workers |-> "idle"]
    /\ name = [w \in Workers |-> None] /\ fd = [w \in Workers |-> None]
    /\ todo = [w \in Workers |-> 0]
    /\ stats = [deleted |-> 0, failed |-> 0]
    /\ mishaps = Mishaps
    /\ short = FALSE /\ exposed = {}

Goto(w, s)   == at' = [at EXCEPT ![w] = s]
Tally(w, c)  == stats' = [stats EXCEPT ![c] = @ + 1] /\ Goto(w, "idle")
Deleted(w)   == Tally(w, "deleted")
Failed(w)    == Tally(w, "failed")
Mishap       == mishaps > 0 /\ mishaps' = mishaps - 1 /\ UNCHANGED <<job, locked, short, exposed>>
Held(f)      == data[f] \in {"secret", "partly"}
Exposing(f)  == exposed' = exposed \cup {g \in {f} : Held(g)}

-----------------------------------------------------------------------------
(* The scanner, and the pool that takes what it yields.                      *)

(* The open stream returns what was there, and may return what came later.   *)
Scan(n) ==
    /\ n \notin given
    /\ entry[n] # None
    /\ n \in Randoms => Cardinality(given \cap Randoms) < MaxMet
    /\ given' = given \cup {n}
    /\ queue' = queue \cup {n}
    /\ UNCHANGED <<diskVars, handVars, stats, lastVars>>

Take(w, n) ==
    /\ at[w] = "idle"
    /\ n \in queue
    /\ queue' = queue \ {n}
    /\ name' = [name EXCEPT ![w] = n]
    /\ Goto(w, "stat")
    /\ UNCHANGED <<diskVars, given, fd, todo, stats, lastVars>>

-----------------------------------------------------------------------------
(* shred_file.                                                               *)

File(w) == entry[name[w]]
Gone(w) == File(w) = None

NumPasses(method, passes) ==
    IF passes # None /\ passes > 0 THEN passes
    ELSE CASE method \in {"zero", "random"} -> 1
           [] method = "dod7"               -> 7
           [] method = "gutmann"            -> 35
           [] OTHER                         -> 3

(* The passes of the method, and the zeros that follow unless it is "zero".  *)
Overwrites == NumPasses(job.method, job.passes) + (IF job.method = "zero" THEN 0 ELSE 1)

Begin(w, s, n) == Goto(w, s) /\ todo' = [todo EXCEPT ![w] = n]

(* lstat: a file that is gone is done, an empty one needs no overwriting.    *)
Stat(w) ==
    /\ at[w] = "stat"
    /\ IF Gone(w) THEN Deleted(w) /\ UNCHANGED todo
       ELSE /\ IF data[File(w)] = "zero" THEN Begin(w, "rename", Renames)
                                         ELSE Begin(w, "open", Overwrites)
            /\ UNCHANGED stats
    /\ UNCHANGED <<diskVars, scanVars, name, fd, lastVars>>

Open(w) ==
    /\ at[w] = "open"
    /\ IF Gone(w) THEN Failed(w) /\ UNCHANGED fd
       ELSE /\ IF File(w) \in readOnly
               THEN Goto(w, "chmod") /\ UNCHANGED fd
               ELSE Goto(w, "write") /\ fd' = [fd EXCEPT ![w] = File(w)]
            /\ UNCHANGED stats
    /\ UNCHANGED <<diskVars, scanVars, name, todo, lastVars>>

(* Mutant: after the chmod the file is removed without a second attempt.     *)
AfterChmodRename == "rename"

(* After the chmod, shred_file begins again. *)
AfterChmod == "stat"

Chmod(w) ==
    /\ at[w] = "chmod"
    /\ IF ~Gone(w) /\ File(w) \in Owned
       THEN readOnly' = readOnly \ {File(w)} /\ Goto(w, AfterChmod) /\ UNCHANGED stats
       ELSE Failed(w) /\ UNCHANGED readOnly
    /\ UNCHANGED <<entry, data, drawn, scanVars, name, fd, todo, lastVars>>

Fill(w, d) == data' = [data EXCEPT ![fd[w]] = d]

(* The first chunk of a pass, and the rest of it. *)
WriteSome(w) ==
    /\ at[w] = "write"
    /\ Goto(w, "pass")
    /\ Fill(w, IF Held(fd[w]) THEN "partly" ELSE "clean")
    /\ UNCHANGED <<entry, readOnly, drawn, scanVars, name, fd, todo, stats, lastVars>>

(* Mutant: one pass too many. *)
PassDoneLate(w) ==
    /\ todo' = [todo EXCEPT ![w] = @ - 1]
    /\ Goto(w, IF todo[w] = 0 THEN "truncate" ELSE "write")

PassDone(w) ==
    /\ todo' = [todo EXCEPT ![w] = @ - 1]
    /\ Goto(w, IF todo[w] = 1 THEN "truncate" ELSE "write")

WriteRest(w) ==
    /\ at[w] = "pass"
    /\ Fill(w, "clean")
    /\ PassDone(w)
    /\ UNCHANGED <<entry, readOnly, drawn, scanVars, name, fd, stats, lastVars>>

(* write() took fewer bytes than it was given, which nobody looks at. *)
WriteShort(w) ==
    /\ at[w] = "pass"
    /\ mishaps > 0 /\ mishaps' = mishaps - 1
    /\ short' = TRUE
    /\ PassDone(w)
    /\ UNCHANGED <<diskVars, scanVars, name, fd, stats, job, locked, exposed>>

(* An error of lseek or write: the file is closed and keeps its name. *)
WriteFails(w) ==
    /\ at[w] \in {"write", "pass"}
    /\ Mishap
    /\ Failed(w)
    /\ UNCHANGED <<diskVars, scanVars, name, fd, todo>>

(* ftruncate, whose error is ignored, and close. *)
Truncate(w) ==
    /\ at[w] = "truncate"
    /\ Begin(w, "rename", Renames)
    /\ \/ /\ Fill(w, "zero") /\ Exposing(fd[w])
          /\ UNCHANGED <<job, locked, mishaps, short>>
       \/ Mishap /\ UNCHANGED data
    /\ UNCHANGED <<entry, readOnly, drawn, scanVars, name, fd, stats>>

-----------------------------------------------------------------------------
(* _obfuscate_and_unlink.                                                    *)

(* os.rename in the same directory, to the next random name. *)
Rename(w) ==
    /\ at[w] = "rename"
    /\ ~Gone(w) /\ ~locked
    /\ drawn < MaxDrawn
    /\ drawn' = drawn + 1
    /\ entry' = [entry EXCEPT ![name[w]] = None, ![drawn'] = File(w)]
    /\ name' = [name EXCEPT ![w] = drawn']
    /\ Begin(w, IF todo[w] = 1 THEN "unlink" ELSE "rename", todo[w] - 1)
    /\ UNCHANGED <<data, readOnly, scanVars, fd, stats, lastVars>>

(* Mutant: a name that cannot be changed is taken for one that is gone. *)
AfterRenameFailsReturn(w) == Deleted(w)

(* Mutant: the renaming is tried until it works. *)
AfterRenameFailsAgain(w) == UNCHANGED <<at, stats>>

AfterRenameFails(w) == Goto(w, "unlink") /\ UNCHANGED stats

RenameFails(w) ==
    /\ at[w] = "rename"
    /\ ((Gone(w) \/ locked) /\ UNCHANGED lastVars) \/ Mishap
    /\ AfterRenameFails(w)
    /\ UNCHANGED <<diskVars, scanVars, name, fd, todo>>

(* A name that is gone by now is no error. *)
Unlink(w) ==
    /\ at[w] = "unlink"
    /\ IF Gone(w) THEN UNCHANGED <<entry, exposed>>
       ELSE ~locked /\ entry' = [entry EXCEPT ![name[w]] = None] /\ Exposing(File(w))
    /\ Deleted(w)
    /\ UNCHANGED <<data, readOnly, drawn, scanVars, name, fd, todo, job, locked, mishaps, short>>

UnlinkFails(w) ==
    /\ at[w] = "unlink"
    /\ ~Gone(w)
    /\ (locked /\ UNCHANGED lastVars) \/ Mishap
    /\ Failed(w)
    /\ UNCHANGED <<diskVars, scanVars, name, fd, todo>>

Step(w) ==
    \/ \E n \in Entries : Take(w, n)
    \/ Stat(w) \/ Open(w) \/ Chmod(w) \/ WriteSome(w) \/ WriteRest(w) \/ Truncate(w)
    \/ Rename(w) \/ RenameFails(w) \/ Unlink(w) \/ UnlinkFails(w)

(* Every name that was there is through, and no worker has anything to do.   *)
Done == Names \subseteq given /\ queue = {} /\ \A w \in Workers : at[w] = "idle"

Finished == Done /\ UNCHANGED vars

Next ==
    \/ \E n \in Entries : Scan(n)
    \/ \E w \in Workers : Step(w) \/ WriteShort(w) \/ WriteFails(w)
    \/ Finished

Spec == Init /\ [][Next]_vars

(* Every worker runs, and the scanner comes to what was there. *)
FairSpec ==
    /\ Spec
    /\ WF_vars(\E n \in Names : Scan(n))
    /\ \A w \in Workers : WF_vars(Step(w))

-----------------------------------------------------------------------------
(* Properties.                                                               *)

(* Every variable holds what the code can put there. *)
TypeOK ==
    /\ job \in Jobs /\ locked \in BOOLEAN
    /\ entry \in [Entries -> Files \cup {None}]
    /\ data \in [Files -> {"secret", "partly", "clean", "zero"}]
    /\ readOnly \subseteq Files
    /\ drawn \in 0 .. MaxDrawn
    /\ given \subseteq Entries /\ queue \subseteq given
    /\ at \in [Workers -> {"idle", "stat", "open", "chmod", "write", "pass", "truncate",
                           "rename", "unlink"}]
    /\ name \in [Workers -> Entries \cup {None}] /\ fd \in [Workers -> Files \cup {None}]
    /\ todo \in [Workers -> Nat]
    /\ stats \in [{"deleted", "failed"} -> Nat]
    /\ mishaps \in 0 .. Mishaps
    /\ short \in BOOLEAN /\ exposed \subseteq Files

(* No file is truncated or loses a name while it still holds some of its     *)
(* content: not after a retry with another mode, after a failed call, or     *)
(* when two workers have the same file under two names.  Only a short write  *)
(* makes an exception, because shred_file does not look at what os.write     *)
(* returns.                                                                  *)
WipedFirst == ~short => exposed = {}

Left == {n \in Entries : entry[n] # None}

(* Every name the scanner yielded is counted once, a name that is left in    *)
(* the directory, be it a random one, is a failure that was counted, and     *)
(* unless the scan met a random name the numbers are those of the files.     *)
Accounted ==
    Done =>
        /\ stats.deleted + stats.failed = Cardinality(given)
        /\ Cardinality(Left) <= stats.failed
        /\ given = Names => Cardinality(Left) = stats.failed

(* Once the directory stream hands out nothing more, the pool comes to an    *)
(* end: no retry, rename or failure keeps a worker busy for ever.  That the  *)
(* stream comes to its end is not claimed: each random name that it hands    *)
(* out makes up to Renames new ones.                                         *)
Terminates == <>[][UNCHANGED given]_vars => <>[]Done
=============================================================================
