---------------------------- MODULE ShredderProofs ----------------------------
(* No file is truncated or loses a name while it still holds some of its     *)
(* content, and the statistics tell what is left of the directory, for any   *)
(* number of workers, names, links, passes and failures.                     *)
EXTENDS Shredder, FiniteSetTheorems, TLAPS

(* The part of TypeOK the argument needs. *)
Shape ==
    /\ entry \in [Entries -> Files \cup {None}]
    /\ data \in [Files -> {"secret", "partly", "clean", "zero"}]
    /\ drawn \in Nat
    /\ at \in [Workers -> {"idle", "stat", "open", "chmod", "write", "pass", "truncate",
                           "rename", "unlink"}]
    /\ name \in [Workers -> Entries \cup {None}]
    /\ fd \in [Workers -> Files \cup {None}]
    /\ DOMAIN todo = Workers

(* The names that are or were in the directory.                              *)
Used == Entries \cap (Names \cup 1 .. drawn)

(* No other name is in use or in anybody's hands, so that a path never comes *)
(* to lead to another file than the one that was opened through it.          *)
NamesUsed ==
    /\ \A n \in Entries : entry[n] # None => n \in Used
    /\ queue \subseteq Used
    /\ \A w \in Workers : at[w] # "idle" => name[w] \in Used

(* A worker writes to the file its path leads to, unless that one moved on.  *)
SameFile ==
    \A w \in Workers : at[w] \in {"write", "pass", "truncate"} =>
        fd[w] \in Files /\ entry[name[w]] \in {None, fd[w]}

(* Where a worker is past the overwriting, the content is gone.              *)
Wiped ==
    ~short =>
        /\ exposed = {}
        /\ \A w \in Workers :
               /\ at[w] = "truncate" => ~Held(fd[w])
               /\ at[w] \in {"rename", "unlink"} => Gone(w) \/ ~Held(File(w))

WInv == Shape /\ NamesUsed /\ SameFile /\ Wiped

(* The number of random names is a number.                                   *)
LEMMA MaxDrawnType == MaxDrawn \in Nat
  <1>1. Cardinality(Names) \in Nat
    BY FS_CardinalityType, ShredderAssumption
  <1>2. Cardinality(Names) + MaxMet \in Nat
    BY <1>1, ShredderAssumption
  <1>3. \A m, n \in Nat : m * n \in Nat
    OBVIOUS
  <1> QED
    BY <1>2, <1>3, ShredderAssumption DEF MaxDrawn

(* The directory as it is before the first worker starts.                    *)
LEMMA WInvInit == Init => WInv
  <1> SUFFICES ASSUME Init PROVE WInv
    OBVIOUS
  <1> USE DEF Init
  <1>1. Shape
    BY ShredderAssumption DEF Shape, Entries
  <1>2. NamesUsed
    BY ShredderAssumption DEF NamesUsed, Used, Entries
  <1>3. SameFile /\ Wiped
    BY DEF SameFile, Wiped
  <1> QED
    BY <1>1, <1>2, <1>3 DEF WInv

(* The scanner and a worker that takes a name change no file.                *)
LEMMA WInvTake ==
    ASSUME WInv, NEW n \in Entries,
           Scan(n) \/ \E w \in Workers : Take(w, n)
    PROVE  WInv'
  <1> USE DEF WInv, Held, File, Gone, diskVars, handVars, lastVars
  <1>1. CASE Scan(n)
    <2> USE <1>1 DEF Scan
    <2>1. NamesUsed'
      BY DEF NamesUsed, Used
    <2> QED
      BY <2>1 DEF Shape, SameFile, Wiped
  <1>2. ASSUME NEW w \in Workers, Take(w, n) PROVE WInv'
    <2> USE <1>2 DEF Take, Goto
    <2>1. Shape'
      BY DEF Shape
    <2>2. NamesUsed'
      BY DEF NamesUsed, Used, Shape
    <2>3. SameFile'
      BY DEF SameFile, Shape
    <2>4. Wiped'
      BY DEF Wiped, Shape
    <2> QED
      BY <2>1, <2>2, <2>3, <2>4
  <1> QED
    BY <1>1, <1>2

(* lstat, open and chmod change no content; past the overwriting they lead   *)
(* only with a file that holds none.                                         *)
LEMMA WInvEnter ==
    ASSUME WInv, NEW w \in Workers, Stat(w) \/ Open(w) \/ Chmod(w)
    PROVE  WInv'
  <1> USE DEF WInv, Held, File, Gone, diskVars, handVars, scanVars, lastVars, Goto, Tally,
              Deleted, Failed, Begin
  <1>1. CASE Stat(w)
    <2> USE <1>1 DEF Stat
    <2>1. Shape'
      BY DEF Shape
    <2>2. NamesUsed'
      BY DEF NamesUsed, Used, Shape
    <2>3. SameFile'
      BY DEF SameFile, Shape
    <2>4. Wiped'
      BY DEF Wiped, Shape
    <2> QED
      BY <2>1, <2>2, <2>3, <2>4
  <1>2. CASE Open(w)
    <2> USE <1>2 DEF Open
    <2>0. at[w] # "idle" /\ name[w] \in Entries
      BY DEF NamesUsed, Used, Shape
    <2>1. Shape'
      BY <2>0 DEF Shape
    <2>2. NamesUsed'
      BY DEF NamesUsed, Used, Shape
    <2>3. SameFile'
      BY <2>0 DEF SameFile, Shape
    <2>4. Wiped'
      BY DEF Wiped, Shape
    <2> QED
      BY <2>1, <2>2, <2>3, <2>4
  <1>3. CASE Chmod(w)
    <2> USE <1>3 DEF Chmod, AfterChmod
    <2>1. Shape'
      BY DEF Shape
    <2>2. NamesUsed'
      BY DEF NamesUsed, Used, Shape
    <2>3. SameFile'
      BY DEF SameFile, Shape
    <2>4. Wiped'
      BY DEF Wiped, Shape
    <2> QED
      BY <2>1, <2>2, <2>3, <2>4
  <1> QED
    BY <1>1, <1>2, <1>3

(* What a worker writes never is the content of a file, so a file that holds *)
(* none stays so; a worker leaves the last pass only when it has written all *)
(* of it, or after a short write.                                            *)
LEMMA WInvWrite ==
    ASSUME WInv, NEW w \in Workers,
           WriteSome(w) \/ WriteRest(w) \/ WriteShort(w) \/ WriteFails(w) \/ Truncate(w)
    PROVE  WInv'
  <1> USE DEF WInv, Held, File, Gone, scanVars, lastVars, Goto, Fill, PassDone, Begin, Tally,
              Failed, Mishap, Exposing
  <1>1. CASE WriteSome(w)
    <2> USE <1>1 DEF WriteSome
    <2>1. Shape'
      BY DEF Shape
    <2>2. NamesUsed'
      BY DEF NamesUsed, Used, Shape
    <2>3. SameFile'
      BY DEF SameFile, Shape
    <2>4. Wiped'
      BY DEF Wiped, Shape, SameFile
    <2> QED
      BY <2>1, <2>2, <2>3, <2>4
  <1>2. CASE WriteRest(w)
    <2> USE <1>2 DEF WriteRest
    <2>1. Shape'
      BY DEF Shape
    <2>2. NamesUsed'
      BY DEF NamesUsed, Used, Shape
    <2>3. SameFile'
      BY DEF SameFile, Shape
    <2>4. Wiped'
      BY DEF Wiped, Shape, SameFile
    <2> QED
      BY <2>1, <2>2, <2>3, <2>4
  <1>3. CASE WriteShort(w)
    <2> USE <1>3 DEF WriteShort, diskVars
    <2>1. Shape'
      BY DEF Shape
    <2>2. NamesUsed'
      BY DEF NamesUsed, Used, Shape
    <2>3. SameFile'
      BY DEF SameFile, Shape
    <2>4. Wiped'
      BY DEF Wiped
    <2> QED
      BY <2>1, <2>2, <2>3, <2>4
  <1>4. CASE WriteFails(w)
    <2> USE <1>4 DEF WriteFails, diskVars
    <2>1. Shape'
      BY DEF Shape
    <2>2. NamesUsed'
      BY DEF NamesUsed, Used, Shape
    <2>3. SameFile'
      BY DEF SameFile, Shape
    <2>4. Wiped'
      BY DEF Wiped, Shape
    <2> QED
      BY <2>1, <2>2, <2>3, <2>4
  <1>5. CASE Truncate(w)
    <2> USE <1>5 DEF Truncate
    <2>1. Shape'
      BY DEF Shape
    <2>2. NamesUsed'
      BY DEF NamesUsed, Used, Shape
    <2>3. SameFile'
      BY DEF SameFile, Shape
    <2>4. \A f \in Files : Held(f)' => Held(f)
      BY DEF Shape
    <2>5. fd[w] \in Files
      BY DEF SameFile
    <2>6. ~short' => ~short /\ exposed' = {}
      BY <2>5 DEF Wiped
    <2>7. \A v \in Workers : File(v) # None /\ at[v] \in {"rename", "unlink"} => File(v) \in Files
      BY DEF Shape, NamesUsed, Used
    <2>8. ASSUME ~short', NEW v \in Workers
          PROVE  /\ at'[v] = "truncate" => ~Held(fd[v])'
                 /\ at'[v] \in {"rename", "unlink"} => Gone(v)' \/ ~Held(File(v))'
      <3>1. CASE v # w
        BY <3>1, <2>4, <2>6, <2>7, <2>8 DEF Wiped, Shape, SameFile
      <3>2. CASE v = w
        <4>1. at'[w] = "rename" /\ entry' = entry /\ name' = name /\ fd' = fd
          BY DEF Shape
        <4>2. ~Held(fd[w])'
          BY <2>4, <2>5, <2>6, <2>8 DEF Wiped
        <4>3. entry[name[w]] \in {None, fd[w]}
          BY DEF SameFile
        <4> QED
          BY <3>2, <4>1, <4>2, <4>3
      <3> QED
        BY <3>1, <3>2
    <2>9. Wiped'
      BY <2>6, <2>8 DEF Wiped
    <2> QED
      BY <2>1, <2>2, <2>3, <2>9
  <1> QED
    BY <1>1, <1>2, <1>3, <1>4, <1>5

(* A rename takes a file without content to a name nobody has in hands.      *)
LEMMA WInvRename ==
    ASSUME WInv, NEW w \in Workers, Rename(w)
    PROVE  WInv'
  <1> USE DEF WInv, Held, File, Gone, scanVars, lastVars, Goto, Begin, Rename
  <1> DEFINE new == drawn + 1
  <1>1. new \in Entries /\ new \notin Used
    BY MaxDrawnType, ShredderAssumption DEF Shape, Entries, Randoms, Used
  <1>2. name[w] \in Used /\ name[w] \in Entries /\ name[w] # new
    BY <1>1 DEF NamesUsed, Used
  <1>3. entry[name[w]] \in Files
    BY <1>2 DEF Shape
  <1>4. /\ entry' = [entry EXCEPT ![name[w]] = None, ![new] = entry[name[w]]]
        /\ name' = [name EXCEPT ![w] = new]
    OBVIOUS
  <1>5. Shape'
    BY <1>1, <1>3, <1>4 DEF Shape
  <1>6. Used \subseteq Used' /\ new \in Used'
    BY <1>1 DEF Used, Shape
  <1>7. NamesUsed'
    <2>1. \A n \in Entries : entry'[n] # None => n \in Used'
      BY <1>4, <1>6 DEF NamesUsed, Shape
    <2>2. queue' \subseteq Used'
      BY <1>6 DEF NamesUsed
    <2>3. ASSUME NEW v \in Workers, at'[v] # "idle" PROVE name'[v] \in Used'
      BY <2>3, <1>4, <1>6 DEF NamesUsed, Shape
    <2> QED
      BY <2>1, <2>2, <2>3 DEF NamesUsed
  <1>8. \A v \in Workers \ {w} : at[v] # "idle" =>
            name'[v] = name[v] /\ entry'[name[v]] \in {None, entry[name[v]]}
    BY <1>1, <1>2, <1>4 DEF NamesUsed, Used, Shape
  <1>9. SameFile'
    <2> SUFFICES ASSUME NEW v \in Workers, at'[v] \in {"write", "pass", "truncate"}
                 PROVE  fd'[v] \in Files /\ entry'[name'[v]] \in {None, fd'[v]}
      BY DEF SameFile
    <2>1. v # w /\ at[v] = at'[v] /\ fd'[v] = fd[v]
      BY DEF Shape
    <2>2. fd[v] \in Files /\ entry[name[v]] \in {None, fd[v]}
      BY <2>1 DEF SameFile
    <2>3. name'[v] = name[v] /\ entry'[name[v]] \in {None, entry[name[v]]}
      BY <2>1, <1>8
    <2> QED
      BY <2>1, <2>2, <2>3
  <1>10. entry'[name'[w]] = entry[name[w]]
    BY <1>1, <1>2, <1>4 DEF Shape
  <1>11. Wiped'
    <2> SUFFICES ASSUME ~short, NEW v \in Workers
                 PROVE  /\ exposed = {}
                        /\ at'[v] = "truncate" => ~Held(fd[v])
                        /\ at'[v] \in {"rename", "unlink"} =>
                               entry'[name'[v]] = None \/ ~Held(entry'[name'[v]])
      BY DEF Wiped
    <2>1. exposed = {}
      BY DEF Wiped
    <2>2. CASE v = w
      <3>1. ~Held(entry[name[w]])
        BY DEF Wiped
      <3>2. at'[w] \in {"rename", "unlink"}
        BY DEF Shape
      <3> QED
        BY <2>1, <2>2, <3>1, <3>2, <1>10
    <2>3. CASE v # w
      <3>1. at'[v] = at[v]
        BY <2>3 DEF Shape
      <3>2. /\ at[v] = "truncate" => ~Held(fd[v])
            /\ at[v] \in {"rename", "unlink"} => entry[name[v]] = None \/ ~Held(entry[name[v]])
        BY DEF Wiped
      <3>3. at[v] # "idle" =>
                name'[v] = name[v] /\ entry'[name[v]] \in {None, entry[name[v]]}
        BY <2>3, <1>8
      <3> QED
        BY <2>1, <3>1, <3>2, <3>3
    <2> QED
      BY <2>2, <2>3
  <1> QED
    BY <1>5, <1>7, <1>9, <1>11

(* A name is unlinked only past the overwriting.                             *)
LEMMA WInvUnlink ==
    ASSUME WInv, NEW w \in Workers, RenameFails(w) \/ Unlink(w) \/ UnlinkFails(w)
    PROVE  WInv'
  <1> USE DEF WInv, Held, File, Gone, scanVars, diskVars, lastVars, Goto, Tally, Deleted,
              Failed, Mishap, Exposing
  <1>1. CASE RenameFails(w)
    <2> USE <1>1 DEF RenameFails, AfterRenameFails
    <2>1. Shape'
      BY DEF Shape
    <2>2. NamesUsed'
      BY DEF NamesUsed, Used, Shape
    <2>3. SameFile'
      BY DEF SameFile, Shape
    <2>4. Wiped'
      BY DEF Wiped, Shape
    <2> QED
      BY <2>1, <2>2, <2>3, <2>4
  <1>2. CASE Unlink(w)
    <2> USE <1>2 DEF Unlink
    <2>0. at[w] # "idle" /\ name[w] \in Entries
      BY DEF NamesUsed, Used, Shape
    <2>1. Shape'
      BY <2>0 DEF Shape
    <2>2. \A n \in Entries : entry'[n] \in {None, entry[n]}
      BY <2>0 DEF Shape
    <2>3. NamesUsed'
      BY <2>2 DEF NamesUsed, Used, Shape
    <2>4. SameFile'
      BY <2>2 DEF SameFile, NamesUsed, Used, Shape
    <2>5. Wiped'
      BY <2>0, <2>2 DEF Wiped, NamesUsed, Used, Shape
    <2> QED
      BY <2>1, <2>3, <2>4, <2>5
  <1>3. CASE UnlinkFails(w)
    <2> USE <1>3 DEF UnlinkFails
    <2>1. Shape'
      BY DEF Shape
    <2>2. NamesUsed'
      BY DEF NamesUsed, Used, Shape
    <2>3. SameFile'
      BY DEF SameFile, Shape
    <2>4. Wiped'
      BY DEF Wiped, Shape
    <2> QED
      BY <2>1, <2>2, <2>3, <2>4
  <1> QED
    BY <1>1, <1>2, <1>3

(* Every step of the scanner and of the workers keeps the invariant.         *)
LEMMA WInvNext == WInv /\ [Next]_vars => WInv'
  <1> SUFFICES ASSUME WInv, [Next]_vars PROVE WInv'
    OBVIOUS
  <1>1. ASSUME NEW n \in Entries, Scan(n) PROVE WInv'
    BY <1>1, WInvTake
  <1>2. ASSUME NEW w \in Workers, Step(w) PROVE WInv'
    BY <1>2, WInvTake, WInvEnter, WInvWrite, WInvRename, WInvUnlink DEF Step
  <1>3. ASSUME NEW w \in Workers, WriteShort(w) \/ WriteFails(w) PROVE WInv'
    BY <1>3, WInvWrite
  <1>4. CASE UNCHANGED vars
    BY <1>4 DEF vars, diskVars, scanVars, handVars, lastVars, WInv, Shape, NamesUsed, Used,
                SameFile, Wiped, Held, File, Gone
  <1> QED
    BY <1>1, <1>2, <1>3, <1>4 DEF Next, Finished

(* shred_file overwrites before it truncates, renames and unlinks: whatever  *)
(* fails, however often it starts again after a chmod, and whoever else has  *)
(* the same file in hands, only a short write can expose content.            *)
THEOREM WipedBeforeUnlink == Spec => []WipedFirst
  <1>1. WInv => WipedFirst
    BY DEF WInv, Wiped, WipedFirst
  <1> QED
    BY <1>1, WInvInit, WInvNext, PTL DEF Spec

-----------------------------------------------------------------------------
(* The types, and how often a worker goes round its loops.                   *)

(* A worker that has a pass or a rename to do has one left.                  *)
Positive == \A w \in Workers : at[w] \in {"open", "write", "pass", "rename"} => todo[w] > 0

TInv == TypeOK /\ Positive

(* Every method makes a pass at least, whatever --shred-passes says.         *)
LEMMA SomePass == job \in Jobs => Overwrites \in Nat \ {0}
  <1> SUFFICES ASSUME job \in Jobs PROVE Overwrites \in Nat \ {0}
    OBVIOUS
  <1>1. job.passes \in Nat \cup {None}
    BY ShredderAssumption
  <1>2. NumPasses(job.method, job.passes) \in Nat \ {0}
    <2>1. CASE job.passes # None /\ job.passes > 0
      BY <1>1, <2>1 DEF NumPasses
    <2>2. CASE ~(job.passes # None /\ job.passes > 0)
      BY <2>2 DEF NumPasses
    <2> QED
      BY <2>1, <2>2
  <1> QED
    BY <1>2 DEF Overwrites

(* The directory as it is before the first worker starts.                    *)
LEMMA TInvInit == Init => TInv
  <1> SUFFICES ASSUME Init PROVE TInv
    OBVIOUS
  <1> USE DEF Init
  <1>1. Shape
    BY WInvInit DEF WInv
  <1>2. stats \in [{"deleted", "failed"} -> Nat]
    OBVIOUS
  <1>3. drawn \in 0 .. MaxDrawn /\ mishaps \in 0 .. Mishaps
    BY MaxDrawnType, ShredderAssumption
  <1>4. readOnly \subseteq Files
    BY ShredderAssumption
  <1>5. TypeOK
    BY <1>1, <1>2, <1>3, <1>4 DEF TypeOK, Shape
  <1> QED
    BY <1>5 DEF TInv, Positive

(* A step keeps what the first invariant says, so only the rest of TypeOK is *)
(* to be shown; the names handed out and left waiting are the scanner's.     *)
LEMMA TInvTake ==
    ASSUME WInv, WInv', TInv, NEW n \in Entries,
           Scan(n) \/ \E w \in Workers : Take(w, n)
    PROVE  TInv'
  <1> USE DEF TInv, diskVars, handVars, lastVars
  <1>0. Shape'
    BY DEF WInv
  <1>1. CASE Scan(n)
    BY <1>0, <1>1 DEF Scan, TypeOK, Positive, Shape
  <1>2. ASSUME NEW w \in Workers, Take(w, n) PROVE TInv'
    <2>1. TypeOK'
      BY <1>0, <1>2 DEF Take, TypeOK, Shape
    <2>2. Positive'
      BY <1>2 DEF Take, Goto, TypeOK, Positive
    <2> QED
      BY <2>1, <2>2
  <1> QED
    BY <1>1, <1>2

(* A name that is done with adds one to a counter. *)
LEMMA TInvTally ==
    ASSUME TInv, NEW w \in Workers, Deleted(w) \/ Failed(w)
    PROVE  /\ stats' \in [{"deleted", "failed"} -> Nat]
           /\ at' = [at EXCEPT ![w] = "idle"]
  BY DEF TInv, TypeOK, Deleted, Failed, Tally, Goto

(* lstat, open and chmod start a loop with as many rounds as it has.         *)
LEMMA TInvEnter ==
    ASSUME WInv, WInv', TInv, NEW w \in Workers, Stat(w) \/ Open(w) \/ Chmod(w)
    PROVE  TInv'
  <1> USE DEF TInv, diskVars, scanVars, lastVars
  <1>0. Shape'
    BY DEF WInv
  <1>1. CASE Stat(w)
    <2> USE <1>1
    <2>1. Overwrites \in Nat \ {0} /\ Renames \in Nat \ {0}
      BY SomePass, ShredderAssumption DEF TypeOK
    <2> HIDE DEF Overwrites
    <2>2. CASE Gone(w)
      <3>1. stats' \in [{"deleted", "failed"} -> Nat] /\ at' = [at EXCEPT ![w] = "idle"]
        BY <2>2, TInvTally DEF Stat
      <3>2. todo' = todo
        BY <2>2 DEF Stat
      <3>3. TypeOK'
        BY <1>0, <3>1, <3>2 DEF Stat, TypeOK, Shape
      <3>4. Positive'
        BY <3>1, <3>2 DEF Positive, TypeOK
      <3> QED
        BY <3>3, <3>4
    <2>3. CASE ~Gone(w)
      <3>1. PICK k \in Nat \ {0}, s \in {"rename", "open"} :
                at' = [at EXCEPT ![w] = s] /\ todo' = [todo EXCEPT ![w] = k] /\ stats' = stats
        BY <2>1, <2>3 DEF Stat, Begin, Goto
      <3>2. TypeOK'
        BY <1>0, <3>1 DEF Stat, TypeOK, Shape
      <3>3. Positive'
        BY <3>1 DEF Positive, TypeOK
      <3> QED
        BY <3>2, <3>3
    <2> QED
      BY <2>2, <2>3
  <1>2. CASE Open(w)
    <2> USE <1>2
    <2>1. stats' \in [{"deleted", "failed"} -> Nat]
      BY TInvTally DEF Open, TypeOK
    <2>2. TypeOK'
      BY <1>0, <2>1 DEF Open, TypeOK, Shape
    <2>3. PICK s \in {"idle", "chmod", "write"} : at' = [at EXCEPT ![w] = s]
      BY DEF Open, Failed, Tally, Goto
    <2>4. Positive'
      BY <2>3 DEF Open, Positive, TypeOK
    <2> QED
      BY <2>2, <2>4
  <1>3. CASE Chmod(w)
    <2> USE <1>3
    <2>1. stats' \in [{"deleted", "failed"} -> Nat]
      BY TInvTally DEF Chmod, TypeOK
    <2>2. readOnly' \subseteq readOnly
      BY DEF Chmod
    <2>3. TypeOK'
      BY <1>0, <2>1, <2>2 DEF Chmod, TypeOK, Shape
    <2>4. PICK s \in {"idle", "stat"} : at' = [at EXCEPT ![w] = s]
      BY DEF Chmod, AfterChmod, Failed, Tally, Goto
    <2>5. Positive'
      BY <2>4 DEF Chmod, Positive, TypeOK
    <2> QED
      BY <2>3, <2>5
  <1> QED
    BY <1>1, <1>2, <1>3

(* A pass that is done leaves one less to do, and the last one leaves the    *)
(* loop.                                                                     *)
LEMMA TInvPass ==
    ASSUME TInv, NEW w \in Workers, at[w] = "pass", PassDone(w)
    PROVE  todo' \in [Workers -> Nat] /\ Positive'
  <1>1. todo[w] \in Nat /\ todo[w] > 0
    BY DEF TInv, TypeOK, Positive
  <1>2. PICK k \in Nat : k = todo[w] - 1
    BY <1>1
  <1>3. todo' = [todo EXCEPT ![w] = k]
    BY <1>2 DEF PassDone
  <1>4. PICK s \in {"truncate", "write"} : at' = [at EXCEPT ![w] = s] /\ (s = "write" => k > 0)
    <2>1. CASE todo[w] = 1
      <3>1. at' = [at EXCEPT ![w] = "truncate"]
        BY <2>1 DEF PassDone, Goto
      <3> QED
        BY <3>1
    <2>2. CASE todo[w] # 1
      <3>1. at' = [at EXCEPT ![w] = "write"]
        BY <2>2 DEF PassDone, Goto
      <3>2. k > 0
        BY <1>1, <1>2, <2>2
      <3> QED
        BY <3>1, <3>2
    <2> QED
      BY <2>1, <2>2
  <1>5. todo' \in [Workers -> Nat]
    BY <1>2, <1>3 DEF TInv, TypeOK
  <1>6. Positive'
    BY <1>2, <1>3, <1>4 DEF TInv, TypeOK, Positive
  <1> QED
    BY <1>5, <1>6

(* A file that is truncated or unlinked is a file.                           *)
LEMMA TInvExposing ==
    ASSUME TInv, NEW f \in Files, Exposing(f)
    PROVE  exposed' \subseteq Files
  BY DEF TInv, TypeOK, Exposing

(* The mishaps run out.                                                      *)
LEMMA TInvMishap ==
    ASSUME TInv, mishaps > 0, mishaps' = mishaps - 1
    PROVE  mishaps' \in 0 .. Mishaps
  BY ShredderAssumption DEF TInv, TypeOK

(* Writing and truncating.                                                   *)
LEMMA TInvWrite ==
    ASSUME WInv, WInv', TInv, NEW w \in Workers,
           WriteSome(w) \/ WriteRest(w) \/ WriteShort(w) \/ WriteFails(w) \/ Truncate(w)
    PROVE  TInv'
  <1> USE DEF TInv, diskVars, scanVars
  <1>0. Shape'
    BY DEF WInv
  <1>1. CASE WriteSome(w)
    <2>1. TypeOK'
      BY <1>0, <1>1 DEF WriteSome, TypeOK, Shape, lastVars
    <2>2. Positive'
      BY <1>1 DEF WriteSome, Goto, Positive, TypeOK
    <2> QED
      BY <2>1, <2>2
  <1>2. CASE WriteRest(w)
    <2>1. todo' \in [Workers -> Nat] /\ Positive'
      BY <1>2, TInvPass DEF WriteRest
    <2>2. TypeOK'
      BY <1>0, <1>2, <2>1 DEF WriteRest, TypeOK, Shape, lastVars
    <2> QED
      BY <2>1, <2>2
  <1>3. CASE WriteShort(w)
    <2>1. todo' \in [Workers -> Nat] /\ Positive'
      BY <1>3, TInvPass DEF WriteShort
    <2>2. mishaps' \in 0 .. Mishaps
      BY <1>3, TInvMishap DEF WriteShort
    <2>3. TypeOK'
      BY <1>0, <1>3, <2>1, <2>2 DEF WriteShort, TypeOK, Shape
    <2> QED
      BY <2>1, <2>3
  <1>4. CASE WriteFails(w)
    <2>1. stats' \in [{"deleted", "failed"} -> Nat] /\ at' = [at EXCEPT ![w] = "idle"]
      BY <1>4, TInvTally DEF WriteFails
    <2>2. mishaps' \in 0 .. Mishaps
      BY <1>4, TInvMishap DEF WriteFails, Mishap
    <2>3. TypeOK'
      BY <1>0, <1>4, <2>1, <2>2 DEF WriteFails, Mishap, TypeOK, Shape
    <2>4. Positive'
      BY <1>4, <2>1 DEF WriteFails, Positive, TypeOK
    <2> QED
      BY <2>3, <2>4
  <1>5. CASE Truncate(w)
    <2>1. fd[w] \in Files
      BY <1>5 DEF Truncate, WInv, SameFile
    <2>2. exposed' \subseteq Files
      BY <1>5, <2>1, TInvExposing DEF Truncate, Mishap, TypeOK
    <2>3. mishaps' \in 0 .. Mishaps
      BY <1>5, TInvMishap DEF Truncate, Mishap, TypeOK
    <2>4. job' = job /\ locked' = locked /\ short' = short
      BY <1>5 DEF Truncate, Mishap
    <2>5. todo' = [todo EXCEPT ![w] = Renames] /\ at' = [at EXCEPT ![w] = "rename"]
      BY <1>5 DEF Truncate, Begin, Goto
    <2>6. TypeOK'
      BY <1>0, <1>5, <2>2, <2>3, <2>4, <2>5, ShredderAssumption DEF Truncate, TypeOK, Shape
    <2>7. Positive'
      BY <2>5, ShredderAssumption DEF Positive, TypeOK
    <2> QED
      BY <2>6, <2>7
  <1> QED
    BY <1>1, <1>2, <1>3, <1>4, <1>5

(* Renaming and unlinking.                                                   *)
LEMMA TInvUnlink ==
    ASSUME WInv, WInv', TInv, NEW w \in Workers,
           Rename(w) \/ RenameFails(w) \/ Unlink(w) \/ UnlinkFails(w)
    PROVE  TInv'
  <1> USE DEF TInv, diskVars, scanVars
  <1>0. Shape'
    BY DEF WInv
  <1>1. CASE Rename(w)
    <2>1. todo[w] \in Nat /\ todo[w] > 0
      BY <1>1 DEF Rename, TypeOK, Positive
    <2>2. PICK k \in Nat : k = todo[w] - 1
      BY <2>1
    <2>3. todo' = [todo EXCEPT ![w] = k]
      BY <1>1, <2>2 DEF Rename, Begin
    <2>4. PICK s \in {"unlink", "rename"} : at' = [at EXCEPT ![w] = s] /\ (s = "rename" => k > 0)
      <3>1. CASE todo[w] = 1
        <4>1. at' = [at EXCEPT ![w] = "unlink"]
          BY <1>1, <3>1 DEF Rename, Begin, Goto
        <4> QED
          BY <4>1
      <3>2. CASE todo[w] # 1
        <4>1. at' = [at EXCEPT ![w] = "rename"]
          BY <1>1, <3>2 DEF Rename, Begin, Goto
        <4>2. k > 0
          BY <2>1, <2>2, <3>2
        <4> QED
          BY <4>1, <4>2
      <3> QED
        BY <3>1, <3>2
    <2>5. drawn' \in 0 .. MaxDrawn
      BY <1>1, MaxDrawnType DEF Rename, TypeOK
    <2>6. TypeOK'
      BY <1>0, <1>1, <2>2, <2>3, <2>5 DEF Rename, TypeOK, Shape, lastVars
    <2>7. Positive'
      BY <2>2, <2>3, <2>4 DEF Positive, TypeOK
    <2> QED
      BY <2>6, <2>7
  <1>2. CASE RenameFails(w)
    <2>1. mishaps' \in 0 .. Mishaps
      BY <1>2, TInvMishap DEF RenameFails, Mishap, TypeOK, lastVars
    <2>2. job' = job /\ locked' = locked /\ short' = short /\ exposed' = exposed
      BY <1>2 DEF RenameFails, Mishap, lastVars
    <2>3. at' = [at EXCEPT ![w] = "unlink"] /\ stats' = stats
      BY <1>2 DEF RenameFails, AfterRenameFails, Goto
    <2>4. TypeOK'
      BY <1>0, <1>2, <2>1, <2>2, <2>3 DEF RenameFails, TypeOK, Shape
    <2>5. Positive'
      BY <1>2, <2>3 DEF RenameFails, Positive, TypeOK
    <2> QED
      BY <2>4, <2>5
  <1>3. CASE Unlink(w)
    <2>1. stats' \in [{"deleted", "failed"} -> Nat] /\ at' = [at EXCEPT ![w] = "idle"]
      BY <1>3, TInvTally DEF Unlink
    <2>2. ~Gone(w) => File(w) \in Files
      BY <1>3 DEF Unlink, WInv, Shape, NamesUsed, Used, File, Gone
    <2>3. exposed' \subseteq Files
      BY <1>3, <2>2, TInvExposing DEF Unlink, TypeOK
    <2>4. TypeOK'
      BY <1>0, <1>3, <2>1, <2>3 DEF Unlink, TypeOK, Shape
    <2>5. Positive'
      BY <1>3, <2>1 DEF Unlink, Positive, TypeOK
    <2> QED
      BY <2>4, <2>5
  <1>4. CASE UnlinkFails(w)
    <2>1. stats' \in [{"deleted", "failed"} -> Nat] /\ at' = [at EXCEPT ![w] = "idle"]
      BY <1>4, TInvTally DEF UnlinkFails
    <2>2. mishaps' \in 0 .. Mishaps
      BY <1>4, TInvMishap DEF UnlinkFails, Mishap, TypeOK, lastVars
    <2>3. job' = job /\ locked' = locked /\ short' = short /\ exposed' = exposed
      BY <1>4 DEF UnlinkFails, Mishap, lastVars
    <2>4. TypeOK'
      BY <1>0, <1>4, <2>1, <2>2, <2>3 DEF UnlinkFails, TypeOK, Shape
    <2>5. Positive'
      BY <1>4, <2>1 DEF UnlinkFails, Positive, TypeOK
    <2> QED
      BY <2>4, <2>5
  <1> QED
    BY <1>1, <1>2, <1>3, <1>4

(* Every step of the scanner and of the workers keeps the types.             *)
LEMMA TInvNext == WInv /\ WInv' /\ TInv /\ [Next]_vars => TInv'
  <1> SUFFICES ASSUME WInv, WInv', TInv, [Next]_vars PROVE TInv'
    OBVIOUS
  <1>1. ASSUME NEW n \in Entries, Scan(n) PROVE TInv'
    BY <1>1, TInvTake
  <1>2. ASSUME NEW w \in Workers, Step(w) PROVE TInv'
    BY <1>2, TInvTake, TInvEnter, TInvWrite, TInvUnlink DEF Step
  <1>3. ASSUME NEW w \in Workers, WriteShort(w) \/ WriteFails(w) PROVE TInv'
    BY <1>3, TInvWrite
  <1>4. CASE UNCHANGED vars
    BY <1>4 DEF vars, diskVars, scanVars, handVars, lastVars, TInv, TypeOK, Positive
  <1> QED
    BY <1>1, <1>2, <1>3, <1>4 DEF Next, Finished

(* Whatever fails and whoever else has the same file in hands, the variables *)
(* of shred_file and of the pool hold what the code can put there: no loop   *)
(* counter falls below zero.                                                 *)
THEOREM TypeCorrectness == Spec => []TypeOK
  <1>1. TInv => TypeOK
    BY DEF TInv
  <1> QED
    BY <1>1, WInvInit, WInvNext, TInvInit, TInvNext, PTL DEF Spec

-----------------------------------------------------------------------------
(* What is counted, and what stays in the directory.                         *)

(* The workers that have a name in hands, and those names.                   *)
Busy    == {w \in Workers : at[w] # "idle"}
InHands == {name[w] : w \in Busy}

(* The names somebody is still to deal with, and those in the directory that *)
(* nobody will come to any more.                                             *)
Waiting == (Names \ given) \cup queue
Orphans == Left \ (Waiting \cup InHands)

(* Every name the scanner yielded is waiting, in hands, or counted.          *)
Counted ==
    /\ IsFiniteSet(Busy)
    /\ stats.deleted + stats.failed + Cardinality(queue) + Cardinality(Busy)
           = Cardinality(given)

(* Each name nobody will come to is a failure.                               *)
Blamed == Cardinality(Orphans) <= stats.failed

(* While the scanner has met no random name, no two workers have a name in   *)
(* common, what is to be dealt with is there, and no failure is of a name    *)
(* that is gone.                                                             *)
Apart ==
    given \subseteq Names =>
        /\ Waiting \cup InHands \subseteq Left
        /\ \A v, w \in Busy : name[v] = name[w] => v = w
        /\ InHands \cap Waiting = {}
        /\ Cardinality(Orphans) = stats.failed

AInv == Counted /\ Blamed /\ Apart

(* There are finitely many names to come to.                                 *)
LEMMA EntriesFinite ==
    /\ IsFiniteSet(Entries)
    /\ \A S \in SUBSET Entries : IsFiniteSet(S) /\ Cardinality(S) \in Nat
  <1>1. IsFiniteSet(Randoms)
    BY MaxDrawnType, FS_Interval DEF Randoms
  <1>2. IsFiniteSet(Entries)
    BY <1>1, FS_Union, ShredderAssumption DEF Entries
  <1> QED
    BY <1>2, FS_Subset, FS_CardinalityType

(* The counters are numbers, and what is left is among the names.            *)
LEMMA Sizes ==
    ASSUME WInv, TInv
    PROVE  /\ stats.deleted \in Nat /\ stats.failed \in Nat
           /\ Cardinality(queue) \in Nat /\ Cardinality(given) \in Nat
           /\ IsFiniteSet(queue) /\ IsFiniteSet(given) /\ IsFiniteSet(Orphans)
           /\ Cardinality(Orphans) \in Nat
           /\ Left \subseteq Used /\ Orphans \subseteq Left /\ Used \subseteq Entries
           /\ InHands \subseteq Used /\ Names \subseteq Used /\ Waiting \subseteq Used
  <1>1. stats.deleted \in Nat /\ stats.failed \in Nat
    BY DEF TInv, TypeOK
  <1>2. queue \subseteq Entries /\ given \subseteq Entries
    BY DEF TInv, TypeOK
  <1>3. Left \subseteq Used /\ Orphans \subseteq Left /\ Used \subseteq Entries
    BY DEF WInv, NamesUsed, Left, Orphans, Used
  <1>4. InHands \subseteq Used
    BY DEF WInv, NamesUsed, InHands, Busy
  <1>5. Names \subseteq Used /\ Waiting \subseteq Used
    BY DEF WInv, NamesUsed, Waiting, Used, Entries
  <1>6. Orphans \in SUBSET Entries
    BY <1>3
  <1> QED
    BY <1>1, <1>2, <1>3, <1>4, <1>5, <1>6, EntriesFinite

(* At the start everything is there and nothing is given.                    *)
LEMMA AInvInit == Init => AInv
  <1> SUFFICES ASSUME Init PROVE AInv
    OBVIOUS
  <1>1. Busy = {} /\ InHands = {} /\ queue = {} /\ given = {}
    BY DEF Init, Busy, InHands
  <1>2. stats.deleted = 0 /\ stats.failed = 0
    BY DEF Init
  <1>3. Left = Names
    BY ShredderAssumption DEF Init, Left, Entries
  <1>4. Orphans = {} /\ Waiting = Names
    BY <1>1, <1>3 DEF Orphans, Waiting
  <1>5. Counted
    BY <1>1, <1>2, FS_EmptySet DEF Counted
  <1>6. Blamed
    BY <1>2, <1>4, FS_EmptySet DEF Blamed
  <1>7. Apart
    BY <1>1, <1>2, <1>3, <1>4, FS_EmptySet DEF Apart
  <1> QED
    BY <1>5, <1>6, <1>7 DEF AInv

(* A name the scanner yields waits in the queue.  If it is a random one that *)
(* nobody was to come to any more, one name less is without anybody.         *)
LEMMA AInvScan ==
    ASSUME WInv, TInv, AInv, NEW n \in Entries, Scan(n)
    PROVE  AInv'
  <1>1. /\ n \notin given /\ n \in Left
        /\ given' = given \cup {n} /\ queue' = queue \cup {n}
        /\ entry' = entry /\ at' = at /\ name' = name /\ stats' = stats
    BY DEF Scan, Left, diskVars, handVars, lastVars
  <1>2. Busy' = Busy /\ InHands' = InHands /\ Left' = Left
    BY <1>1 DEF Busy, InHands, Left
  <1>3. n \notin queue
    BY <1>1 DEF TInv, TypeOK
  <1>4. Waiting \subseteq Waiting' /\ Waiting' = Waiting \cup {n}
    BY <1>1 DEF Waiting
  <1>5. Orphans' \subseteq Orphans
    BY <1>2, <1>4 DEF Orphans
  <1>6. Counted'
    <2>1. Cardinality(queue') = Cardinality(queue) + 1 /\ Cardinality(given') = Cardinality(given) + 1
      BY <1>1, <1>3, Sizes, FS_AddElement
    <2>2. Cardinality(Busy) \in Nat
      BY FS_CardinalityType DEF AInv, Counted
    <2> QED
      BY <1>1, <1>2, <2>1, <2>2, Sizes DEF AInv, Counted
  <1>7. Blamed'
    <2>1. Cardinality(Orphans') <= Cardinality(Orphans) /\ Cardinality(Orphans') \in Nat
      BY <1>5, Sizes, FS_Subset, FS_CardinalityType
    <2> QED
      BY <1>1, <2>1, Sizes DEF AInv, Blamed
  <1>8. Apart'
    <2> SUFFICES ASSUME given' \subseteq Names
                 PROVE  /\ Waiting' \cup InHands \subseteq Left
                        /\ \A v, w \in Busy : name[v] = name[w] => v = w
                        /\ InHands \cap Waiting' = {}
                        /\ Cardinality(Orphans') = stats.failed
      BY <1>1, <1>2 DEF Apart
    <2>1. given \subseteq Names /\ n \in Waiting
      BY <1>1 DEF Waiting
    <2>2. Waiting' = Waiting /\ Orphans' = Orphans
      BY <1>2, <1>4, <2>1 DEF Orphans
    <2> QED
      BY <2>1, <2>2 DEF AInv, Apart
  <1> QED
    BY <1>6, <1>7, <1>8 DEF AInv

(* A name that a worker takes goes from the queue to its hands.              *)
LEMMA AInvTake ==
    ASSUME WInv, TInv, AInv, NEW n \in Entries, NEW w \in Workers, Take(w, n)
    PROVE  AInv'
  <1>1. /\ w \notin Busy /\ n \in queue
        /\ given' = given /\ queue' = queue \ {n}
        /\ name' = [name EXCEPT ![w] = n] /\ at' = [at EXCEPT ![w] = "stat"]
        /\ entry' = entry /\ stats' = stats
    BY DEF Take, Goto, Busy, diskVars, handVars, lastVars
  <1>2. Busy' = Busy \cup {w} /\ Left' = Left
    BY <1>1 DEF Busy, Left, WInv, Shape
  <1>3. name'[w] = n /\ \A v \in Busy : name'[v] = name[v]
    BY <1>1 DEF Busy, WInv, Shape
  <1>4. InHands' = InHands \cup {n}
    BY <1>2, <1>3 DEF InHands
  <1>5. Waiting = Waiting' \cup {n} /\ n \in Waiting
    BY <1>1 DEF Waiting
  <1>6. Orphans' = Orphans
    BY <1>2, <1>4, <1>5 DEF Orphans
  <1>7. Counted'
    <2>1. Cardinality(queue') = Cardinality(queue) - 1
      BY <1>1, Sizes, FS_RemoveElement
    <2>2. IsFiniteSet(Busy') /\ Cardinality(Busy') = Cardinality(Busy) + 1
      BY <1>1, <1>2, FS_AddElement DEF AInv, Counted
    <2>3. Cardinality(Busy) \in Nat
      BY FS_CardinalityType DEF AInv, Counted
    <2> QED
      BY <1>1, <2>1, <2>2, <2>3, Sizes DEF AInv, Counted
  <1>8. Blamed'
    BY <1>1, <1>6 DEF AInv, Blamed
  <1>9. Apart'
    <2> SUFFICES ASSUME given \subseteq Names
                 PROVE  /\ Waiting' \cup InHands' \subseteq Left
                        /\ \A u, v \in Busy' : name'[u] = name'[v] => u = v
                        /\ InHands' \cap Waiting' = {}
                        /\ Cardinality(Orphans) = stats.failed
      BY <1>1, <1>2, <1>6 DEF Apart
    <2>1. /\ Waiting \cup InHands \subseteq Left
          /\ \A u, v \in Busy : name[u] = name[v] => u = v
          /\ InHands \cap Waiting = {}
          /\ Cardinality(Orphans) = stats.failed
      BY DEF AInv, Apart
    <2>2. n \notin Waiting'
      BY <1>1 DEF Waiting, TInv, TypeOK
    <2>3. \A v \in Busy : name[v] # n
      BY <1>5, <2>1 DEF InHands
    <2>4. \A u, v \in Busy' : name'[u] = name'[v] => u = v
      BY <1>2, <1>3, <2>1, <2>3
    <2> QED
      BY <1>4, <1>5, <2>1, <2>2, <2>4
  <1> QED
    BY <1>7, <1>8, <1>9 DEF AInv

(* A worker that goes on with the name it has in hands.                      *)
LEMMA AInvStay ==
    ASSUME WInv, TInv, AInv, NEW w \in Busy, NEW s, s # "idle",
           at' = [at EXCEPT ![w] = s],
           UNCHANGED <<entry, given, queue, name, stats>>
    PROVE  AInv'
  <1>1. Busy' = Busy
    BY DEF Busy, WInv, Shape
  <1>2. InHands' = InHands /\ Left' = Left /\ Waiting' = Waiting
    BY <1>1 DEF InHands, Left, Waiting
  <1>3. Orphans' = Orphans
    BY <1>2 DEF Orphans
  <1> QED
    BY <1>1, <1>2, <1>3 DEF AInv, Counted, Blamed, Apart

(* A worker that is done with a name takes one from those in hands.          *)
LEMMA AInvFree ==
    ASSUME WInv, TInv, AInv, NEW w \in Busy,
           at' = [at EXCEPT ![w] = "idle"], UNCHANGED <<given, queue, name>>
    PROVE  /\ Busy' = Busy \ {w} /\ IsFiniteSet(Busy')
           /\ Cardinality(Busy') = Cardinality(Busy) - 1 /\ Cardinality(Busy) \in Nat
           /\ InHands = InHands' \cup {name[w]} /\ Waiting' = Waiting
           /\ given \subseteq Names =>
                  /\ name[w] \in Left /\ name[w] \notin InHands' \cup Waiting
                  /\ InHands' \cup Waiting \subseteq Left
                  /\ InHands' \cap Waiting' = {}
                  /\ \A u, v \in Busy' : name'[u] = name'[v] => u = v
                  /\ Cardinality(Orphans) = stats.failed
  <1>1. Busy' = Busy \ {w}
    BY DEF Busy, WInv, Shape
  <1>2. IsFiniteSet(Busy') /\ Cardinality(Busy') = Cardinality(Busy) - 1
    BY <1>1, FS_RemoveElement DEF AInv, Counted
  <1>3. Cardinality(Busy) \in Nat
    BY FS_CardinalityType DEF AInv, Counted
  <1>4. InHands = InHands' \cup {name[w]} /\ Waiting' = Waiting
    BY <1>1 DEF InHands, Waiting
  <1>5. ASSUME given \subseteq Names
        PROVE  /\ name[w] \in Left /\ name[w] \notin InHands' \cup Waiting
               /\ InHands' \cup Waiting \subseteq Left
               /\ InHands' \cap Waiting' = {}
               /\ \A u, v \in Busy' : name'[u] = name'[v] => u = v
               /\ Cardinality(Orphans) = stats.failed
    <2>1. /\ Waiting \cup InHands \subseteq Left
          /\ \A u, v \in Busy : name[u] = name[v] => u = v
          /\ InHands \cap Waiting = {}
          /\ Cardinality(Orphans) = stats.failed
      BY <1>5 DEF AInv, Apart
    <2>2. name[w] \notin InHands'
      BY <1>1, <2>1 DEF InHands
    <2> QED
      BY <1>1, <1>4, <2>1, <2>2
  <1> QED
    BY <1>1, <1>2, <1>3, <1>4, <1>5

(* A name that is gone, or unlinked now, is one less in the directory.       *)
LEMMA AInvDeleted ==
    ASSUME WInv, TInv, AInv, NEW w \in Busy, Deleted(w),
           UNCHANGED <<given, queue, name>>,
           Left' = Left \ {name[w]}
    PROVE  AInv'
  <1>1. /\ at' = [at EXCEPT ![w] = "idle"]
        /\ stats'.deleted = stats.deleted + 1 /\ stats'.failed = stats.failed
    BY DEF Deleted, Tally, Goto, TInv, TypeOK
  <1>2. /\ Busy' = Busy \ {w} /\ IsFiniteSet(Busy')
        /\ Cardinality(Busy') = Cardinality(Busy) - 1 /\ Cardinality(Busy) \in Nat
        /\ InHands = InHands' \cup {name[w]} /\ Waiting' = Waiting
    BY <1>1, AInvFree
  <1>3. Orphans' = Orphans
    BY <1>2 DEF Orphans
  <1>4. Counted'
    BY <1>1, <1>2, Sizes DEF AInv, Counted
  <1>5. Blamed'
    BY <1>1, <1>3 DEF AInv, Blamed
  <1>6. Apart'
    <2> SUFFICES ASSUME given \subseteq Names
                 PROVE  /\ Waiting' \cup InHands' \subseteq Left'
                        /\ \A u, v \in Busy' : name'[u] = name'[v] => u = v
                        /\ InHands' \cap Waiting' = {}
                        /\ Cardinality(Orphans') = stats'.failed
      BY DEF Apart
    <2>1. /\ name[w] \in Left /\ name[w] \notin InHands' \cup Waiting
          /\ InHands' \cup Waiting \subseteq Left
          /\ InHands' \cap Waiting' = {}
          /\ \A u, v \in Busy' : name'[u] = name'[v] => u = v
          /\ Cardinality(Orphans) = stats.failed
      BY <1>1, AInvFree
    <2> QED
      BY <1>1, <1>2, <1>3, <2>1
  <1> QED
    BY <1>4, <1>5, <1>6 DEF AInv

(* A failure leaves its name, if it is still there, for nobody to come to.   *)
LEMMA AInvFailed ==
    ASSUME WInv, TInv, AInv, NEW w \in Busy, Failed(w),
           UNCHANGED <<entry, given, queue, name>>
    PROVE  AInv'
  <1>1. /\ at' = [at EXCEPT ![w] = "idle"]
        /\ stats'.deleted = stats.deleted /\ stats'.failed = stats.failed + 1
    BY DEF Failed, Tally, Goto, TInv, TypeOK
  <1>2. /\ Busy' = Busy \ {w} /\ IsFiniteSet(Busy')
        /\ Cardinality(Busy') = Cardinality(Busy) - 1 /\ Cardinality(Busy) \in Nat
        /\ InHands = InHands' \cup {name[w]} /\ Waiting' = Waiting
    BY <1>1, AInvFree
  <1>3. Left' = Left
    BY DEF Left
  <1>4. Orphans' \subseteq Orphans \cup {name[w]}
    BY <1>2, <1>3 DEF Orphans
  <1>5. /\ IsFiniteSet(Orphans \cup {name[w]})
        /\ name[w] \notin Orphans
        /\ Cardinality(Orphans \cup {name[w]}) = Cardinality(Orphans) + 1
    <2>1. name[w] \notin Orphans
      BY <1>2 DEF Orphans
    <2> QED
      BY <2>1, Sizes, FS_AddElement
  <1>6. Counted'
    BY <1>1, <1>2, Sizes DEF AInv, Counted
  <1>7. Blamed'
    <2>1. Cardinality(Orphans') <= Cardinality(Orphans) + 1 /\ Cardinality(Orphans') \in Nat
      BY <1>4, <1>5, FS_Subset, FS_CardinalityType
    <2>2. Cardinality(Orphans) <= stats.failed
      BY DEF AInv, Blamed
    <2> QED
      BY <1>1, <2>1, <2>2, Sizes DEF Blamed
  <1>8. Apart'
    <2> SUFFICES ASSUME given \subseteq Names
                 PROVE  /\ Waiting' \cup InHands' \subseteq Left'
                        /\ \A u, v \in Busy' : name'[u] = name'[v] => u = v
                        /\ InHands' \cap Waiting' = {}
                        /\ Cardinality(Orphans') = stats'.failed
      BY DEF Apart
    <2>1. /\ name[w] \in Left /\ name[w] \notin InHands' \cup Waiting
          /\ InHands' \cup Waiting \subseteq Left
          /\ InHands' \cap Waiting' = {}
          /\ \A u, v \in Busy' : name'[u] = name'[v] => u = v
          /\ Cardinality(Orphans) = stats.failed
      BY <1>1, AInvFree
    <2>2. Orphans' = Orphans \cup {name[w]}
      BY <1>2, <1>3, <2>1 DEF Orphans
    <2> QED
      BY <1>1, <1>2, <1>3, <1>5, <2>1, <2>2
  <1> QED
    BY <1>6, <1>7, <1>8 DEF AInv

(* A rename takes a name that is there to one nobody has come to yet.        *)
LEMMA AInvRename ==
    ASSUME WInv, TInv, AInv, NEW w \in Workers, Rename(w)
    PROVE  AInv'
  <1> DEFINE new == drawn + 1
  <1>1. /\ w \in Busy
        /\ entry' = [entry EXCEPT ![name[w]] = None, ![new] = entry[name[w]]]
        /\ name' = [name EXCEPT ![w] = new]
        /\ given' = given /\ queue' = queue /\ stats' = stats
    BY DEF Rename, Busy, File, scanVars
  <1>2. PICK s \in {"unlink", "rename"} : at' = [at EXCEPT ![w] = s]
    BY DEF Rename, Begin, Goto
  <1>3. new \in Entries /\ new \notin Used
    BY MaxDrawnType, ShredderAssumption DEF WInv, Shape, Rename, Entries, Randoms, Used
  <1>4. /\ name[w] \in Entries /\ name[w] \in Left /\ name[w] # new
        /\ entry[name[w]] # None
    BY <1>1, <1>3 DEF Rename, Gone, File, Left, WInv, NamesUsed, Busy, Used
  <1>5. Left' = (Left \ {name[w]}) \cup {new}
    BY <1>1, <1>3, <1>4 DEF Left, WInv, Shape
  <1>6. Busy' = Busy
    BY <1>1, <1>2 DEF Busy, WInv, Shape
  <1>7. name'[w] = new /\ \A v \in Busy \ {w} : name'[v] = name[v]
    BY <1>1 DEF Busy, WInv, Shape
  <1>8. /\ InHands' \subseteq InHands \cup {new} /\ new \in InHands'
        /\ InHands \subseteq InHands' \cup {name[w]}
    BY <1>1, <1>6, <1>7 DEF InHands
  <1>9. Waiting' = Waiting /\ name[w] \in InHands
    BY <1>1 DEF Waiting, InHands
  <1> HIDE DEF new
  <1>10. Orphans' = Orphans
    <2>1. new \notin Left
      BY <1>3, Sizes
    <2> QED
      BY <1>5, <1>8, <1>9, <2>1 DEF Orphans
  <1>11. Counted' /\ Blamed'
    BY <1>1, <1>6, <1>10 DEF AInv, Counted, Blamed
  <1>12. Apart'
    <2> SUFFICES ASSUME given \subseteq Names
                 PROVE  /\ Waiting \cup InHands' \subseteq Left'
                        /\ \A u, v \in Busy : name'[u] = name'[v] => u = v
                        /\ InHands' \cap Waiting = {}
                        /\ Cardinality(Orphans) = stats.failed
      BY <1>1, <1>6, <1>9, <1>10 DEF Apart
    <2>1. /\ Waiting \cup InHands \subseteq Left
          /\ \A u, v \in Busy : name[u] = name[v] => u = v
          /\ InHands \cap Waiting = {}
          /\ Cardinality(Orphans) = stats.failed
      BY DEF AInv, Apart
    <2>2. new \notin Waiting /\ new \notin InHands
      BY <1>3, Sizes
    <2>3. \A v \in Busy \ {w} : name'[v] \in InHands /\ name'[v] # name[w]
      BY <1>1, <1>7, <2>1 DEF InHands
    <2>4. InHands' \subseteq {new} \cup (InHands \ {name[w]})
      BY <1>6, <1>7, <2>3 DEF InHands
    <2>5. \A u, v \in Busy : name'[u] = name'[v] => u = v
      BY <1>7, <2>1, <2>2, <2>3
    <2> QED
      BY <1>5, <1>9, <2>1, <2>2, <2>4, <2>5
  <1> QED
    BY <1>11, <1>12 DEF AInv

(* The other steps of a worker keep its name, or are done with it.           *)
LEMMA AInvStep ==
    ASSUME WInv, TInv, AInv, NEW w \in Workers,
           \/ Stat(w) \/ Open(w) \/ Chmod(w) \/ WriteSome(w) \/ WriteRest(w)
           \/ WriteShort(w) \/ WriteFails(w) \/ Truncate(w)
           \/ RenameFails(w) \/ Unlink(w) \/ UnlinkFails(w)
    PROVE  AInv'
  <1> USE DEF diskVars, scanVars
  <1>1. w \in Busy
    BY DEF Stat, Open, Chmod, WriteSome, WriteRest, WriteShort, WriteFails, Truncate,
           RenameFails, Unlink, UnlinkFails, Busy
  <1>2. UNCHANGED <<given, queue, name>>
    BY DEF Stat, Open, Chmod, WriteSome, WriteRest, WriteShort, WriteFails, Truncate,
           RenameFails, Unlink, UnlinkFails
  <1>3. Gone(w) => name[w] \notin Left
    BY DEF Gone, File, Left
  <1>4. entry' = entry => Left' = Left
    BY DEF Left
  <1>5. CASE Stat(w)
    <2>1. entry' = entry
      BY <1>5 DEF Stat
    <2>2. CASE Gone(w)
      <3>1. Deleted(w)
        BY <1>5, <2>2 DEF Stat
      <3>2. Left' = Left \ {name[w]}
        BY <1>3, <1>4, <2>1, <2>2
      <3> QED
        BY <1>1, <1>2, <3>1, <3>2, AInvDeleted
    <2>3. CASE ~Gone(w)
      <3>1. PICK s \in {"rename", "open"} : at' = [at EXCEPT ![w] = s]
        BY <1>5, <2>3 DEF Stat, Begin, Goto
      <3>2. stats' = stats
        BY <1>5, <2>3 DEF Stat
      <3> QED
        BY <1>1, <1>2, <2>1, <3>1, <3>2, AInvStay
    <2> QED
      BY <2>2, <2>3
  <1>6. CASE Open(w)
    <2>1. entry' = entry
      BY <1>6 DEF Open
    <2>2. CASE Gone(w)
      BY <1>1, <1>2, <1>6, <2>1, <2>2, AInvFailed DEF Open
    <2>3. CASE ~Gone(w)
      <3>1. PICK s \in {"chmod", "write"} : at' = [at EXCEPT ![w] = s]
        BY <1>6, <2>3 DEF Open, Goto
      <3>2. stats' = stats
        BY <1>6, <2>3 DEF Open
      <3> QED
        BY <1>1, <1>2, <2>1, <3>1, <3>2, AInvStay
    <2> QED
      BY <2>2, <2>3
  <1>7. CASE Chmod(w)
    <2>1. entry' = entry
      BY <1>7 DEF Chmod
    <2>2. Failed(w) \/ (at' = [at EXCEPT ![w] = "stat"] /\ stats' = stats)
      BY <1>7 DEF Chmod, AfterChmod, Goto
    <2>3. CASE Failed(w)
      BY <1>1, <1>2, <2>1, <2>3, AInvFailed
    <2>4. CASE at' = [at EXCEPT ![w] = "stat"] /\ stats' = stats
      BY <1>1, <1>2, <2>1, <2>4, AInvStay
    <2> QED
      BY <2>2, <2>3, <2>4
  <1>8. CASE WriteSome(w) \/ WriteRest(w) \/ WriteShort(w) \/ Truncate(w) \/ RenameFails(w)
    <2>1. entry' = entry /\ stats' = stats
      BY <1>8 DEF WriteSome, WriteRest, WriteShort, Truncate, RenameFails, AfterRenameFails
    <2>2. PICK s \in {"pass", "write", "truncate", "rename", "unlink"} :
              at' = [at EXCEPT ![w] = s]
      BY <1>8 DEF WriteSome, WriteRest, WriteShort, Truncate, RenameFails, AfterRenameFails,
                  PassDone, Begin, Goto
    <2> QED
      BY <1>1, <1>2, <2>1, <2>2, AInvStay
  <1>9. CASE WriteFails(w) \/ UnlinkFails(w)
    BY <1>1, <1>2, <1>9, AInvFailed DEF WriteFails, UnlinkFails
  <1>10. CASE Unlink(w)
    <2>1. name[w] \in Entries
      BY <1>1 DEF WInv, NamesUsed, Used, Busy
    <2>2. Left' = Left \ {name[w]}
      <3>1. CASE Gone(w)
        BY <1>3, <1>4, <1>10, <3>1 DEF Unlink
      <3>2. CASE ~Gone(w)
        BY <1>10, <2>1, <3>2 DEF Unlink, Left, WInv, Shape
      <3> QED
        BY <3>1, <3>2
    <2> QED
      BY <1>1, <1>2, <1>10, <2>2, AInvDeleted DEF Unlink
  <1> QED
    BY <1>5, <1>6, <1>7, <1>8, <1>9, <1>10

(* Every step of the scanner and of the workers keeps the accounts.          *)
LEMMA AInvNext == WInv /\ TInv /\ AInv /\ [Next]_vars => AInv'
  <1> SUFFICES ASSUME WInv, TInv, AInv, [Next]_vars PROVE AInv'
    OBVIOUS
  <1>1. ASSUME NEW n \in Entries, Scan(n) PROVE AInv'
    BY <1>1, AInvScan
  <1>2. ASSUME NEW w \in Workers, Step(w) PROVE AInv'
    BY <1>2, AInvTake, AInvRename, AInvStep DEF Step
  <1>3. ASSUME NEW w \in Workers, WriteShort(w) \/ WriteFails(w) PROVE AInv'
    BY <1>3, AInvStep
  <1>4. CASE UNCHANGED vars
    BY <1>4 DEF vars, diskVars, scanVars, handVars, lastVars, AInv, Counted, Blamed, Apart,
                Orphans, Waiting, InHands, Busy, Left
  <1> QED
    BY <1>1, <1>2, <1>3, <1>4 DEF Next, Finished

(* The statistics of a shredding are those of the directory: whatever fails, *)
(* however the scan and the renames meet, every name that was yielded is     *)
(* counted once, and a name that is left is a failure that was counted; the  *)
(* failures are exactly the names left unless the scan met a random name.    *)
THEOREM AccountsTrue == Spec => []Accounted
  <1>1. WInv /\ TInv /\ AInv => Accounted
    <2> SUFFICES ASSUME WInv, TInv, AInv, Done
                 PROVE  /\ stats.deleted + stats.failed = Cardinality(given)
                        /\ Cardinality(Left) <= stats.failed
                        /\ given = Names => Cardinality(Left) = stats.failed
      BY DEF Accounted
    <2>1. Busy = {} /\ queue = {} /\ InHands = {} /\ Waiting = {}
      BY DEF Done, Busy, InHands, Waiting
    <2>2. Orphans = Left
      BY <2>1 DEF Orphans
    <2>3. stats.deleted + stats.failed = Cardinality(given)
      BY <2>1, FS_EmptySet, Sizes DEF AInv, Counted
    <2> QED
      BY <2>2, <2>3 DEF AInv, Blamed, Apart
  <1> QED
    BY <1>1, WInvInit, WInvNext, TInvInit, TInvNext, AInvInit, AInvNext, PTL DEF Spec
===============================================================================
