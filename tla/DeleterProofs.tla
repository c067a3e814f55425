---------------------------- MODULE DeleterProofs ----------------------------
(* What holds of Deleter for every tree, every filter, every number of       *)
(* workers, every batch size and any amount of interference.                 *)
EXTENDS Deleter, TLAPS

USE DEF disk, scanVars, poolVars

-----------------------------------------------------------------------------
(* The inductive invariant.                                                  *)

(* A thread holds files exactly while it is inside worker_delete.            *)
HandsBusy == \A a \in Actors : step[a] = "idle" <=> hand[a] = <<>>

Types == TypeOK /\ HandsBusy

(* What is in anybody's hands was asked for: files the filter accepted, and  *)
(* directories it lets go; nothing is about to be removed in a dry run.      *)
Asked ==
    /\ item.action = "FILE" => item.node \in Matched(job)
    /\ item.action = "DIR_POST" => item.node \in Emitted(job)
    /\ pc \in {"drain", "dir", "rmdir", "rmdir_retry"} => item.action = "DIR_POST"
    /\ batch \in Seq(Matched(job))
    /\ queue \in Seq(Seq(Matched(job)))
    /\ hand \in [Actors -> Seq(Matched(job))]
    /\ \A a \in Actors : step[a] \in {"unlink", "retry"} => ~job.dryRun
    /\ pc \in {"rmdir", "rmdir_retry"} => ~job.dryRun

PoolEmpty == batch = <<>> /\ Drained

(* Where the pool is known to be empty.                                      *)
Drains ==
    /\ step[Main] # "idle" => pc = "file"
    /\ ~job.pooled => PoolEmpty
    /\ pc \in {"start", "open", "dir", "rmdir", "rmdir_retry", "done"} => PoolEmpty
    /\ pc \in {"drain", "join"} => batch = <<>>

(* A thread that removed something since the abort is not about to remove    *)
(* anything else.                                                            *)
Graceful ==
    \A a \in Actors : late[a] # 0 =>
        /\ abort
        /\ step[a] \notin {"unlink", "retry"}
        /\ a = Main => pc \notin {"rmdir", "rmdir_retry"}

(* A name that was removed is not in use and is not used again.              *)
NamesOnce == removed \cap present = {} /\ removed \cap fresh = {} /\ fresh \cap present = {}

IInv == Types /\ Asked /\ Drains /\ Graceful /\ NamesOnce

-----------------------------------------------------------------------------
(* Types.                                                                    *)

(* A tail of a sequence of files is one.                                     *)
LEMMA TailIsSeq == ASSUME NEW S, NEW s \in Seq(S), s # <<>>
                   PROVE  Tail(s) \in Seq(S) /\ Head(s) \in S
  OBVIOUS

(* The state run() starts from is well typed.                                *)
LEMMA TypesInit == Init => Types
  <1> SUFFICES ASSUME Init PROVE Types
    OBVIOUS
  <1> USE DEF Init, DiskInit
  <1>1. HandsBusy
    BY DEF HandsBusy
  <1>2. /\ job \in Jobs
        /\ present \subseteq Nodes /\ mode \subseteq Dirs \cup {Container}
        /\ fresh \subseteq Nodes /\ unread \subseteq Nodes /\ given \subseteq Nodes
        /\ removed \subseteq Nodes
    BY InitialAssumption
  <1>3. item \in Items
    BY TreeAssumption DEF Items, Item, Actions
  <1>4. /\ stack \in Seq(Dirs) /\ batch \in Seq(Files)
        /\ queue \in Seq(Seq(Files) \ {<<>>})
    OBVIOUS
  <1>5. hand \in [Actors -> Seq(Files)]
    OBVIOUS
  <1>6. /\ step \in [Actors -> {"idle", "enter", "unlink", "retry"}]
        /\ stats \in [Counters -> Nat] /\ late \in [Actors -> Nat]
    OBVIOUS
  <1>7. sameRoot \in BOOLEAN /\ abort \in BOOLEAN /\ pc \in Positions
    BY DEF Positions
  <1>8. yielded \in Nat /\ env \in 0 .. EnvBudget
    BY DiskAssumption
  <1> QED
    BY <1>1, <1>2, <1>3, <1>4, <1>5, <1>6, <1>7, <1>8 DEF Types, TypeOK

(* One more in a counter leaves the counters numbers.                        *)
LEMMA Counting == ASSUME Types, NEW f \in Counters, Count(f)
                  PROVE  stats' \in [Counters -> Nat]
  BY DEF Types, TypeOK, Count

(* What a step of delete_file_entry leaves of the threads' variables.        *)
HandsOK == hand \in [Actors -> Seq(Files)]
               /\ step \in [Actors -> {"idle", "enter", "unlink", "retry"}]
               /\ HandsBusy

(* Going to the next file of the batch leaves the thread idle or busy.       *)
LEMMA Advancing == ASSUME Types, NEW a \in Actors, step[a] # "idle", Advance(a)
                   PROVE  HandsOK'
  <1>1. hand[a] # <<>> /\ hand[a] \in Seq(Files)
    BY DEF Types, TypeOK, HandsBusy
  <1>2. Tail(hand[a]) \in Seq(Files)
    BY <1>1, TailIsSeq
  <1>3. HandsBusy'
    <2> SUFFICES ASSUME NEW b \in Actors
                 PROVE  step'[b] = "idle" <=> hand'[b] = <<>>
      BY DEF HandsBusy
    <2>1. CASE b = a
      BY <2>1 DEF Advance, Types, TypeOK
    <2>2. CASE b # a
      BY <2>2 DEF Advance, Types, TypeOK, HandsBusy
    <2> QED
      BY <2>1, <2>2
  <1> QED
    BY <1>2, <1>3 DEF Advance, Types, TypeOK, HandsOK

(* So does a move inside delete_file_entry.                                  *)
LEMMA Going == ASSUME Types, NEW a \in Actors, step[a] # "idle",
                      NEW s \in {"unlink", "retry"}, Goto(a, s)
               PROVE  HandsOK'
  BY DEF Goto, Types, TypeOK, HandsBusy, HandsOK

(* Removing an entry leaves sets of names and numbers of removals.           *)
LEMMA Erasing == ASSUME Types, NEW a \in Actors, NEW n \in Nodes, EraseBy(a, n)
                 PROVE  /\ present' \subseteq Nodes
                        /\ removed' \subseteq Nodes
                        /\ late' \in [Actors -> Nat]
                        /\ UNCHANGED <<mode, sameRoot, fresh, env>>
  BY DEF Types, TypeOK, EraseBy, Erase

(* A step of delete_file_entry keeps the types.                              *)
LEMMA TypesFile == ASSUME Types, NEW a \in Actors, FileStep(a) PROVE Types'
  <1>1. step[a] # "idle"
    BY DEF FileStep, FileAbort, FileDryRun, FileEnter, Unlink, UnlinkGone, UnlinkForce,
           UnlinkError
  <1>2. Current(a) \in Nodes
    BY <1>1, TailIsSeq DEF Types, TypeOK, HandsBusy, Current, Files
  <1>3. /\ "files" \in Counters /\ "discovered" \in Counters /\ "failed" \in Counters
    BY DEF Counters
  <1> USE DEF Types, TypeOK
  <1>4. CASE FileAbort(a)
    BY <1>4 DEF FileAbort, HandsBusy
  <1>5. CASE FileDryRun(a)
    <2>1. HandsOK'
      BY <1>1, <1>5, Advancing DEF FileDryRun
    <2>2. stats' \in [Counters -> Nat]
      <3>1. stats \in [Counters -> Nat]
        OBVIOUS
      <3>2. stats' = [[stats EXCEPT !["discovered"] = @ + 1] EXCEPT !["files"] = @ + 1]
        BY <1>5 DEF FileDryRun
      <3>3. [stats EXCEPT !["discovered"] = @ + 1] \in [Counters -> Nat]
        BY ONLY <1>3, <3>1
      <3> QED
        BY ONLY <1>3, <3>2, <3>3
    <2> QED
      BY <1>5, <2>1, <2>2 DEF FileDryRun, HandsOK
  <1>6. CASE FileEnter(a)
    <2>1. HandsOK' /\ stats' \in [Counters -> Nat]
      BY <1>1, <1>3, <1>6, Going, Counting DEF FileEnter
    <2> QED
      BY <1>6, <2>1 DEF FileEnter, HandsOK
  <1>7. CASE Unlink(a)
    <2>1. HandsOK' /\ stats' \in [Counters -> Nat]
      BY <1>1, <1>3, <1>7, Advancing, Counting DEF Unlink
    <2>2. /\ present' \subseteq Nodes /\ removed' \subseteq Nodes
          /\ late' \in [Actors -> Nat] /\ UNCHANGED <<mode, sameRoot, fresh, env>>
      BY <1>2, <1>7, Erasing DEF Unlink
    <2> QED
      BY <1>7, <2>1, <2>2 DEF Unlink, HandsOK
  <1>8. CASE UnlinkGone(a)
    <2>1. HandsOK' /\ stats' \in [Counters -> Nat]
      BY <1>1, <1>3, <1>8, Advancing, Counting DEF UnlinkGone
    <2> QED
      BY <1>8, <2>1 DEF UnlinkGone, HandsOK
  <1>9. CASE UnlinkForce(a)
    <2>1. HandsOK'
      BY <1>1, <1>9, Going DEF UnlinkForce, Chmod
    <2> QED
      BY <1>9, <2>1 DEF UnlinkForce, Chmod, HandsOK
  <1>10. CASE UnlinkError(a)
    <2>1. HandsOK' /\ stats' \in [Counters -> Nat]
      BY <1>1, <1>3, <1>10, Advancing, Counting DEF UnlinkError
    <2> QED
      BY <1>10, <2>1 DEF UnlinkError, HandsOK
  <1> QED
    BY <1>4, <1>5, <1>6, <1>7, <1>8, <1>9, <1>10 DEF FileStep

(* A worker that takes a batch is busy with it.                              *)
LEMMA TypesTake == ASSUME Types, NEW w \in Workers, TakeBatch(w) PROVE Types'
  <1> USE DEF Types, TypeOK
  <1>1. /\ Head(queue) \in Seq(Files) \ {<<>>}
        /\ Tail(queue) \in Seq(Seq(Files) \ {<<>>})
    BY TailIsSeq DEF TakeBatch
  <1>2. HandsOK'
    BY <1>1 DEF TakeBatch, HandsBusy, HandsOK, Actors
  <1> QED
    BY <1>1, <1>2 DEF TakeBatch, HandsOK

(* A step of delete_dir_entry keeps the types.                               *)
LEMMA TypesDir == ASSUME Types, DirStep PROVE Types'
  <1>1. item.node \in Nodes /\ Main \in Actors
    BY DEF Types, TypeOK, Items, Actors
  <1>2. /\ "dirs" \in Counters /\ "skipped" \in Counters /\ "failed" \in Counters
    BY DEF Counters
  <1> USE DEF Types, TypeOK, Positions, HandsBusy
  <1>3. CASE DirAbort \/ DirEnter
    BY <1>3 DEF DirAbort, DirEnter
  <1>4. CASE RootChanged \/ DirDryRun \/ RmdirGone \/ RmdirNotEmpty \/ RmdirError
    <2>1. stats' \in [Counters -> Nat]
      BY <1>2, <1>4, Counting
         DEF RootChanged, DirDryRun, RmdirGone, RmdirNotEmpty, RmdirError
    <2> QED
      BY <1>4, <2>1 DEF RootChanged, DirDryRun, RmdirGone, RmdirNotEmpty, RmdirError
  <1>5. CASE Rmdir
    <2>1. stats' \in [Counters -> Nat]
      BY <1>2, <1>5, Counting DEF Rmdir
    <2>2. /\ present' \subseteq Nodes /\ removed' \subseteq Nodes
          /\ late' \in [Actors -> Nat] /\ UNCHANGED <<mode, sameRoot, fresh, env>>
      BY <1>1, <1>5, Erasing DEF Rmdir
    <2> QED
      BY <1>5, <2>1, <2>2 DEF Rmdir
  <1>6. CASE RmdirForce
    BY <1>6 DEF RmdirForce, Chmod
  <1> QED
    BY <1>3, <1>4, <1>5, <1>6 DEF DirStep

(* The innermost directory of a stack, and the stack without it.             *)
LEMMA StackTop == ASSUME Types, stack # <<>>
                  PROVE  Top \in Dirs /\ Below \in Seq(Dirs)
  BY DEF Types, TypeOK, Top, Below

(* A step of the scanner keeps the types.                                    *)
LEMMA TypesScan ==
    ASSUME Types,
           Inspect \/ OpenRoot \/ ScanEnd \/ ScanDone \/ ScanFail
             \/ \E n \in Nodes : ScanFile(n) \/ ScanDir(n)
    PROVE  Types'
  <1> USE TreeAssumption DEF Types, TypeOK, Positions, HandsBusy
  <1>1. \A i \in Items : Yield(i) => item' \in Items /\ yielded' \in Nat /\ pc' \in Positions
    BY DEF Yield
  <1>2. \A c \in Actions, n \in Nodes : Item(c, n) \in Items
    BY DEF Item, Items
  <1>3. /\ "FILE" \in Actions /\ "FILE_SKIP" \in Actions /\ "DIR_SKIP" \in Actions
        /\ "DIR_POST" \in Actions /\ "SCAN_ERROR" \in Actions
    BY DEF Actions
  <1>4. CASE Inspect
    <2>1. stats' \in [Counters -> Nat]
      BY <1>4, Counting DEF Inspect, Counters
    <2> QED
      BY <1>4, <2>1 DEF Inspect
  <1>5. CASE OpenRoot
    <2>1. item' \in Items /\ yielded' \in Nat /\ pc' \in Positions
      BY <1>1, <1>2, <1>3, <1>5 DEF OpenRoot
    <2>2. stack' \in Seq(Dirs)
      <3>1. <<Root>> \in Seq(Dirs)
        OBVIOUS
      <3> QED
        BY <1>5, <3>1 DEF OpenRoot
    <2>3. unread' \subseteq Nodes
      BY <1>5 DEF OpenRoot
    <2> QED
      BY <1>5, <2>1, <2>2, <2>3 DEF OpenRoot
  <1>6. ASSUME NEW n \in Nodes, ScanFile(n) PROVE Types'
    <2>1. item' \in Items /\ yielded' \in Nat /\ pc' \in Positions
      BY <1>1, <1>2, <1>3, <1>6 DEF ScanFile
    <2> QED
      BY <1>6, <2>1 DEF ScanFile, ScanStep
  <1>7. ASSUME NEW n \in Nodes, ScanDir(n) PROVE Types'
    <2>1. item' \in Items /\ yielded' \in Nat /\ pc' \in Positions
      BY <1>1, <1>2, <1>3, <1>7 DEF ScanDir, ScanStep
    <2>2. stack' \in Seq(Dirs)
      <3>1. n \in Dirs => Append(stack, n) \in Seq(Dirs)
        OBVIOUS
      <3> QED
        BY <1>7, <3>1 DEF ScanDir
    <2>3. unread' \subseteq Nodes
      BY <1>7 DEF ScanDir
    <2> QED
      BY <1>7, <2>1, <2>2, <2>3 DEF ScanDir, ScanStep
  <1>8. CASE ScanEnd
    <2>1. item' \in Items /\ yielded' \in Nat /\ pc' \in Positions
      BY <1>1, <1>2, <1>3, <1>8, StackTop DEF ScanEnd
    <2> QED
      BY <1>8, <2>1, StackTop DEF ScanEnd, Pop
  <1>9. CASE ScanFail
    <2>1. item' \in Items /\ yielded' \in Nat /\ pc' \in Positions
      BY <1>1, <1>2, <1>3, <1>9, StackTop DEF ScanFail, Misfortune, Interfere
    <2>2. env' \in 0 .. EnvBudget
      BY <1>9, DiskAssumption DEF ScanFail, Misfortune, Interfere
    <2> QED
      BY <1>9, <2>1, <2>2, StackTop DEF ScanFail, Misfortune, Pop
  <1>10. CASE ScanDone
    BY <1>10 DEF ScanDone, AfterLoop
  <1> QED
    BY <1>4, <1>5, <1>6, <1>7, <1>8, <1>9, <1>10

(* A batch that a file has joined is not empty.                              *)
LEMMA AppendIsBatch == ASSUME NEW S, NEW s \in Seq(S), NEW x \in S
                       PROVE  Append(s, x) \in Seq(S) \ {<<>>}
  <1>1. Append(s, x) \in Seq(S) /\ Len(Append(s, x)) = Len(s) + 1 /\ Len(s) \in Nat
    OBVIOUS
  <1>2. Len(<<>>) = 0
    OBVIOUS
  <1> QED
    BY <1>1, <1>2

(* Submitting a batch that is not empty keeps the queue one of batches.      *)
LEMMA Submitting ==
    ASSUME Types, NEW b \in Seq(Files) \ {<<>>}, Submit(b)
    PROVE  batch' \in Seq(Files) /\ queue' \in Seq(Seq(Files) \ {<<>>})
  <1>1. queue \in Seq(Seq(Files) \ {<<>>})
    BY DEF Types, TypeOK
  <1>2. Append(queue, b) \in Seq(Seq(Files) \ {<<>>})
    BY <1>1
  <1> QED
    BY <1>2 DEF Submit

(* A step of the loop keeps the types.                                       *)
LEMMA TypesLoop ==
    ASSUME Types, item.action = "FILE" => item.node \in Files,
           LoopAbort \/ StreamFile \/ StreamReturn \/ BatchFile \/ PostDir \/ Drain
             \/ SkipItem \/ ScanError \/ Flush \/ Join
    PROVE  Types'
  <1> USE DEF Types, TypeOK, Positions, HandsBusy
  <1>1. CASE LoopAbort \/ StreamReturn \/ Drain \/ Join
    BY <1>1 DEF LoopAbort, StreamReturn, Drain, Join, AfterLoop
  <1>2. CASE StreamFile
    <2>1. Main \in Actors /\ item.node \in Files
      BY <1>2 DEF StreamFile, Got, Actors
    <2>2. <<item.node>> \in Seq(Files) /\ <<item.node>> # <<>>
      BY <2>1
    <2>3. HandsOK'
      BY <1>2, <2>1, <2>2 DEF StreamFile, HandsOK
    <2> QED
      BY <1>2, <2>3 DEF StreamFile, HandsOK
  <1>3. CASE BatchFile
    <2> DEFINE b == Append(batch, item.node)
    <2>1. item.node \in Files
      BY <1>3 DEF BatchFile, Got
    <2>2. b \in Seq(Files) \ {<<>>}
      BY <2>1, AppendIsBatch
    <2>3. CASE Len(b) >= BatchSize
      <3>1. Submit(b)
        BY <1>3, <2>3 DEF BatchFile
      <3> QED
        BY <1>3, <2>2, <3>1, Submitting DEF BatchFile
    <2>4. CASE ~(Len(b) >= BatchSize)
      <3>1. batch' = b /\ queue' = queue
        BY <1>3, <2>4 DEF BatchFile
      <3> QED
        BY <1>3, <2>2, <3>1 DEF BatchFile
    <2> QED
      BY <2>3, <2>4
  <1>4. CASE PostDir \/ Flush
    <2>1. SubmitRest \/ UNCHANGED <<batch, queue>>
      BY <1>4 DEF PostDir, Flush
    <2>2. batch' \in Seq(Files) /\ queue' \in Seq(Seq(Files) \ {<<>>})
      BY <2>1, Submitting DEF SubmitRest
    <2> QED
      BY <1>4, <2>2 DEF PostDir, Flush
  <1>5. CASE SkipItem \/ ScanError
    <2>1. stats' \in [Counters -> Nat]
      BY <1>5, Counting DEF SkipItem, ScanError, Counters
    <2> QED
      BY <1>5, <2>1 DEF SkipItem, ScanError
  <1> QED
    BY <1>1, <1>2, <1>3, <1>4, <1>5

(* What other threads and processes do keeps the types.                      *)
LEMMA TypesEnvironment == ASSUME Types, RequestAbort \/ Meddle PROVE Types'
  <1> USE TreeAssumption, DiskAssumption DEF Types, TypeOK, HandsBusy
  <1>1. CASE RequestAbort
    BY <1>1 DEF RequestAbort
  <1>2. CASE Meddle
    <2>1. Interfere
      BY <1>2 DEF Meddle, Others, Vanish, Appear, Protect, ReplaceRoot
    <2>2. env' \in 0 .. EnvBudget
      BY <2>1 DEF Interfere
    <2>3. /\ present' \subseteq Nodes /\ fresh' \subseteq Nodes /\ removed' \subseteq Nodes
          /\ mode' \subseteq Dirs \cup {Container} /\ sameRoot' \in BOOLEAN
      <3>1. CASE ReplaceRoot
        BY <3>1 DEF ReplaceRoot
      <3>2. ASSUME NEW n \in Nodes, Vanish(n) \/ Appear(n) \/ Protect(n)
            PROVE  /\ present' \subseteq Nodes /\ fresh' \subseteq Nodes
                   /\ removed' \subseteq Nodes /\ mode' \subseteq Dirs \cup {Container}
                   /\ sameRoot' \in BOOLEAN
        BY <3>2 DEF Vanish, Appear, Protect
      <3> QED
        BY <1>2, <3>1, <3>2 DEF Meddle, Others
    <2> QED
      BY <1>2, <2>2, <2>3 DEF Meddle
  <1> QED
    BY <1>1, <1>2

-----------------------------------------------------------------------------
(* The steps of Next, in the groups the proofs below go through.             *)

Scanning == Inspect \/ OpenRoot \/ ScanEnd \/ ScanDone \/ ScanFail
              \/ \E n \in Nodes : ScanFile(n) \/ ScanDir(n)
Looping  == LoopAbort \/ StreamFile \/ StreamReturn \/ BatchFile \/ PostDir \/ Drain
              \/ SkipItem \/ ScanError \/ Flush \/ Join
Meddling == RequestAbort \/ Meddle

(* A step is one of these.                                                   *)
LEMMA Steps ==
    ASSUME [Next]_vars
    PROVE  \/ \E a \in Actors : FileStep(a)
           \/ \E w \in Workers : TakeBatch(w)
           \/ DirStep \/ Scanning \/ Looping \/ Meddling
           \/ UNCHANGED vars
  BY DEF Next, MainStep, WorkerStep, Environment, Finished, Actors, Scanning, Looping, Meddling

(* The invariant keeps the types.                                            *)
LEMMA TypesNext == ASSUME Types, Asked, [Next]_vars PROVE Types'
  <1>1. CASE UNCHANGED vars
    BY <1>1 DEF vars, Types, TypeOK, HandsBusy
  <1>2. item.action = "FILE" => item.node \in Files
    BY JobAssumption DEF Asked, Matched
  <1> QED
    BY <1>1, <1>2, Steps, TypesFile, TypesTake, TypesDir, TypesScan, TypesLoop,
       TypesEnvironment DEF Scanning, Looping, Meddling

-----------------------------------------------------------------------------
(* Names.                                                                    *)

(* Only an entry that exists is removed, and only an unused name is created. *)
LEMMA NamesNext == ASSUME Types, NamesOnce, [Next]_vars PROVE NamesOnce'
  <1> USE DEF NamesOnce
  <1>1. ASSUME NEW a \in Actors, FileStep(a) PROVE NamesOnce'
    <2>1. CASE Unlink(a)
      BY <2>1 DEF Unlink, EraseBy, Erase, Removal
    <2>2. CASE ~Unlink(a)
      BY <1>1, <2>2 DEF FileStep, FileAbort, FileDryRun, FileEnter, UnlinkGone,
                        UnlinkForce, Chmod, UnlinkError
    <2> QED
      BY <2>1, <2>2
  <1>2. ASSUME NEW w \in Workers, TakeBatch(w) PROVE NamesOnce'
    BY <1>2 DEF TakeBatch
  <1>3. CASE DirStep
    <2>1. CASE Rmdir
      BY <2>1 DEF Rmdir, EraseBy, Erase, Removal
    <2>2. CASE ~Rmdir
      BY <1>3, <2>2 DEF DirStep, DirAbort, RootChanged, DirDryRun, DirEnter, RmdirGone,
                        RmdirNotEmpty, RmdirForce, Chmod, RmdirError
    <2> QED
      BY <2>1, <2>2
  <1>4. CASE Scanning
    BY <1>4 DEF Scanning, Inspect, OpenRoot, ScanEnd, ScanDone, ScanFail, Misfortune, ScanFile, ScanDir
  <1>5. CASE Looping
    BY <1>5 DEF Looping, LoopAbort, StreamFile, StreamReturn, BatchFile, PostDir, Drain,
                SkipItem, ScanError, Flush, Join
  <1>6. CASE Meddling
    BY <1>6 DEF Meddling, RequestAbort, Meddle, Others, Vanish, Appear,
                Protect, ReplaceRoot, Interfere
  <1>7. CASE UNCHANGED vars
    BY <1>7 DEF vars
  <1> QED
    BY <1>1, <1>2, <1>3, <1>4, <1>5, <1>6, <1>7, Steps

-----------------------------------------------------------------------------
(* Where the pool is empty.                                                  *)

(* No step fills the pool where the main thread relies on its being empty.   *)
LEMMA DrainsNext == ASSUME Types, Drains, [Next]_vars PROVE Drains'
  <1> USE DEF Types, TypeOK
  <1>1. ASSUME NEW a \in Actors, FileStep(a) PROVE Drains'
    <2>1. /\ step[a] # "idle" /\ UNCHANGED <<job, pc, batch, queue>>
          /\ \A b \in Actors \ {a} : step'[b] = step[b]
      BY <1>1 DEF FileStep, FileAbort, FileDryRun, FileEnter, Unlink, UnlinkGone,
                  UnlinkForce, Chmod, UnlinkError, Advance, Goto
    <2>2. CASE a = Main
      BY <2>1, <2>2, JobAssumption DEF Drains, PoolEmpty, Drained, Actors
    <2>3. CASE a \in Workers
      BY <2>1, <2>3, JobAssumption DEF Drains, PoolEmpty, Drained, Actors
    <2> QED
      BY <2>2, <2>3 DEF Actors
  <1>2. ASSUME NEW w \in Workers, TakeBatch(w) PROVE Drains'
    <2>1. queue # <<>> /\ UNCHANGED <<job, pc, batch>> /\ step'[Main] = step[Main]
      BY <1>2, JobAssumption DEF TakeBatch, Actors
    <2> QED
      BY <2>1 DEF Drains, PoolEmpty, Drained
  <1>3. CASE DirStep
    BY <1>3 DEF DirStep, DirAbort, RootChanged, DirDryRun, DirEnter, Rmdir, RmdirGone,
                RmdirNotEmpty, RmdirForce, Chmod, RmdirError, Drains, PoolEmpty, Drained
  <1>4. CASE Scanning
    BY <1>4 DEF Scanning, Inspect, OpenRoot, ScanEnd, ScanDone, ScanFail, Misfortune, ScanFile, ScanDir,
                ScanStep, Yield, AfterLoop, Drains, PoolEmpty, Drained
  <1>5. CASE Looping
    <2>1. CASE StreamFile
      BY <2>1, JobAssumption DEF StreamFile, Got, Drains, PoolEmpty, Drained, Actors
    <2>2. CASE BatchFile
      BY <2>2 DEF BatchFile, Got, Drains, PoolEmpty, Drained
    <2>3. CASE PostDir \/ Flush
      BY <2>3 DEF PostDir, Flush, Got, SubmitRest, Submit, Drains, PoolEmpty, Drained
    <2>4. CASE LoopAbort \/ StreamReturn \/ Drain \/ SkipItem \/ ScanError \/ Join
      BY <2>4 DEF LoopAbort, StreamReturn, Drain, SkipItem, ScanError, Join, Got, AfterLoop,
                  Drains, PoolEmpty, Drained
    <2> QED
      BY <1>5, <2>1, <2>2, <2>3, <2>4 DEF Looping
  <1>6. CASE Meddling
    BY <1>6 DEF Meddling, RequestAbort, Meddle, Drains, PoolEmpty, Drained
  <1>7. CASE UNCHANGED vars
    BY <1>7 DEF vars, Drains, PoolEmpty, Drained
  <1> QED
    BY <1>1, <1>2, <1>3, <1>4, <1>5, <1>6, <1>7, Steps

-----------------------------------------------------------------------------
(* Removals after an abort.                                                  *)

(* No step begins another removal by a thread that made one since the abort. *)
LEMMA GracefulNext == ASSUME Types, Drains, Graceful, [Next]_vars PROVE Graceful'
  <1> USE DEF Types, TypeOK
  <1>1. ASSUME NEW a \in Actors, FileStep(a) PROVE Graceful'
    <2>1. /\ step[a] # "idle" /\ UNCHANGED <<abort, pc>>
          /\ \A b \in Actors \ {a} : step'[b] = step[b]
      BY <1>1 DEF FileStep, FileAbort, FileDryRun, FileEnter, Unlink, UnlinkGone,
                  UnlinkForce, Chmod, UnlinkError, Advance, Goto
    <2>2. /\ step[a] \in {"enter", "unlink", "retry"}
          /\ step'[a] \in {"idle", "enter", "unlink", "retry"}
          /\ step'[a] \in {"unlink", "retry"} =>
                step[a] = "unlink" \/ (step[a] = "enter" /\ ~abort)
          /\ \A b \in Actors : late'[b] # late[b] =>
                b = a /\ abort /\ step'[a] \in {"idle", "enter"}
      BY <1>1 DEF FileStep, FileAbort, FileDryRun, FileEnter, Unlink, UnlinkGone,
                  UnlinkForce, Chmod, UnlinkError, Advance, Goto, EraseBy, Erase
    <2>3. a = Main => pc \notin {"rmdir", "rmdir_retry"}
      BY <2>1 DEF Drains
    <2> QED
      BY <2>1, <2>2, <2>3 DEF Graceful
  <1>2. ASSUME NEW w \in Workers, TakeBatch(w) PROVE Graceful'
    BY <1>2 DEF TakeBatch, Graceful, Actors
  <1>3. CASE DirStep
    <2>1. Main \in Actors
      BY DEF Actors
    <2>2. CASE Rmdir
      <3>1. step[Main] = "idle" /\ pc' = "next" /\ UNCHANGED <<abort, step>>
        BY <2>2 DEF Rmdir, Drains
      <3>2. \A b \in Actors : late'[b] # late[b] => b = Main /\ abort
        BY <2>1, <2>2 DEF Rmdir, EraseBy, Erase
      <3> QED
        BY <3>1, <3>2 DEF Graceful
    <2>3. CASE RmdirForce
      BY <2>3 DEF RmdirForce, Chmod, Graceful
    <2>4. CASE DirEnter
      BY <2>4 DEF DirEnter, Graceful
    <2>5. CASE ~(Rmdir \/ RmdirForce \/ DirEnter)
      BY <1>3, <2>5 DEF DirStep, DirAbort, RootChanged, DirDryRun, RmdirGone,
                        RmdirNotEmpty, RmdirError, Graceful
    <2> QED
      BY <2>2, <2>3, <2>4, <2>5
  <1>4. CASE Scanning
    BY <1>4 DEF Scanning, Inspect, OpenRoot, ScanEnd, ScanDone, ScanFail, Misfortune, ScanFile, ScanDir,
                Yield, AfterLoop, Graceful
  <1>5. CASE Looping
    BY <1>5 DEF Looping, LoopAbort, StreamFile, StreamReturn, BatchFile, PostDir, Drain,
                SkipItem, ScanError, Flush, Join, AfterLoop, Graceful
  <1>6. CASE Meddling
    BY <1>6 DEF Meddling, RequestAbort, Meddle, Graceful
  <1>7. CASE UNCHANGED vars
    BY <1>7 DEF vars, Graceful
  <1> QED
    BY <1>1, <1>2, <1>3, <1>4, <1>5, <1>6, <1>7, Steps

-----------------------------------------------------------------------------
(* What was asked for.                                                       *)

(* No step hands over an entry the filter or the options keep.               *)
LEMMA AskedNext == ASSUME Types, Asked, [Next]_vars PROVE Asked'
  <1> USE DEF Types, TypeOK
  <1> DEFINE M == Matched(job)
  <1>1. ASSUME NEW a \in Actors, FileStep(a) PROVE Asked'
    <2>1. /\ step[a] # "idle" /\ UNCHANGED <<job, pc, item, batch, queue>>
          /\ \A b \in Actors \ {a} : step'[b] = step[b]
          /\ step'[a] \in {"unlink", "retry"} => step[a] = "unlink" \/ ~job.dryRun
          /\ \/ hand' = hand
             \/ hand' = [hand EXCEPT ![a] = <<>>]
             \/ hand' = [hand EXCEPT ![a] = Tail(@)]
      BY <1>1 DEF FileStep, FileAbort, FileDryRun, FileEnter, Unlink, UnlinkGone,
                  UnlinkForce, Chmod, UnlinkError, Advance, Goto
    <2>2. Tail(hand[a]) \in Seq(M) /\ <<>> \in Seq(M)
      BY <2>1, TailIsSeq DEF Asked, HandsBusy
    <2>3. hand' \in [Actors -> Seq(M)]
      BY <2>1, <2>2 DEF Asked
    <2> QED
      BY <2>1, <2>3 DEF Asked
  <1>2. ASSUME NEW w \in Workers, TakeBatch(w) PROVE Asked'
    <2>1. Head(queue) \in Seq(M) /\ Tail(queue) \in Seq(Seq(M))
      BY <1>2, TailIsSeq DEF TakeBatch, Asked
    <2> QED
      BY <1>2, <2>1 DEF TakeBatch, Asked
  <1>3. CASE DirStep
    BY <1>3 DEF DirStep, DirAbort, RootChanged, DirDryRun, DirEnter, Rmdir, RmdirGone,
                RmdirNotEmpty, RmdirForce, Chmod, RmdirError, Asked
  <1>4. CASE Scanning
    <2>1. UNCHANGED <<job, batch, queue, hand, step>>
      BY <1>4 DEF Scanning, Inspect, OpenRoot, ScanEnd, ScanDone, ScanFail, Misfortune, ScanFile, ScanDir
    <2>2. pc' \notin {"drain", "dir", "rmdir", "rmdir_retry"}
      BY <1>4 DEF Scanning, Inspect, OpenRoot, ScanEnd, ScanDone, ScanFail, Misfortune, ScanFile, ScanDir,
                  ScanStep, Yield, AfterLoop
    <2>3. item'.action = "DIR_POST" => item'.node \in Emitted(job)
      <3>1. CASE ScanEnd
        BY <3>1, StackTop, TreeAssumption DEF ScanEnd, Yield, Item, Emitted, Asked
      <3>2. CASE ~ScanEnd
        BY <1>4, <3>2 DEF Scanning, Inspect, OpenRoot, ScanDone, ScanFail, Misfortune, ScanFile, ScanDir,
                          Yield, Item, Asked
      <3> QED
        BY <3>1, <3>2
    <2>4. item'.action = "FILE" => item'.node \in M
      BY <1>4 DEF Scanning, Inspect, OpenRoot, ScanEnd, ScanDone, ScanFail, Misfortune, ScanFile, ScanDir,
                  Yield, Item, Asked
    <2> QED
      BY <2>1, <2>2, <2>3, <2>4 DEF Asked
  <1>5. CASE Looping
    <2>1. CASE StreamFile
      <3>1. <<item.node>> \in Seq(M)
        BY <2>1 DEF StreamFile, Got, Asked
      <3> QED
        BY <2>1, <3>1 DEF StreamFile, Asked
    <2>2. CASE BatchFile
      <3> DEFINE b == Append(batch, item.node)
      <3>1. b \in Seq(M)
        BY <2>2, AppendIsBatch DEF BatchFile, Got, Asked
      <3>2. Append(queue, b) \in Seq(Seq(M))
        BY <3>1, AppendIsBatch DEF Asked
      <3>3. batch' \in Seq(M) /\ queue' \in Seq(Seq(M))
        <4>1. \/ queue' = Append(queue, b) /\ batch' = <<>>
              \/ batch' = b /\ queue' = queue
          BY <2>2 DEF BatchFile, Submit
        <4>2. <<>> \in Seq(M) /\ queue \in Seq(Seq(M))
          BY DEF Asked
        <4> QED
          BY <3>1, <3>2, <4>1, <4>2
      <3> QED
        BY <2>2, <3>3 DEF BatchFile, Asked
    <2>3. CASE PostDir \/ Flush
      <3>1. Append(queue, batch) \in Seq(Seq(M))
        BY AppendIsBatch DEF Asked
      <3>2. batch' \in Seq(M) /\ queue' \in Seq(Seq(M))
        <4>1. \/ queue' = Append(queue, batch) /\ batch' = <<>>
              \/ batch' = batch /\ queue' = queue
          BY <2>3 DEF PostDir, Flush, SubmitRest, Submit
        <4>2. <<>> \in Seq(M) /\ batch \in Seq(M) /\ queue \in Seq(Seq(M))
          BY DEF Asked
        <4> QED
          BY <3>1, <4>1, <4>2
      <3> QED
        BY <2>3, <3>2 DEF PostDir, Flush, Got, Asked
    <2>4. CASE LoopAbort \/ StreamReturn \/ Drain \/ SkipItem \/ ScanError \/ Join
      BY <2>4 DEF LoopAbort, StreamReturn, Drain, SkipItem, ScanError, Join, AfterLoop, Asked
    <2> QED
      BY <1>5, <2>1, <2>2, <2>3, <2>4 DEF Looping
  <1>6. CASE Meddling
    BY <1>6 DEF Meddling, RequestAbort, Meddle, Asked
  <1>7. CASE UNCHANGED vars
    BY <1>7 DEF vars, Asked
  <1> QED
    BY <1>1, <1>2, <1>3, <1>4, <1>5, <1>6, <1>7, Steps

-----------------------------------------------------------------------------
(* The theorems.                                                             *)

(* The invariant holds when run() starts.                                    *)
LEMMA IInvInit == Init => IInv
  <1> SUFFICES ASSUME Init PROVE IInv
    OBVIOUS
  <1>1. Asked
    <2>1. <<>> \in Seq(Matched(job)) /\ <<>> \in Seq(Seq(Matched(job)))
      OBVIOUS
    <2> QED
      BY <2>1 DEF Init, DiskInit, Asked, Item
  <1>2. Drains
    BY DEF Init, DiskInit, Drains, PoolEmpty, Drained, Actors
  <1>3. Graceful
    BY DEF Init, DiskInit, Graceful
  <1>4. NamesOnce
    BY DEF Init, DiskInit, NamesOnce
  <1> QED
    BY <1>1, <1>2, <1>3, <1>4, TypesInit DEF IInv

(* IInv is an invariant of Deleter.                                          *)
THEOREM Invariance == Spec => []IInv
  <1>1. Init => IInv
    BY IInvInit
  <1>2. IInv /\ [Next]_vars => IInv'
    BY TypesNext, NamesNext, DrainsNext, GracefulNext, AskedNext DEF IInv
  <1> QED
    BY <1>1, <1>2, PTL DEF Spec

(* Every variable holds what the code can put there.                         *)
THEOREM TypeCorrectness == Spec => []TypeOK
  <1>1. IInv => TypeOK
    BY DEF IInv, Types
  <1> QED
    BY <1>1, Invariance, PTL

(* No directory is removed, and run() does not return, while a file that was *)
(* handed to the pool still waits for its worker: whatever the tree, the     *)
(* number of workers and the size of the batches.                            *)
THEOREM PostOrderRemoval == Spec => []PostOrder
  <1>1. IInv => PostOrder
    <2> SUFFICES ASSUME IInv, pc \in {"dir", "rmdir", "rmdir_retry", "done"}
                 PROVE  Waiting = {}
      BY DEF PostOrder
    <2>1. PoolEmpty /\ step[Main] = "idle"
      BY DEF IInv, Drains
    <2>2. \A a \in Actors : hand[a] = <<>>
      BY <2>1 DEF IInv, Types, HandsBusy, PoolEmpty, Drained, Actors
    <2>3. Range(<<>>) = {}
      BY DEF Range
    <2>4. /\ Range(batch) = {} /\ Range(queue) = {}
          /\ \A a \in Actors : Range(hand[a]) = {}
      BY <2>1, <2>2, <2>3 DEF PoolEmpty, Drained
    <2> QED
      BY <2>4 DEF Waiting
  <1> QED
    BY <1>1, Invariance, PTL

(* The abstract specification means the same by its words.                   *)
LEMMA SameWords ==
    /\ Promise!Actors = Actors
    /\ \A j : Promise!Allowed(j) = Allowed(j)
    /\ \A n, t : Promise!Leaf(n, t) <=> Leaf(n, t)
  BY DEF Promise!Actors, Actors, Promise!Allowed, Allowed, Promise!Emitted, Emitted,
         Promise!Matched, Matched, Promise!Removable, Removable, Promise!Files, Files,
         Promise!Leaf, Leaf, Promise!Children, Children

(* A removal by thread a is one the abstract specification allows.           *)
LEMMA RemovalAllowed ==
    ASSUME IInv, pc # "done", NEW a \in Actors, NEW n \in Allowed(job) \cap present,
           Leaf(n, present), late[a] = 0, EraseBy(a, n), job' = job, abort' = abort,
           pc' # "done"
    PROVE  Promise!Next
  <1> DEFINE g == {b \in Actors : late[b] = 0}
             h == {b \in Actors : late'[b] = 0}
  <1>1. a \in g /\ n \in present \cap Promise!Allowed(job) /\ Promise!Leaf(n, present)
    BY SameWords
  <1>2. h = IF abort THEN g \ {a} ELSE g
    BY DEF EraseBy, Erase, IInv, Types, TypeOK
  <1>3. a \in Promise!Actors /\ n \in Nodes
    BY SameWords DEF IInv, Types, TypeOK
  <1>4. Promise!Remove(a, n)
    BY <1>1, <1>2 DEF Promise!Remove, EraseBy, Erase
  <1> QED
    BY <1>3, <1>4 DEF Promise!Next

(* A file has nothing in it.                                                 *)
LEMMA FilesAreLeaves == ASSUME NEW f \in Files, NEW t PROVE Leaf(f, t)
  BY TreeAssumption DEF Files, Leaf, Children

(* A step that removes nothing is one of other processes, an abort, the      *)
(* return, or none at all.                                                   *)
LEMMA OtherKept ==
    ASSUME IInv, UNCHANGED <<job, removed, late>>,
           \/ UNCHANGED <<present, abort>>
           \/ UNCHANGED <<present, pc>> /\ abort' = TRUE
           \/ UNCHANGED <<pc, abort>> /\ present' \subseteq Nodes \ removed,
           pc = "done" => pc' = "done"
    PROVE  [Promise!Next]_Promise!vars
  <1> DEFINE g == {b \in Actors : late[b] = 0}
  <1>1. g' = g
    OBVIOUS
  <1>2. CASE UNCHANGED <<present, abort>>
    BY <1>1, <1>2 DEF Promise!Next, Promise!Return, Promise!vars
  <1>3. CASE UNCHANGED <<present, pc>> /\ abort' = TRUE
    BY <1>1, <1>3 DEF Promise!Next, Promise!Abort, Promise!vars
  <1>4. CASE UNCHANGED <<pc, abort>> /\ present' \subseteq Nodes \ removed
    BY <1>1, <1>4 DEF Promise!Next, Promise!Interfere, Promise!vars
  <1> QED
    BY <1>2, <1>3, <1>4

(* Every step of Deleter is a step of TreeRemoval, or leaves it alone.       *)
LEMMA StepKept == ASSUME IInv, IInv', [Next]_vars
                  PROVE  [Promise!Next]_Promise!vars
  <1>1. ASSUME NEW a \in Actors, FileStep(a) PROVE [Promise!Next]_Promise!vars
    <2>1. step[a] # "idle" /\ UNCHANGED <<job, pc, abort>>
      BY <1>1 DEF FileStep, FileAbort, FileDryRun, FileEnter, Unlink, UnlinkGone,
                  UnlinkForce, Chmod, UnlinkError
    <2>2. CASE Unlink(a)
      <3>1. pc # "done"
        BY <2>1, JobAssumption DEF IInv, Drains, PoolEmpty, Drained, Actors
      <3>2. late[a] = 0 /\ ~job.dryRun
        BY <2>2 DEF Unlink, IInv, Graceful, Asked
      <3>3. Current(a) \in Matched(job)
        BY <2>1, TailIsSeq DEF IInv, Types, HandsBusy, Asked, Current
      <3>4. Current(a) \in Files /\ Current(a) \in Allowed(job)
        BY <3>2, <3>3, JobAssumption DEF Matched, Allowed
      <3>5. Current(a) \in present /\ EraseBy(a, Current(a))
        BY <2>2 DEF Unlink, Removal
      <3>6. Leaf(Current(a), present)
        BY <3>4, FilesAreLeaves
      <3>7. job' = job /\ abort' = abort /\ pc' # "done"
        BY <2>1, <3>1
      <3> QED
        BY <3>1, <3>2, <3>4, <3>5, <3>6, <3>7, RemovalAllowed
    <2>3. CASE ~Unlink(a)
      <3>1. UNCHANGED <<present, removed, late>>
        BY <1>1, <2>3 DEF FileStep, FileAbort, FileDryRun, FileEnter, UnlinkGone,
                          UnlinkForce, Chmod, UnlinkError
      <3> QED
        BY <2>1, <3>1, OtherKept
    <2> QED
      BY <2>2, <2>3
  <1>2. ASSUME NEW w \in Workers, TakeBatch(w) PROVE [Promise!Next]_Promise!vars
    BY <1>2, OtherKept DEF TakeBatch
  <1>3. CASE DirStep
    <2>1. CASE Rmdir
      <3>1. pc # "done" /\ pc' # "done" /\ job' = job /\ abort' = abort
        BY <2>1 DEF Rmdir
      <3>2. late[Main] = 0 /\ ~job.dryRun /\ Main \in Actors
        BY <2>1 DEF Rmdir, IInv, Graceful, Asked, Actors
      <3>3. item.node \in Emitted(job)
        BY <2>1 DEF Rmdir, IInv, Asked
      <3>4. item.node \in Allowed(job)
        BY <3>2, <3>3 DEF Allowed
      <3>5. /\ item.node \in present /\ Leaf(item.node, present)
            /\ EraseBy(Main, item.node)
        BY <2>1 DEF Rmdir, Removal
      <3> QED
        BY <3>1, <3>2, <3>4, <3>5, RemovalAllowed
    <2>2. CASE ~Rmdir
      <3>1. /\ UNCHANGED <<job, present, abort, removed, late>>
            /\ pc # "done"
        BY <1>3, <2>2 DEF DirStep, DirAbort, RootChanged, DirDryRun, DirEnter, RmdirGone,
                          RmdirNotEmpty, RmdirForce, Chmod, RmdirError
      <3> QED
        BY <3>1, OtherKept
    <2> QED
      BY <2>1, <2>2
  <1>4. CASE Scanning
    <2>1. UNCHANGED <<job, present, abort, removed, late>> /\ pc # "done"
      BY <1>4 DEF Scanning, Inspect, OpenRoot, ScanEnd, ScanDone, ScanFail, Misfortune, ScanFile,
                  ScanDir, ScanStep
    <2> QED
      BY <2>1, OtherKept
  <1>5. CASE Looping
    <2>1. UNCHANGED <<job, present, abort, removed, late>> /\ pc # "done"
      BY <1>5 DEF Looping, LoopAbort, StreamFile, StreamReturn, BatchFile, PostDir, Drain,
                  SkipItem, ScanError, Flush, Join, Got
    <2> QED
      BY <2>1, OtherKept
  <1>6. CASE RequestAbort
    BY <1>6, OtherKept DEF RequestAbort
  <1>7. CASE Meddle
    <2>1. UNCHANGED <<job, pc, abort, removed, late>>
      BY <1>7 DEF Meddle, Others, Vanish, Appear, Protect, ReplaceRoot
    <2>2. present' \subseteq Nodes \ removed
      BY <2>1 DEF IInv, NamesOnce, Types, TypeOK
    <2> QED
      BY <2>1, <2>2, OtherKept
  <1>8. CASE UNCHANGED vars
    BY <1>8, OtherKept DEF vars
  <1> QED
    BY <1>1, <1>2, <1>3, <1>4, <1>5, <1>6, <1>7, <1>8, Steps DEF Meddling

(* The Python engine keeps the promise of TreeRemoval for every tree, filter *)
(* and combination of options, with any number of workers: it removes only   *)
(* what was asked for, nothing in a dry run, at most one entry per thread    *)
(* after an abort, and nothing after run() has returned.                     *)
THEOREM PromiseKept == Spec => KeepsPromise
  <1>1. Init => Promise!Init
    <2> SUFFICES ASSUME Init PROVE Promise!Init
      OBVIOUS
    <2>1. {a \in Actors : late[a] = 0} = Promise!Actors
      BY SameWords DEF Init, DiskInit
    <2> QED
      BY <2>1 DEF Init, DiskInit, Promise!Init
  <1>2. IInv /\ IInv' /\ [Next]_vars => [Promise!Next]_Promise!vars
    BY StepKept
  <1> QED
    BY <1>1, <1>2, Invariance, PTL DEF Spec, Promise!Spec, KeepsPromise

-----------------------------------------------------------------------------
(* A target that was replaced.                                               *)

(* The target was replaced and no rmdir of it is under way.                  *)
Replaced ==
    /\ ~sameRoot
    /\ Root \notin removed
    /\ pc # "start"
    /\ pc \in {"rmdir", "rmdir_retry"} => item.node # Root

(* Nothing makes the new target the old one, and none of its rmdirs starts.  *)
LEMMA ReplacedNext == ASSUME IInv, Replaced, [Next]_vars PROVE Replaced'
  <1> USE DEF Replaced
  <1>1. ASSUME NEW a \in Actors, FileStep(a) PROVE Replaced'
    <2>1. UNCHANGED <<sameRoot, pc, item>> /\ (removed' = removed \/ removed' = removed \cup {Current(a)})
      BY <1>1 DEF FileStep, FileAbort, FileDryRun, FileEnter, Unlink, UnlinkGone,
                  UnlinkForce, Chmod, UnlinkError, EraseBy, Erase
    <2>2. step[a] # "idle"
      BY <1>1 DEF FileStep, FileAbort, FileDryRun, FileEnter, Unlink, UnlinkGone, UnlinkForce,
                  UnlinkError
    <2>3. Current(a) \in Files
      BY <2>2, TailIsSeq DEF IInv, Types, TypeOK, HandsBusy, Current
    <2>4. Current(a) # Root
      BY <2>3, TreeAssumption DEF Files
    <2> QED
      BY <2>1, <2>4
  <1>2. ASSUME NEW w \in Workers, TakeBatch(w) PROVE Replaced'
    BY <1>2 DEF TakeBatch
  <1>3. CASE DirStep
    <2>1. CASE Rmdir
      BY <2>1 DEF Rmdir, EraseBy, Erase
    <2>2. CASE DirEnter
      BY <2>2, TreeAssumption DEF DirEnter, Unchanged
    <2>3. CASE RmdirForce
      BY <2>3 DEF RmdirForce, Chmod
    <2>4. CASE ~(Rmdir \/ DirEnter \/ RmdirForce)
      BY <1>3, <2>4 DEF DirStep, DirAbort, RootChanged, DirDryRun, RmdirGone, RmdirNotEmpty,
                        RmdirError
    <2> QED
      BY <2>1, <2>2, <2>3, <2>4
  <1>4. CASE Scanning
    BY <1>4 DEF Scanning, Inspect, OpenRoot, ScanEnd, ScanDone, ScanFail, Misfortune, ScanFile,
                ScanDir, ScanStep, Yield, AfterLoop
  <1>5. CASE Looping
    BY <1>5 DEF Looping, LoopAbort, StreamFile, StreamReturn, BatchFile, PostDir, Drain,
                SkipItem, ScanError, Flush, Join, AfterLoop
  <1>6. CASE Meddling
    BY <1>6 DEF Meddling, RequestAbort, Meddle, Others, Vanish, Appear, Protect, ReplaceRoot
  <1>7. CASE UNCHANGED vars
    BY <1>7 DEF vars
  <1> QED
    BY <1>1, <1>2, <1>3, <1>4, <1>5, <1>6, <1>7, Steps

(* A target that was replaced before delete_dir_entry compared it with the   *)
(* one run() inspected is never removed, whatever the other processes do     *)
(* afterwards.                                                               *)
THEOREM ReplacedTargetKept == Spec => ReplacedRootKept
  <1>1. ~sameRoot /\ Root \notin removed /\ pc \notin {"start", "rmdir", "rmdir_retry"}
            => Replaced
    BY DEF Replaced
  <1>2. Replaced => Root \notin removed
    BY DEF Replaced
  <1>3. IInv /\ Replaced /\ [Next]_vars => Replaced'
    BY ReplacedNext
  <1> QED
    BY <1>1, <1>2, <1>3, Invariance, PTL DEF Spec, ReplacedRootKept
===============================================================================
