---------------------------- MODULE CEngineProofs ----------------------------
(* What holds of CEngine for every tree, stack size, value read from a moved *)
(* stack, failure, interference and abort.                                   *)
EXTENDS CEngine, TreeProofs, FiniteSetTheorems, SequenceTheorems, TLAPS

USE DEF disk, abortVars, frameVars, entryVars, walkVars, outVars, lateVars

-----------------------------------------------------------------------------
(* Types.                                                                    *)

DiskOK ==
    /\ present \subseteq Nodes /\ fresh \subseteq Nodes /\ removed \subseteq Nodes
    /\ mode \subseteq Dirs \cup {Container}
    /\ sameRoot \in BOOLEAN
    /\ env \in 0 .. EnvBudget

ControlOK ==
    /\ job \in Jobs
    /\ {event, flag, seen} \subseteq BOOLEAN
    /\ request \in {"none", "half", "made"}
    /\ pc \in {"read", "write", "enter", "loop", "remove", "retry", "collect", "done"}

StackOK ==
    /\ stack \in Seq(Frames)
    /\ cap \in Nat /\ cap > 0
    /\ Len(stack) <= cap

WalkOK ==
    /\ cur \in Nodes
    /\ blame \in {"failed", "skipped"}
    /\ unread \subseteq Nodes /\ given \subseteq Nodes
    /\ mistaken \subseteq Dirs

CountOK ==
    /\ cstats \in [Counters -> Nat] /\ stats \in [Counters -> Nat]
    /\ ret \in {0, -1, -2}
    /\ late \in Nat /\ after \in Nat

Types == DiskOK /\ ControlOK /\ StackOK /\ WalkOK /\ CountOK

(* Together they are the type invariant of CEngine.                         *)
LEMMA TypesAreTypeOK == Types => TypeOK
BY DEF Types, DiskOK, ControlOK, StackOK, WalkOK, CountOK, TypeOK

(* The state the call starts from is well typed.                            *)
LEMMA TypesInit == Init => Types
<1> SUFFICES ASSUME Init PROVE Types
  OBVIOUS
<1>1. DiskOK
  BY InitialAssumption, DiskAssumption DEF Init, DiskInit, DiskOK
<1>2. ControlOK
  BY DEF Init, ControlOK
<1>3. StackOK
  BY CEngineAssumption DEF Init, StackOK
<1>4. WalkOK
  BY TreeAssumption DEF Init, WalkOK
<1>5. CountOK
  BY DEF Init, CountOK, NoStats
<1> QED BY <1>1, <1>2, <1>3, <1>4, <1>5 DEF Types

(* The disk: only removals, changes of mode and other processes touch it.    *)
LEMMA OthersType == ASSUME DiskOK, Others \/ Misfortune PROVE DiskOK'
<1>1. ASSUME Interfere PROVE env' \in 0 .. EnvBudget
  BY <1>1, DiskAssumption DEF DiskOK, Interfere
<1>2. CASE Misfortune
  BY <1>1, <1>2 DEF Misfortune, DiskOK
<1>3. CASE ReplaceRoot
  BY <1>1, <1>3, TreeAssumption DEF ReplaceRoot, DiskOK
<1>4. ASSUME NEW n \in Nodes, Vanish(n) PROVE DiskOK'
  BY <1>1, <1>4 DEF Vanish, DiskOK
<1>5. ASSUME NEW n \in Nodes, Appear(n) PROVE DiskOK'
  BY <1>1, <1>5 DEF Appear, DiskOK
<1>6. ASSUME NEW n \in Nodes, Protect(n) PROVE DiskOK'
  BY <1>1, <1>6 DEF Protect, DiskOK
<1> QED BY <1>2, <1>3, <1>4, <1>5, <1>6 DEF Others

(* The actions, by what they do to the disk. *)
Quiet ==
    \/ ReadEvent \/ WriteFlag \/ Collect \/ EnterAborted \/ EnterFails \/ Enter
    \/ LoopAbort \/ LoopDone
    \/ \E n \in Nodes : ReadFile(n) \/ ReadClosedDir(n) \/ ReadDir(n)
    \/ ReadEnd \/ RemoveGone \/ RemoveFails
    \/ RequestEvent \/ RequestFlag

(* These are all.                                                           *)
LEMMA Steps ==
    [Next]_vars => \/ Quiet \/ Remove \/ RemoveForce \/ Shortage \/ Meddle \/ UNCHANGED vars
BY DEF Next, Call, Environment, RemoveStep, Finished, Quiet

(* The quiet ones leave it alone.                                           *)
LEMMA QuietDisk == Quiet => UNCHANGED disk
BY DEF Quiet, ReadEvent, WriteFlag, Collect, EnterAborted, EnterFails, Enter, LoopAbort, LoopDone,
       ReadFile, ReadClosedDir, ReadDir, ReadEnd, RemoveGone, RemoveFails, RequestEvent, RequestFlag

(* A failing call of the system leaves it alone, too.                       *)
LEMMA ShortageDisk == Shortage => Misfortune
BY DEF Shortage, EnterNoMemory, ReadNoMemory, ReadDirNoGrowth, ReadError

(* So the disk stays one.                                                   *)
LEMMA DiskStep == ASSUME DiskOK, [Next]_vars PROVE DiskOK'
<1>1. CASE Quiet
  BY <1>1, QuietDisk DEF DiskOK
<1>2. CASE Remove
  BY <1>2 DEF Remove, Works, Removal, Erase, DiskOK
<1>3. CASE RemoveForce
  BY <1>3 DEF RemoveForce, Chmod, DiskOK
<1>4. CASE Shortage
  BY <1>4, ShortageDisk, OthersType
<1>5. CASE Meddle
  BY <1>5, OthersType DEF Meddle
<1>6. CASE UNCHANGED vars
  BY <1>6 DEF vars, DiskOK
<1> QED BY <1>1, <1>2, <1>3, <1>4, <1>5, <1>6, Steps

(* The call stays at one of its places.                                     *)
LEMMA ControlStep == ASSUME ControlOK, [Next]_vars PROVE ControlOK'
<1>1. CASE Quiet
  <2>1. CASE \/ ReadEvent \/ WriteFlag \/ Collect \/ EnterAborted \/ EnterFails \/ Enter
             \/ LoopAbort \/ LoopDone \/ RequestEvent \/ RequestFlag
    BY <2>1 DEF ControlOK, ReadEvent, WriteFlag, Collect, EnterAborted, EnterFails, Enter, LoopAbort,
                LoopDone, RequestEvent, RequestFlag, Return
  <2>2. CASE \/ \E n \in Nodes : ReadFile(n) \/ ReadClosedDir(n) \/ ReadDir(n)
             \/ ReadEnd \/ RemoveGone \/ RemoveFails
    BY <2>2 DEF ControlOK, ReadFile, ReadClosedDir, ReadDir, ReadEnd, FinishDir, RemoveGone,
                RemoveFails
  <2> QED BY <1>1, <2>1, <2>2 DEF Quiet
<1>2. CASE Remove \/ RemoveForce \/ Shortage \/ Meddle \/ UNCHANGED vars
  BY <1>2 DEF ControlOK, Remove, RemoveForce, Shortage, EnterNoMemory, ReadNoMemory,
              ReadDirNoGrowth, ReadError, FinishDir, Return, Meddle, vars
<1> QED BY <1>1, <1>2, Steps

(* The first entries of a sequence.                                          *)
LEMMA FirstOnes == ASSUME NEW S, NEW s, NEW k \in Nat, \A i \in 1 .. k : s[i] \in S
                   PROVE  /\ SubSeq(s, 1, k) \in Seq(S)
                          /\ Len(SubSeq(s, 1, k)) = k
                          /\ \A i \in 1 .. k : SubSeq(s, 1, k)[i] = s[i]
OBVIOUS

(* What is left of a stack without its innermost frame.                      *)
LEMMA PopFrame == ASSUME NEW S, NEW s \in Seq(S), s # <<>>
                  PROVE  /\ Len(s) \in Nat \ {0}
                         /\ s[Len(s)] \in S
                         /\ SubSeq(s, 1, Len(s) - 1) \in Seq(S)
                         /\ Len(SubSeq(s, 1, Len(s) - 1)) = Len(s) - 1
                         /\ \A i \in 1 .. Len(s) - 1 : SubSeq(s, 1, Len(s) - 1)[i] = s[i]
<1>1. Len(s) \in Nat \ {0}
  BY EmptySeq
<1>2. \A i \in 1 .. Len(s) : s[i] \in S
  BY ElementOfSeq
<1> DEFINE k == Len(s) - 1
<1>3. k \in Nat
  BY <1>1
<1>4. \A i \in 1 .. k : s[i] \in S
  BY <1>1, <1>2
<1> HIDE DEF k
<1>5. /\ SubSeq(s, 1, k) \in Seq(S)
      /\ Len(SubSeq(s, 1, k)) = k
      /\ \A i \in 1 .. k : SubSeq(s, 1, k)[i] = s[i]
  BY <1>3, <1>4, FirstOnes
<1>6. s[Len(s)] \in S
  BY <1>1, <1>2
<1> QED BY <1>1, <1>5, <1>6 DEF k

(* And of one with another frame.                                           *)
LEMMA PushFrame == ASSUME NEW S, NEW s \in Seq(S), NEW x \in S
                   PROVE  /\ Append(s, x) \in Seq(S)
                          /\ Len(Append(s, x)) = Len(s) + 1
                          /\ \A i \in 1 .. Len(s) : Append(s, x)[i] = s[i]
                          /\ Append(s, x)[Len(s) + 1] = x
BY AppendProperties

(* The steps that change the stack. *)
LEMMA StackChanges ==
    [Next]_vars => \/ Enter \/ (\E n \in Nodes : ReadDir(n)) \/ FinishDir
                   \/ UNCHANGED <<stack, cap>>
<1> SUFFICES ASSUME [Next]_vars
             PROVE  \/ Enter \/ (\E n \in Nodes : ReadDir(n)) \/ FinishDir
                    \/ UNCHANGED <<stack, cap>>
  OBVIOUS
<1>1. CASE Quiet
  BY <1>1 DEF Quiet, ReadEvent, WriteFlag, Collect, EnterAborted, EnterFails, LoopAbort, LoopDone,
              RequestEvent, RequestFlag, ReadFile, ReadClosedDir, ReadEnd, RemoveGone, RemoveFails
<1>2. CASE Remove \/ RemoveForce \/ Shortage \/ Meddle \/ UNCHANGED vars
  BY <1>2 DEF Remove, RemoveForce, Shortage, EnterNoMemory, ReadNoMemory, ReadDirNoGrowth, ReadError,
              Meddle, vars
<1> QED BY <1>1, <1>2, Steps

(* The frames fit into the stack, whatever depth a new one gets.            *)
LEMMA StackStep == ASSUME StackOK, [Next]_vars PROVE StackOK'
<1>1. CASE Enter
  <2>1. [dir |-> Root, depth |-> 0] \in Frames
    BY TreeAssumption DEF Frames
  <2>2. <<[dir |-> Root, depth |-> 0]>> \in Seq(Frames)
    BY <2>1
  <2>3. Len(<<[dir |-> Root, depth |-> 0]>>) = 1
    OBVIOUS
  <2> QED BY <1>1, <2>2, <2>3 DEF Enter, StackOK
<1>2. ASSUME NEW n \in Nodes, ReadDir(n) PROVE StackOK'
  <2>1. n \in Dirs /\ stack # <<>>
    BY <1>2 DEF ReadDir, Take, Reading
  <2>2. Top \in Frames
    BY <2>1, PopFrame DEF StackOK, Top
  <2>3. NewDepths \subseteq Int
    BY <2>2, CEngineAssumption DEF NewDepths, Frames
  <2>4. PICK k \in NewDepths : stack' = Append(stack, [dir |-> n, depth |-> k])
    BY <1>2 DEF ReadDir
  <2>5. [dir |-> n, depth |-> k] \in Frames
    BY <2>1, <2>3, <2>4 DEF Frames
  <2>6. stack' \in Seq(Frames) /\ Len(stack') = Len(stack) + 1
    BY <2>4, <2>5, PushFrame DEF StackOK
  <2>7. cap' = IF Len(stack) >= cap THEN 2 * cap ELSE cap
    BY <1>2 DEF ReadDir, Full
  <2>8. Len(stack) \in Nat
    BY DEF StackOK
  <2> QED BY <2>6, <2>7, <2>8 DEF StackOK
<1>3. CASE FinishDir
  <2>1. stack # <<>> /\ stack' = SubSeq(stack, 1, Len(stack) - 1) /\ cap' = cap
    BY <1>3 DEF FinishDir, Reading, Below
  <2>2. stack' \in Seq(Frames) /\ Len(stack') = Len(stack) - 1
    BY <2>1, PopFrame DEF StackOK
  <2>3. Len(stack) \in Nat
    BY DEF StackOK
  <2> QED BY <2>1, <2>2, <2>3 DEF StackOK
<1>4. CASE UNCHANGED <<stack, cap>>
  BY <1>4 DEF StackOK
<1> QED BY <1>1, <1>2, <1>3, <1>4, StackChanges

(* The innermost frame is of a directory of the tree.                        *)
LEMMA TopFrame == ASSUME StackOK, stack # <<>>
                  PROVE  Top.dir \in Dirs /\ Top.dir \in Nodes /\ Top.depth \in Int
<1>1. Top \in Frames
  BY PopFrame DEF StackOK, Top
<1> QED BY <1>1, TreeAssumption DEF Frames

(* The walk meets names of the tree only.                                    *)
LEMMA WalkStep == ASSUME StackOK, WalkOK, [Next]_vars PROVE WalkOK'
<1>1. CASE Quiet
  <2>1. CASE \/ ReadEvent \/ WriteFlag \/ Collect \/ EnterAborted \/ EnterFails \/ Enter
             \/ LoopAbort \/ LoopDone \/ RequestEvent \/ RequestFlag \/ RemoveGone \/ RemoveFails
    BY <2>1 DEF WalkOK, ReadEvent, WriteFlag, Collect, EnterAborted, EnterFails, Enter, LoopAbort,
                LoopDone, RequestEvent, RequestFlag, RemoveGone, RemoveFails, Children
  <2>2. ASSUME NEW n \in Nodes, ReadFile(n) \/ ReadClosedDir(n) \/ ReadDir(n) PROVE WalkOK'
    BY <2>2 DEF WalkOK, ReadFile, ReadClosedDir, ReadDir, Take, Children
  <2>3. CASE ReadEnd
    <3>1. FinishDir
      BY <2>3 DEF ReadEnd
    <3>2. Top.dir \in Dirs /\ Top.dir \in Nodes
      BY <3>1, TopFrame DEF FinishDir, Reading
    <3> QED BY <3>1, <3>2 DEF FinishDir, WalkOK
  <2> QED BY <1>1, <2>1, <2>2, <2>3 DEF Quiet
<1>2. CASE Shortage
  <2>1. CASE EnterNoMemory \/ \E n \in Nodes : ReadNoMemory(n) \/ ReadDirNoGrowth(n)
    BY <2>1 DEF WalkOK, EnterNoMemory, ReadNoMemory, ReadDirNoGrowth, Take
  <2>2. CASE ReadError
    <3>1. FinishDir
      BY <2>2 DEF ReadError
    <3>2. Top.dir \in Dirs /\ Top.dir \in Nodes
      BY <3>1, TopFrame DEF FinishDir, Reading
    <3> QED BY <3>1, <3>2 DEF FinishDir, WalkOK
  <2> QED BY <1>2, <2>1, <2>2 DEF Shortage
<1>3. CASE Remove \/ RemoveForce \/ Meddle \/ UNCHANGED vars
  BY <1>3 DEF WalkOK, Remove, RemoveForce, Refusal, Meddle, vars
<1> QED BY <1>1, <1>2, <1>3, Steps

(* Adding one to a counter of the engine.                                    *)
LEMMA CountOne == ASSUME cstats \in [Counters -> Nat], NEW c \in Counters, Count(c)
                  PROVE  /\ cstats' \in [Counters -> Nat]
                         /\ Counted' = Counted + IF c = "discovered" THEN 0 ELSE 1
                         /\ \A d \in Counters \ {c} : cstats'[d] = cstats[d]
                         /\ cstats'[c] = cstats[c] + 1
<1>1. /\ cstats' \in [Counters -> Nat]
      /\ \A d \in Counters \ {c} : cstats'[d] = cstats[d]
      /\ cstats'[c] = cstats[c] + 1
  BY DEF Count, Plus
<1>2. \A d \in Counters : cstats[d] \in Nat
  OBVIOUS
<1>3. /\ "files" \in Counters /\ "dirs" \in Counters /\ "failed" \in Counters
      /\ "skipped" \in Counters
  BY DEF Counters
<1>4. CASE c = "discovered"
  <2>1. /\ cstats'["files"] = cstats["files"] /\ cstats'["dirs"] = cstats["dirs"]
        /\ cstats'["failed"] = cstats["failed"] /\ cstats'["skipped"] = cstats["skipped"]
    BY <1>1, <1>3, <1>4
  <2>2. Counted' = Counted /\ Counted \in Int
    BY <1>2, <1>3, <2>1 DEF Counted
  <2> QED BY <1>1, <1>4, <2>2
<1>5. ASSUME NEW k \in {"files", "dirs", "failed", "skipped"}, c = k
      PROVE  Counted' = Counted + 1
  <2>1. \A d \in {"files", "dirs", "failed", "skipped"} :
            cstats'[d] = cstats[d] + IF d = k THEN 1 ELSE 0
    BY <1>1, <1>2, <1>3, <1>5
  <2>2. \A d \in {"files", "dirs", "failed", "skipped"} : cstats[d] \in Nat
    BY <1>2, <1>3
  <2> QED BY <2>1, <2>2 DEF Counted
<1>6. c = "discovered" \/ c \in {"files", "dirs", "failed", "skipped"}
  BY DEF Counters
<1> QED BY <1>1, <1>4, <1>5, <1>6

(* A file found in a dry run: two counters.                                  *)
LEMMA CountTwo == ASSUME cstats \in [Counters -> Nat],
                         cstats' = Plus(Plus(cstats, "discovered"), "files")
                  PROVE  cstats' \in [Counters -> Nat] /\ Counted' = Counted + 1
<1>1. /\ "discovered" \in Counters /\ "files" \in Counters /\ "dirs" \in Counters
      /\ "failed" \in Counters /\ "skipped" \in Counters
  BY DEF Counters
<1>2. \A d \in Counters : cstats[d] \in Nat
  OBVIOUS
<1>3. /\ cstats' \in [Counters -> Nat]
      /\ \A d \in Counters \ {"discovered", "files"} : cstats'[d] = cstats[d]
      /\ cstats'["files"] = cstats["files"] + 1
  BY <1>1, <1>2 DEF Plus
<1>4. /\ cstats'["dirs"] = cstats["dirs"] /\ cstats'["failed"] = cstats["failed"]
      /\ cstats'["skipped"] = cstats["skipped"]
  BY <1>1, <1>3
<1>5. /\ cstats["files"] \in Nat /\ cstats["dirs"] \in Nat /\ cstats["failed"] \in Nat
      /\ cstats["skipped"] \in Nat
  BY <1>1, <1>2
<1> QED BY <1>3, <1>4, <1>5 DEF Counted

(* The counter for a failure is one of the counters.                         *)
LEMMA FailureCounters == ASSUME WalkOK
                         PROVE  /\ (IF pc = "retry" THEN blame ELSE Refusal(cur)) \in {"failed", "skipped"}
                                /\ Kind(cur) \in {"files", "dirs"}
BY DEF WalkOK, Refusal, Kind

(* What a step does to the counters of the engine.                           *)
LEMMA CountersStep == ASSUME WalkOK, [Next]_vars
                      PROVE  \/ \E c \in Counters : Count(c)
                             \/ cstats' = Plus(Plus(cstats, "discovered"), "files")
                             \/ cstats' = cstats
<1> DEFINE Known == \/ \E c \in Counters : Count(c)
                    \/ cstats' = Plus(Plus(cstats, "discovered"), "files")
                    \/ cstats' = cstats
<1>1. {"discovered", "files", "dirs", "failed", "skipped"} \subseteq Counters
  BY DEF Counters
<1>2. CASE \/ ReadEvent \/ WriteFlag \/ Collect \/ EnterAborted \/ Enter
           \/ LoopAbort \/ LoopDone \/ RequestEvent \/ RequestFlag \/ RemoveForce
           \/ Meddle \/ EnterNoMemory \/ UNCHANGED vars
  BY <1>2 DEF ReadEvent, WriteFlag, Collect, EnterAborted, Enter, LoopAbort, LoopDone, RequestEvent,
              RequestFlag, RemoveForce, Meddle, EnterNoMemory, vars
<1>3. CASE EnterFails
  BY <1>1, <1>3 DEF EnterFails
<1>4. ASSUME NEW n \in Nodes,
             ReadClosedDir(n) \/ ReadDir(n) \/ ReadNoMemory(n) \/ ReadDirNoGrowth(n)
      PROVE  Known
  BY <1>1, <1>4 DEF ReadClosedDir, ReadDir, ReadNoMemory, ReadDirNoGrowth
<1>5. ASSUME NEW n \in Nodes, ReadFile(n) PROVE Known
  BY <1>1, <1>5 DEF ReadFile
<1>6. CASE FinishDir
  BY <1>1, <1>6 DEF FinishDir
<1>7. CASE Remove \/ RemoveGone
  BY <1>1, <1>7, FailureCounters DEF Remove, RemoveGone
<1>8. CASE RemoveFails
  BY <1>1, <1>8, FailureCounters DEF RemoveFails
<1> QED BY <1>2, <1>3, <1>4, <1>5, <1>6, <1>7, <1>8, Steps DEF Quiet, Shortage, ReadEnd, ReadError

(* The counters stay numbers.                                                *)
LEMMA CountStep == ASSUME WalkOK, CountOK, [Next]_vars PROVE CountOK'
<1>1. cstats' \in [Counters -> Nat]
  BY CountersStep, CountOne, CountTwo DEF CountOK
<1>2. stats' = stats \/ stats' = CollectedFrom(stats)
  <2>1. CASE Quiet
    BY <2>1 DEF Quiet, ReadEvent, WriteFlag, Collect, EnterAborted, EnterFails, Enter, LoopAbort,
                LoopDone, RequestEvent, RequestFlag, ReadFile, ReadClosedDir, ReadDir, ReadEnd, FinishDir,
                RemoveGone, RemoveFails
  <2>2. CASE Remove \/ RemoveForce \/ Shortage \/ Meddle \/ UNCHANGED vars
    BY <2>2 DEF Remove, RemoveForce, Shortage, EnterNoMemory, ReadNoMemory, ReadDirNoGrowth, ReadError,
                FinishDir, Meddle, vars
  <2> QED BY <2>1, <2>2, Steps
<1>3. CollectedFrom(stats) \in [Counters -> Nat]
  BY DEF CountOK, CollectedFrom, Plus
<1>4. ret' \in {0, -1, -2} /\ late' \in Nat /\ after' \in Nat
  <2>1. CASE Quiet
    BY <2>1 DEF CountOK, Quiet, ReadEvent, WriteFlag, Collect, EnterAborted, EnterFails, Enter,
                LoopAbort, LoopDone, RequestEvent, RequestFlag, ReadFile, ReadClosedDir, ReadDir,
                ReadEnd, FinishDir, RemoveGone, RemoveFails, Return
  <2>2. CASE Remove
    BY <2>2 DEF CountOK, Remove
  <2>3. CASE RemoveForce \/ Shortage \/ Meddle \/ UNCHANGED vars
    BY <2>3 DEF CountOK, RemoveForce, Shortage, EnterNoMemory, ReadNoMemory, ReadDirNoGrowth, ReadError,
                FinishDir, Return, Meddle, vars
  <2> QED BY <2>1, <2>2, <2>3, Steps
<1> QED BY <1>1, <1>2, <1>3, <1>4 DEF CountOK

(* Every step keeps the types.                                               *)
LEMMA TypesStep == ASSUME Types, [Next]_vars PROVE Types'
<1>1. DiskOK' /\ ControlOK' /\ StackOK'
  BY DiskStep, ControlStep, StackStep DEF Types
<1>2. WalkOK' /\ CountOK'
  BY WalkStep, CountStep DEF Types
<1> QED BY <1>1, <1>2 DEF Types

(* Every variable of the engine holds what the code can put there.           *)
THEOREM TypeCorrectness == Spec => []TypeOK
<1>1. Init => Types
  BY TypesInit
<1>2. Types /\ [Next]_vars => Types'
  BY TypesStep
<1>3. Types => TypeOK
  BY TypesAreTypeOK
<1> QED BY <1>1, <1>2, <1>3, PTL DEF Spec

-----------------------------------------------------------------------------
(* Every entry is met once.  An entry the streams returned is on the stack,  *)
(* in hand, taken for the target, or settled: counted, once.                 *)

DirsOf(s) == {s[i].dir : i \in 1 .. Len(s)}

(* No directory has two frames, and the target's frame has depth 0.          *)
Distinct(s) ==
    /\ \A i, j \in 1 .. Len(s) : s[i].dir = s[j].dir => i = j
    /\ \A i \in 1 .. Len(s) : s[i].dir = Root => s[i].depth = 0

InHand == IF pc \in {"remove", "retry"} THEN {cur} ELSE {}
Begun  == DirsOf(stack) \cup InHand

Met ==
    /\ Distinct(stack)
    /\ DirsOf(stack) \cap InHand = {}
    /\ Begun \subseteq given \cup {Root}
    /\ mistaken \subseteq given /\ mistaken \cap Begun = {}
    /\ Root \notin given \cup unread
    /\ unread \cap given = {}
    /\ \A m \in given : Parent[m] \in given \cup {Root}

(* Before the walk nothing has happened; what is in hand may be removed.     *)
Begins ==
    /\ pc \in {"read", "write", "enter"} =>
           /\ stack = <<>> /\ given = {} /\ unread = {} /\ mistaken = {}
           /\ Counted = 0 /\ ret = 0
    /\ pc \in {"remove", "retry"} => ~job.dryRun
    /\ Root \in InHand => job.deleteRoot

(* Nobody sees an abort before it is asked for.                              *)
NoAbort == request = "none" => ~event /\ ~flag /\ ~seen

Entries == Met /\ Begins /\ NoAbort

(* What a step may do to the walk. *)
Aside ==
    /\ UNCHANGED <<job, stack, mistaken, unread, given, cur, cstats, ret>>
    /\ \/ UNCHANGED pc
       \/ pc = "read" /\ pc' = "write"
       \/ pc = "write" /\ pc' = "enter"
       \/ pc = "collect" /\ pc' = "done"
       \/ pc = "remove" /\ pc' = "retry"

Notes(n) ==
    /\ Take(n)
    /\ unread' = unread \ {n}
    /\ Counted' = Counted + 1
    /\ job.dryRun \/ Misfortune \/ (n \in Dirs /\ ~Openable(n, Len(stack)))
    /\ UNCHANGED <<job, pc, stack, mistaken, ret>>

Grasps(n) ==
    /\ Take(n)
    /\ n \in Files
    /\ unread' = unread \ {n}
    /\ ~job.dryRun
    /\ cur' = n
    /\ pc' = "remove"
    /\ Counted' = Counted
    /\ UNCHANGED <<job, stack, mistaken, ret>>

Pushes(n) ==
    /\ Take(n)
    /\ n \in Dirs
    /\ Openable(n, Len(stack))
    /\ \E k \in Int : stack' = Append(stack, [dir |-> n, depth |-> k])
    /\ unread' = (unread \ {n}) \cup (Children(n) \cap present)
    /\ UNCHANGED <<job, pc, mistaken, cstats, ret>>

Closes ==
    /\ FinishDir
    /\ Misfortune \/ Children(Top.dir) \cap unread \cap present = {}
    /\ Counted' = Counted + IF ~Kept(Top) /\ job.dryRun THEN 1 ELSE 0

Resolves ==
    /\ pc \in {"remove", "retry"}
    /\ pc' = "loop"
    /\ Counted' = Counted + 1
    /\ UNCHANGED <<job, stack, mistaken, unread, given, cur, ret>>

Returns ==
    /\ pc' = "collect"
    /\ UNCHANGED <<job, stack, mistaken, unread, given, cur, abortVars>>
    /\ \/ /\ pc \in {"enter", "loop"} /\ flag
          /\ ret' = 0 /\ cstats' = cstats
       \/ /\ pc = "loop" /\ stack = <<>>
          /\ ret' = 0 /\ cstats' = cstats
       \/ /\ pc = "enter"
          /\ Misfortune \/ ~Openable(Root, 0)
          /\ ret' # 0 /\ Counted' \in {Counted, Counted + 1}

(* These are all.                                                            *)
LEMMA Shapes ==
    ASSUME Types, [Next]_vars
    PROVE  \/ Aside \/ Enter \/ Closes \/ Resolves \/ Returns
           \/ \E n \in Nodes : Notes(n) \/ Grasps(n) \/ Pushes(n)
<1>1. cstats \in [Counters -> Nat] /\ WalkOK /\ StackOK
  BY DEF Types, CountOK
<1>2. /\ "discovered" \in Counters /\ "files" \in Counters /\ "dirs" \in Counters
      /\ "failed" \in Counters /\ "skipped" \in Counters
  BY DEF Counters
<1>3. ASSUME NEW c \in {"files", "dirs", "failed", "skipped"}, Count(c)
      PROVE  Counted' = Counted + 1
  <2>1. c \in Counters /\ c # "discovered"
    BY <1>2
  <2> QED BY <1>1, <1>3, <2>1, CountOne
<1>4. CASE \/ ReadEvent \/ WriteFlag \/ Collect \/ RequestEvent \/ RequestFlag \/ RemoveForce
           \/ Meddle \/ UNCHANGED vars
  BY <1>4 DEF ReadEvent, WriteFlag, Collect, RequestEvent, RequestFlag, RemoveForce, Meddle, vars, Aside
<1>5. CASE EnterAborted \/ LoopAbort \/ LoopDone \/ EnterNoMemory
  BY <1>5 DEF EnterAborted, LoopAbort, LoopDone, EnterNoMemory, Return, Returns, Counted
<1>6. CASE EnterFails
  BY <1>3, <1>6 DEF EnterFails, Return, Returns
<1>7. ASSUME NEW n \in Nodes, ReadNoMemory(n) \/ ReadClosedDir(n) \/ ReadDirNoGrowth(n)
      PROVE  Notes(n)
  <2>1. Count("failed")
    BY <1>7 DEF ReadNoMemory, ReadClosedDir, ReadDirNoGrowth
  <2>2. Counted' = Counted + 1
    BY <1>3, <2>1
  <2> QED BY <1>7, <2>2 DEF ReadNoMemory, ReadClosedDir, ReadDirNoGrowth, Notes
<1>8. ASSUME NEW n \in Nodes, ReadFile(n) PROVE Notes(n) \/ Grasps(n)
  <2>1. CASE job.dryRun
    <3>1. Counted' = Counted + 1
      BY <1>1, <1>8, <2>1, CountTwo DEF ReadFile
    <3> QED BY <1>8, <2>1, <3>1 DEF ReadFile, Notes
  <2>2. CASE ~job.dryRun
    <3>1. Count("discovered")
      BY <1>8, <2>2 DEF ReadFile
    <3>2. Counted' = Counted + 0
      BY <1>1, <1>2, <3>1, CountOne
    <3>3. Counted \in Int
      BY <1>1, <1>2 DEF Counted
    <3> QED BY <1>8, <2>2, <3>2, <3>3 DEF ReadFile, Grasps
  <2> QED BY <2>1, <2>2
<1>9. ASSUME NEW n \in Nodes, ReadDir(n) PROVE Pushes(n)
  <2>1. stack # <<>>
    BY <1>9 DEF ReadDir, Take, Reading
  <2>2. NewDepths \subseteq Int
    <3>1. Top.depth \in Int
      BY <1>1, <2>1, TopFrame
    <3> QED BY <3>1, CEngineAssumption DEF NewDepths
  <2>3. \E k \in Int : stack' = Append(stack, [dir |-> n, depth |-> k])
    BY <1>9, <2>2 DEF ReadDir
  <2>4. /\ Take(n) /\ n \in Dirs /\ Openable(n, Len(stack))
        /\ unread' = (unread \ {n}) \cup (Children(n) \cap present)
        /\ UNCHANGED <<job, pc, mistaken, cstats, ret>>
    BY <1>9 DEF ReadDir
  <2> QED BY <2>3, <2>4 DEF Pushes
<1>10. CASE ReadEnd \/ ReadError
  <2>0. FinishDir /\ (Misfortune \/ Children(Top.dir) \cap unread \cap present = {})
    BY <1>10 DEF ReadEnd, ReadError
  <2>1. CASE ~Kept(Top) /\ job.dryRun
    <3>1. Count("dirs")
      BY <2>0, <2>1 DEF FinishDir
    <3>2. Counted' = Counted + 1
      BY <1>3, <3>1
    <3> QED BY <2>0, <2>1, <3>2 DEF Closes
  <2>2. CASE ~(~Kept(Top) /\ job.dryRun)
    <3>1. cstats' = cstats
      BY <2>0, <2>2 DEF FinishDir
    <3>2. Counted \in Int /\ Counted' = Counted
      BY <1>1, <1>2, <3>1 DEF Counted
    <3> QED BY <2>0, <2>2, <3>2 DEF Closes
  <2> QED BY <2>1, <2>2
<1>11. CASE Remove \/ RemoveGone
  <2>1. Counted' = Counted + 1
    BY <1>1, <1>3, <1>11, FailureCounters DEF Remove, RemoveGone
  <2> QED BY <1>11, <2>1 DEF Remove, RemoveGone, Resolves
<1>12. CASE RemoveFails
  <2>1. Counted' = Counted + 1
    BY <1>1, <1>3, <1>12, FailureCounters DEF RemoveFails
  <2> QED BY <1>12, <2>1 DEF RemoveFails, Resolves
<1> QED BY <1>4, <1>5, <1>6, <1>7, <1>8, <1>9, <1>10, <1>11, <1>12, Steps
        DEF Quiet, Shortage

(* A frame for a directory that has none.                                    *)
LEMMA PushDirs ==
    ASSUME NEW s \in Seq(Frames), NEW n \in Dirs, NEW k \in Int,
           Distinct(s), n \notin DirsOf(s), n # Root
    PROVE  LET t == Append(s, [dir |-> n, depth |-> k])
           IN  Distinct(t) /\ DirsOf(t) = DirsOf(s) \cup {n}
<1> DEFINE f == [dir |-> n, depth |-> k]
           t == Append(s, f)
<1>1. f \in Frames /\ f.dir = n
  BY DEF Frames
<1> HIDE DEF f
<1>2. /\ Len(t) = Len(s) + 1 /\ t[Len(s) + 1] = f
      /\ \A i \in 1 .. Len(s) : t[i] = s[i]
  BY <1>1, PushFrame
<1>3. Len(s) \in Nat
  OBVIOUS
<1> HIDE DEF t
<1>4. \A i \in 1 .. Len(t) : i \in 1 .. Len(s) \/ i = Len(s) + 1
  BY <1>2, <1>3
<1>5. \A i \in 1 .. Len(s) : i \in 1 .. Len(t) /\ s[i].dir # n
  BY <1>2, <1>3 DEF DirsOf
<1>6. Len(s) + 1 \in 1 .. Len(t)
  BY <1>2, <1>3
<1>7. ASSUME NEW i \in 1 .. Len(t), NEW j \in 1 .. Len(t), t[i].dir = t[j].dir PROVE i = j
  <2>1. CASE i \in 1 .. Len(s) /\ j \in 1 .. Len(s)
    BY <1>2, <1>7, <2>1 DEF Distinct
  <2>2. CASE i = Len(s) + 1 \/ j = Len(s) + 1
    BY <1>1, <1>2, <1>4, <1>5, <1>7, <2>2
  <2> QED BY <1>4, <2>1, <2>2
<1>8. ASSUME NEW i \in 1 .. Len(t), t[i].dir = Root PROVE t[i].depth = 0
  BY <1>1, <1>2, <1>4, <1>8 DEF Distinct
<1>9. DirsOf(t) = DirsOf(s) \cup {n}
  BY <1>1, <1>2, <1>4, <1>5, <1>6 DEF DirsOf
<1>10. Distinct(t)
  BY <1>7, <1>8 DEF Distinct
<1> QED BY <1>9, <1>10 DEF t, f

(* The innermost frame closed.                                               *)
LEMMA PopDirs ==
    ASSUME NEW s \in Seq(Frames), s # <<>>, Distinct(s)
    PROVE  LET t == SubSeq(s, 1, Len(s) - 1)
               d == s[Len(s)].dir
           IN  /\ Distinct(t) /\ DirsOf(t) = DirsOf(s) \ {d} /\ d \in DirsOf(s)
               /\ d = Root => s[Len(s)].depth = 0
<1> DEFINE t == SubSeq(s, 1, Len(s) - 1)
           d == s[Len(s)].dir
<1>1. /\ Len(s) \in Nat \ {0} /\ Len(t) = Len(s) - 1
      /\ \A i \in 1 .. Len(s) - 1 : t[i] = s[i]
  BY PopFrame
<1> HIDE DEF t
<1>2. \A i \in 1 .. Len(t) : i \in 1 .. Len(s) /\ t[i] = s[i] /\ i # Len(s)
  BY <1>1
<1>3. \A i \in 1 .. Len(s) : i \in 1 .. Len(t) \/ i = Len(s)
  BY <1>1
<1>4. Len(s) \in 1 .. Len(s)
  BY <1>1
<1>5. Distinct(t)
  BY <1>2 DEF Distinct
<1>6. \A i \in 1 .. Len(t) : t[i].dir # d
  BY <1>2, <1>4 DEF Distinct
<1>7. DirsOf(t) = DirsOf(s) \ {d}
  BY <1>2, <1>3, <1>6 DEF DirsOf
<1>8. d \in DirsOf(s) /\ (d = Root => s[Len(s)].depth = 0)
  BY <1>4 DEF DirsOf, Distinct
<1> QED BY <1>5, <1>7, <1>8 DEF t

(* An entry a stream returns is new, and not the target.                     *)
LEMMA TakenIsNew ==
    ASSUME Types, Met, NEW n \in Nodes, Take(n)
    PROVE  /\ n \notin given /\ n # Root /\ n \notin Begun
           /\ given' = given \cup {n} /\ given' \subseteq Nodes
           /\ Parent[n] \in given \cup {Root}
           /\ pc = "loop" /\ InHand = {}
<1>1. stack # <<>> /\ pc = "loop" /\ n \in Listed(Top.dir) /\ given' = given \cup {n}
  BY DEF Take, Reading
<1>2. Parent[n] = Top.dir /\ n \notin given
  BY <1>1 DEF Listed, Children, Met
<1>3. Top.dir \in Dirs /\ Top.dir \in DirsOf(stack)
  BY <1>1, TopFrame, PopDirs DEF Types, StackOK, Met, Top
<1>4. n # Root
  BY <1>2, <1>3, TreeAssumption
<1>5. InHand = {}
  BY <1>1 DEF InHand
<1> QED BY <1>1, <1>2, <1>3, <1>4, <1>5 DEF Met, Begun, Types, WalkOK

(* Nothing is met twice.                                                     *)
LEMMA MetStep == ASSUME Types, Met, Begins, [Next]_vars PROVE Met'
<1>1. CASE Aside
  <2>1. InHand' = InHand
    BY <1>1 DEF Aside, InHand
  <2> QED BY <1>1, <2>1 DEF Aside, Met, Begun
<1>2. CASE Enter
  <2>1. stack' = <<[dir |-> Root, depth |-> 0]>> /\ unread' \subseteq Children(Root) /\ InHand' = {}
        /\ given' = {} /\ mistaken' = {}
    BY <1>2 DEF Enter, InHand, Begins
  <2>2. Distinct(stack') /\ DirsOf(stack') = {Root}
    BY <2>1 DEF Distinct, DirsOf
  <2>3. Root \notin unread'
    BY <2>1, TreeAssumption DEF Children
  <2> QED BY <2>1, <2>2, <2>3 DEF Met, Begun
<1>3. CASE Closes
  <2>1. /\ stack # <<>> /\ pc = "loop" /\ stack' = SubSeq(stack, 1, Len(stack) - 1)
        /\ cur' = Top.dir /\ given' = given /\ unread' \subseteq unread
    BY <1>3 DEF Closes, FinishDir, Reading, Below
  <2>2. /\ Distinct(stack') /\ DirsOf(stack') = DirsOf(stack) \ {Top.dir}
        /\ Top.dir \in DirsOf(stack)
    BY <2>1, PopDirs DEF Types, StackOK, Met, Top
  <2>3. \/ mistaken' \subseteq mistaken \cup ({Top.dir} \ {Root}) /\ InHand' = {}
        \/ mistaken' = mistaken /\ InHand' \subseteq {Top.dir}
    BY <1>3, <2>1 DEF Closes, FinishDir, InHand
  <2>4. Top.dir \in given \cup {Root} /\ Top.dir \notin mistaken
    BY <2>2 DEF Met, Begun
  <2> QED BY <2>1, <2>2, <2>3, <2>4 DEF Met, Begun
<1>4. CASE Resolves
  <2>1. InHand' = {}
    BY <1>4 DEF Resolves, InHand
  <2> QED BY <1>4, <2>1 DEF Resolves, Met, Begun
<1>5. CASE Returns
  <2>1. InHand' = {}
    BY <1>5 DEF Returns, InHand
  <2> QED BY <1>5, <2>1 DEF Returns, Met, Begun
<1>6. ASSUME NEW n \in Nodes, Notes(n) PROVE Met'
  <2>1. InHand' = InHand
    BY <1>6, TakenIsNew DEF Notes, InHand
  <2> QED BY <1>6, <2>1, TakenIsNew DEF Notes, Met, Begun
<1>7. ASSUME NEW n \in Nodes, Grasps(n) PROVE Met'
  <2>1. InHand' = {n}
    BY <1>7 DEF Grasps, InHand
  <2> QED BY <1>7, <2>1, TakenIsNew DEF Grasps, Met, Begun
<1>8. ASSUME NEW n \in Nodes, Pushes(n) PROVE Met'
  <2>1. InHand' = {} /\ InHand = {}
    BY <1>8, TakenIsNew DEF Pushes, InHand
  <2>2. Distinct(stack') /\ DirsOf(stack') = DirsOf(stack) \cup {n}
    BY <1>8, TakenIsNew, PushDirs DEF Pushes, Types, StackOK, Met, Begun
  <2>3. Children(n) \cap given = {} /\ n \notin Children(n) /\ Root \notin Children(n)
    <3>1. Take(n)
      BY <1>8 DEF Pushes
    <3>2. n \notin given \cup {Root} /\ Parent[n] \in given \cup {Root}
      BY <3>1, TakenIsNew
    <3>3. \A m \in given : Parent[m] \in given \cup {Root}
      BY DEF Met
    <3>4. Parent[Root] # n
      BY TreeAssumption
    <3> QED BY <3>2, <3>3, <3>4 DEF Children
  <2> QED BY <1>8, <2>1, <2>2, <2>3, TakenIsNew DEF Pushes, Met, Begun
<1> QED BY <1>1, <1>2, <1>3, <1>4, <1>5, <1>6, <1>7, <1>8, Shapes

(* What is in hand may be removed, and nothing happens before the walk.      *)
LEMMA BeginsStep == ASSUME Types, Met, Begins, [Next]_vars PROVE Begins'
<1>1. CASE Aside
  BY <1>1 DEF Aside, Begins, InHand, Counted
<1>2. CASE Enter
  BY <1>2 DEF Enter, Begins, InHand
<1>3. CASE Closes
  <2>1. stack # <<>> /\ pc = "loop" /\ cur' = Top.dir /\ job' = job
    BY <1>3 DEF Closes, FinishDir, Reading
  <2>2. Top.dir = Root => Top.depth = 0
    BY <2>1, PopDirs DEF Types, StackOK, Met, Top
  <2>3. \/ pc' = "loop"
        \/ pc' = "remove" /\ ~job.dryRun /\ ~Kept(Top)
    BY <1>3, <2>1 DEF Closes, FinishDir
  <2> QED BY <2>1, <2>2, <2>3 DEF Begins, InHand, Kept
<1>4. CASE Resolves
  BY <1>4 DEF Resolves, Begins, InHand
<1>5. CASE Returns
  BY <1>5 DEF Returns, Begins, InHand
<1>6. ASSUME NEW n \in Nodes, Notes(n) \/ Pushes(n) PROVE Begins'
  BY <1>6 DEF Notes, Pushes, Take, Reading, Begins, InHand
<1>7. ASSUME NEW n \in Nodes, Grasps(n) PROVE Begins'
  <2>1. n # Root
    BY <1>7, TakenIsNew DEF Grasps
  <2> QED BY <1>7, <2>1 DEF Grasps, Begins, InHand
<1> QED BY <1>1, <1>2, <1>3, <1>4, <1>5, <1>6, <1>7, Shapes

(* A request is not taken back, and nobody else sets what it sets.           *)
LEMMA AbortStep == ASSUME NoAbort, [Next]_vars
                   PROVE  NoAbort' /\ (request' = "none" => request = "none")
<1>1. CASE RequestEvent \/ RequestFlag \/ ReadEvent \/ WriteFlag
  BY <1>1 DEF RequestEvent, RequestFlag, ReadEvent, WriteFlag, NoAbort
<1>2. CASE UNCHANGED abortVars
  BY <1>2 DEF NoAbort
<1>3. RequestEvent \/ RequestFlag \/ ReadEvent \/ WriteFlag \/ UNCHANGED abortVars
  <2>1. CASE Quiet
    BY <2>1 DEF Quiet, Collect, EnterAborted, EnterFails, Enter, LoopAbort, LoopDone, ReadFile,
                ReadClosedDir, ReadDir, ReadEnd, FinishDir, RemoveGone, RemoveFails
  <2>2. CASE Remove \/ RemoveForce \/ Shortage \/ Meddle \/ UNCHANGED vars
    BY <2>2 DEF Remove, RemoveForce, Shortage, EnterNoMemory, ReadNoMemory, ReadDirNoGrowth, ReadError,
                FinishDir, Meddle, vars
  <2> QED BY <2>1, <2>2, Steps
<1> QED BY <1>1, <1>2, <1>3

-----------------------------------------------------------------------------
(* The counters.                                                             *)

Target  == IF job.deleteRoot THEN {Root} ELSE {}
Settled == (given \cup Target) \ (Begun \cup mistaken)

(* While the walk goes on, the counters add up to what is settled, and in    *)
(* the end to what EntriesAccounted says.                                    *)
Tallied ==
    /\ pc \in {"loop", "remove", "retry"} => Counted = Cardinality(Settled)
    /\ pc \in {"collect", "done"} =>
           /\ Counted <= Cardinality(given) + 1
           /\ request = "none" /\ ret = 0 =>
                  Counted = Cardinality(given \ mistaken) + (IF job.deleteRoot THEN 1 ELSE 0)

(* One more entry is settled.                                                *)
LEMMA SettledOne == ASSUME Types, NEW n \in Nodes, n \notin Settled, Settled' = Settled \cup {n}
                    PROVE  Cardinality(Settled') = Cardinality(Settled) + 1
<1>1. Settled \subseteq Nodes
  BY TreeAssumption DEF Settled, Target, Types, WalkOK
<1>2. IsFiniteSet(Settled)
  BY <1>1, FS_Subset, TreeAssumption
<1> QED BY <1>2, FS_AddElement

(* How many are settled at most, and when the walk is over.                  *)
LEMMA SettledAll ==
    ASSUME Types, Met
    PROVE  /\ Cardinality(given) \in Nat
           /\ Cardinality(Settled) <= Cardinality(given) + 1
           /\ Begun = {} => Cardinality(Settled) =
                                Cardinality(given \ mistaken) + (IF job.deleteRoot THEN 1 ELSE 0)
<1>1. IsFiniteSet(given) /\ Cardinality(given) \in Nat
  BY FS_Subset, FS_CardinalityType, TreeAssumption DEF Types, WalkOK
<1>2. Root \notin given /\ Root \notin mistaken
  BY DEF Met
<1>3. IsFiniteSet(given \cup {Root}) /\ Cardinality(given \cup {Root}) = Cardinality(given) + 1
  BY <1>1, <1>2, FS_AddElement
<1>4. Settled \subseteq given \cup {Root}
  BY DEF Settled, Target
<1>5. Cardinality(Settled) <= Cardinality(given) + 1
  BY <1>3, <1>4, FS_Subset
<1>6. ASSUME Begun = {}
      PROVE  Cardinality(Settled) = Cardinality(given \ mistaken) + (IF job.deleteRoot THEN 1 ELSE 0)
  <2>1. IsFiniteSet(given \ mistaken) /\ Cardinality(given \ mistaken) \in Nat
    BY <1>1, FS_Subset, FS_CardinalityType
  <2>2. CASE job.deleteRoot
    <3>1. Settled = (given \ mistaken) \cup {Root} /\ Root \notin given \ mistaken
      BY <1>2, <1>6, <2>2 DEF Settled, Target
    <3> QED BY <2>1, <2>2, <3>1, FS_AddElement
  <2>3. CASE ~job.deleteRoot
    <3>1. Settled = given \ mistaken
      BY <1>6, <2>3 DEF Settled, Target
    <3> QED BY <2>1, <2>3, <3>1
  <2> QED BY <2>2, <2>3
<1> QED BY <1>1, <1>5, <1>6

(* The counters follow.                                                      *)
LEMMA TalliedStep ==
    ASSUME Types, Entries, Tallied, [Next]_vars, Met'
    PROVE  Tallied'
<1> USE DEF Entries
<1>0. Root \in Nodes
  BY TreeAssumption
<1>1. CASE Aside
  <2>1. InHand' = InHand /\ Counted' = Counted
    BY <1>1 DEF Aside, InHand, Counted
  <2>2. Settled' = Settled /\ given' = given /\ mistaken' = mistaken /\ ret' = ret /\ job' = job
    BY <1>1, <2>1 DEF Aside, Settled, Target, Begun
  <2>3. request' = "none" => request = "none"
    BY AbortStep
  <2>4. /\ pc' \in {"loop", "remove", "retry"} => pc \in {"loop", "remove", "retry"}
        /\ pc' \in {"collect", "done"} => pc \in {"collect", "done"}
    BY <1>1 DEF Aside
  <2> QED BY <2>1, <2>2, <2>3, <2>4 DEF Tallied
<1>2. CASE Enter
  <2>1. /\ stack' = <<[dir |-> Root, depth |-> 0]>> /\ given' = {} /\ job' = job
        /\ Counted' = 0 /\ pc' = "loop"
    BY <1>2 DEF Enter, Begins, Counted
  <2>2. Root \in Begun'
    BY <2>1 DEF Begun, DirsOf
  <2>3. Settled' = {}
    BY <2>1, <2>2 DEF Settled, Target
  <2> QED BY <2>1, <2>3, FS_EmptySet DEF Tallied
<1>3. CASE Closes
  <2>1. /\ stack # <<>> /\ pc = "loop" /\ stack' = SubSeq(stack, 1, Len(stack) - 1)
        /\ cur' = Top.dir /\ given' = given /\ job' = job
    BY <1>3 DEF Closes, FinishDir, Reading, Below
  <2>2. /\ DirsOf(stack') = DirsOf(stack) \ {Top.dir} /\ Top.dir \in DirsOf(stack)
        /\ Top.dir = Root => Top.depth = 0
    BY <2>1, PopDirs DEF Types, StackOK, Met, Top
  <2>3. Top.dir \in given \cup {Root} /\ Top.dir \notin mistaken /\ Top.dir \notin Settled
        /\ Top.dir \in Nodes /\ InHand = {} /\ Root \notin given
    BY <2>1, <2>2, <1>0 DEF Met, Begun, Settled, Types, WalkOK, InHand
  <2>4. Counted = Cardinality(Settled)
    BY <2>1 DEF Tallied
  <2>5. CASE Kept(Top)
    <3>1. /\ mistaken' = mistaken \cup ({Top.dir} \ {Root}) /\ pc' = "loop" /\ cstats' = cstats
      BY <1>3, <2>1, <2>5 DEF Closes, FinishDir
    <3>2. InHand' = {} /\ Counted' = Counted
      BY <3>1 DEF InHand, Counted
    <3>3. Settled' = Settled
      BY <2>1, <2>2, <2>3, <2>5, <3>1, <3>2 DEF Settled, Target, Begun, Kept
    <3> QED BY <2>4, <3>1, <3>2, <3>3 DEF Tallied
  <2>6. CASE ~Kept(Top) /\ job.dryRun
    <3>1. mistaken' = mistaken /\ pc' = "loop" /\ Counted' = Counted + 1
      BY <1>3, <2>1, <2>6 DEF Closes, FinishDir
    <3>2. InHand' = {}
      BY <3>1 DEF InHand
    <3>3. Top.dir = Root => job.deleteRoot
      BY <2>2, <2>6 DEF Kept
    <3>4. Settled' = Settled \cup {Top.dir}
      BY <2>1, <2>2, <2>3, <3>1, <3>2, <3>3 DEF Settled, Target, Begun
    <3>5. Cardinality(Settled') = Cardinality(Settled) + 1
      BY <2>3, <3>4, SettledOne
    <3> QED BY <2>4, <3>1, <3>5 DEF Tallied
  <2>7. CASE ~Kept(Top) /\ ~job.dryRun
    <3>1. mistaken' = mistaken /\ pc' = "remove" /\ cstats' = cstats
      BY <1>3, <2>1, <2>7 DEF Closes, FinishDir
    <3>2. InHand' = {Top.dir} /\ Counted' = Counted
      BY <2>1, <3>1 DEF InHand, Counted
    <3>3. Settled' = Settled
      BY <2>1, <2>2, <2>3, <3>1, <3>2 DEF Settled, Target, Begun
    <3> QED BY <2>4, <3>1, <3>2, <3>3 DEF Tallied
  <2> QED BY <2>5, <2>6, <2>7
<1>4. CASE Resolves
  <2>1. InHand' = {} /\ InHand = {cur} /\ cur \in Nodes /\ cur \notin Settled
    BY <1>4 DEF Resolves, InHand, Begun, Settled, Types, WalkOK
  <2>2. cur \in given \cup Target /\ cur \notin mistaken /\ cur \notin DirsOf(stack)
    BY <2>1 DEF Met, Begins, Begun, Target
  <2>3. Settled' = Settled \cup {cur}
    BY <1>4, <2>1, <2>2 DEF Resolves, Settled, Target, Begun
  <2>4. Cardinality(Settled') = Cardinality(Settled) + 1
    BY <2>1, <2>3, SettledOne
  <2> QED BY <1>4, <2>4 DEF Resolves, Tallied
<1>5. CASE Returns
  <2>1. /\ pc' = "collect" /\ given' = given /\ mistaken' = mistaken /\ job' = job /\ request' = request
    BY <1>5 DEF Returns
  <2>2. CASE pc = "loop" /\ flag
    <3>1. Counted' = Cardinality(Settled) /\ request # "none"
      BY <1>5, <2>2 DEF Returns, Tallied, NoAbort, Counted
    <3> QED BY <2>1, <3>1, SettledAll DEF Tallied
  <2>3. CASE pc = "loop" /\ ~flag
    <3>1. Counted' = Cardinality(Settled) /\ stack = <<>>
      BY <1>5, <2>3 DEF Returns, Tallied, Counted
    <3>2. Begun = {}
      BY <2>3, <3>1 DEF Begun, DirsOf, InHand
    <3> QED BY <2>1, <3>1, <3>2, SettledAll DEF Tallied
  <2>4. CASE pc = "enter"
    <3>1. Counted' \in {0, 1} /\ (ret' # 0 \/ request # "none")
      BY <1>5, <2>4 DEF Returns, Begins, NoAbort, Counted
    <3> QED BY <2>1, <3>1, SettledAll DEF Tallied
  <2> QED BY <1>5, <2>2, <2>3, <2>4 DEF Returns
<1>6. ASSUME NEW n \in Nodes, Notes(n) PROVE Tallied'
  <2>1. /\ n \notin given /\ n # Root /\ n \notin Begun /\ given' = given \cup {n} /\ pc = "loop"
        /\ InHand = {}
    BY <1>6, TakenIsNew DEF Notes
  <2>2. InHand' = {} /\ n \notin Settled
    BY <1>6, <2>1 DEF Notes, InHand, Settled, Target
  <2>3. Settled' = Settled \cup {n}
    BY <1>6, <2>1, <2>2 DEF Notes, Settled, Target, Begun, Met
  <2>4. Cardinality(Settled') = Cardinality(Settled) + 1
    BY <2>2, <2>3, SettledOne
  <2> QED BY <1>6, <2>1, <2>4 DEF Notes, Tallied
<1>7. ASSUME NEW n \in Nodes, Grasps(n) PROVE Tallied'
  <2>1. /\ n \notin given /\ n # Root /\ n \notin Begun /\ given' = given \cup {n} /\ pc = "loop"
        /\ InHand = {}
    BY <1>7, TakenIsNew DEF Grasps
  <2>2. InHand' = {n}
    BY <1>7 DEF Grasps, InHand
  <2>3. Settled' = Settled
    BY <1>7, <2>1, <2>2 DEF Grasps, Settled, Target, Begun
  <2> QED BY <1>7, <2>1, <2>3 DEF Grasps, Tallied
<1>8. ASSUME NEW n \in Nodes, Pushes(n) PROVE Tallied'
  <2>1. /\ n \notin given /\ n # Root /\ n \notin Begun /\ given' = given \cup {n} /\ pc = "loop"
        /\ InHand = {}
    BY <1>8, TakenIsNew DEF Pushes
  <2>2. InHand' = {} /\ Counted' = Counted
    BY <1>8, <2>1 DEF Pushes, InHand, Counted
  <2>3. DirsOf(stack') = DirsOf(stack) \cup {n}
    BY <1>8, <2>1, PushDirs DEF Pushes, Types, StackOK, Met, Begun
  <2>4. Settled' = Settled
    BY <1>8, <2>1, <2>2, <2>3 DEF Pushes, Settled, Target, Begun
  <2> QED BY <1>8, <2>1, <2>2, <2>4 DEF Pushes, Tallied
<1> QED BY <1>1, <1>2, <1>3, <1>4, <1>5, <1>6, <1>7, <1>8, Shapes

(* What the counters mean when the walk is over follows.                     *)
LEMMA TalliedAccounts == ASSUME Types, Entries, Tallied PROVE EntriesAccounted
<1>1. Cardinality(given) \in Nat /\ Cardinality(Settled) <= Cardinality(given) + 1
  BY SettledAll DEF Entries
<1>2. CASE pc \in {"read", "write", "enter"}
  BY <1>1, <1>2 DEF Entries, Begins, EntriesAccounted
<1>3. CASE pc \in {"loop", "remove", "retry"}
  BY <1>1, <1>3 DEF Tallied, EntriesAccounted
<1>4. CASE pc \in {"collect", "done"}
  BY <1>4 DEF Tallied, EntriesAccounted
<1> QED BY <1>2, <1>3, <1>4 DEF Types, ControlOK

(* What the call starts from.                                                *)
LEMMA EntriesInit == Init => Entries /\ Tallied
<1> SUFFICES ASSUME Init PROVE Entries /\ Tallied
  OBVIOUS
<1>1. InHand = {} /\ Counted = 0
  BY DEF Init, InHand, Counted, NoStats, Counters
<1>2. DirsOf(stack) = {} /\ Distinct(stack)
  BY DEF Init, DirsOf, Distinct
<1>3. Met /\ Begins /\ NoAbort /\ Tallied
  BY <1>1, <1>2 DEF Init, Met, Begins, NoAbort, Tallied, Begun
<1> QED BY <1>3 DEF Entries

(* The entries and the counters go together.                                 *)
LEMMA EntriesStep == ASSUME Types, Entries, Tallied, [Next]_vars PROVE Entries' /\ Tallied'
<1>1. Met' /\ Begins' /\ NoAbort'
  BY MetStep, BeginsStep, AbortStep DEF Entries
<1>2. Tallied'
  BY <1>1, TalliedStep
<1> QED BY <1>1, <1>2 DEF Entries

-----------------------------------------------------------------------------
(* Removals.                                                                 *)

(* A name that was removed is not in use and is not used again.              *)
NamesOnce == removed \cap present = {} /\ removed \cap fresh = {} /\ fresh \cap present = {}

(* An engine that removed something since it could see the abort is not      *)
(* about to remove anything else.                                            *)
Graceful == late # 0 => flag /\ pc \in {"loop", "collect", "done"}

(* Names are used once.                                                      *)
LEMMA NamesStep == ASSUME Types, NamesOnce, [Next]_vars PROVE NamesOnce'
<1>1. CASE Quiet
  BY <1>1, QuietDisk DEF NamesOnce
<1>2. CASE Remove
  BY <1>2 DEF Remove, Works, Removal, Erase, NamesOnce
<1>3. CASE RemoveForce
  BY <1>3 DEF RemoveForce, Chmod, NamesOnce
<1>4. CASE Shortage
  BY <1>4, ShortageDisk DEF Misfortune, NamesOnce
<1>5. CASE Meddle
  BY <1>5 DEF Meddle, Others, ReplaceRoot, Vanish, Appear, Protect, NamesOnce
<1>6. CASE UNCHANGED vars
  BY <1>6 DEF vars, NamesOnce
<1> QED BY <1>1, <1>2, <1>3, <1>4, <1>5, <1>6, Steps

(* After the abort the walk ends before it takes another entry.              *)
LEMMA GracefulStep == ASSUME Types, Graceful, [Next]_vars PROVE Graceful'
<1>1. CASE Remove
  <2>1. pc' = "loop" /\ flag' = flag /\ flag \in BOOLEAN /\ late \in Nat
    BY <1>1 DEF Remove, Types, ControlOK, CountOK
  <2>2. late = 0
    BY <1>1 DEF Remove, Graceful
  <2>3. late' # 0 => flag
    BY <1>1, <2>2 DEF Remove
  <2> QED BY <2>1, <2>3 DEF Graceful
<1>2. CASE ~Remove
  <2>1. late' = late
    BY <1>2, Steps DEF Quiet, ReadEvent, WriteFlag, Collect, EnterAborted, EnterFails, Enter,
           LoopAbort, LoopDone, RequestEvent, RequestFlag, ReadFile, ReadClosedDir, ReadDir,
           ReadEnd, FinishDir, RemoveGone, RemoveFails, RemoveForce, Shortage, EnterNoMemory,
           ReadNoMemory, ReadDirNoGrowth, ReadError, Meddle, vars
  <2>2. ASSUME flag, pc \in {"loop", "collect", "done"}
        PROVE  flag' /\ pc' \in {"loop", "collect", "done"}
    BY <1>2, <2>2, Steps DEF Quiet, ReadEvent, WriteFlag, Collect, EnterAborted, EnterFails, Enter,
           LoopAbort, LoopDone, RequestEvent, RequestFlag, ReadFile, ReadClosedDir, ReadDir,
           ReadEnd, FinishDir, RemoveGone, RemoveFails, RemoveForce, Shortage, EnterNoMemory,
           ReadNoMemory, ReadDirNoGrowth, ReadError, Meddle, vars, Take, Reading, Return
  <2> QED BY <2>1, <2>2 DEF Graceful
<1> QED BY <1>1, <1>2

-----------------------------------------------------------------------------
(* The inductive invariant.                                                  *)

IInv == Types /\ Entries /\ Tallied /\ NamesOnce /\ Graceful

(* IInv is an invariant of the engine.                                       *)
THEOREM Invariance == Spec => []IInv
<1>1. Init => IInv
  <2>1. Init => NamesOnce /\ Graceful
    BY InitialAssumption DEF Init, DiskInit, NamesOnce, Graceful
  <2> QED BY <2>1, TypesInit, EntriesInit DEF IInv
<1>2. IInv /\ [Next]_vars => IInv'
  BY TypesStep, EntriesStep, NamesStep, GracefulStep DEF IInv
<1> QED BY <1>1, <1>2, PTL DEF Spec

(* Every entry readdir returned, and the target when it is to be removed,    *)
(* ends in exactly one counter, for every tree, however the stack grows,     *)
(* whatever fails and whatever others do meanwhile.                          *)
THEOREM Accounted == Spec => []EntriesAccounted
<1>1. IInv => EntriesAccounted
  BY TalliedAccounts DEF IInv
<1> QED BY <1>1, Invariance, PTL

-----------------------------------------------------------------------------
(* The engine implements TreeRemoval.                                        *)

(* The abstract specification means the same by its words.                   *)
LEMMA SameWords ==
    /\ Promise!Actors = Actors
    /\ \A j : Promise!Allowed(j) = Allowed(j)
    /\ \A n, t : Promise!Leaf(n, t) <=> Leaf(n, t)
BY DEF Promise!Actors, Actors, Promise!Allowed, Allowed, Promise!Emitted, Emitted,
       Promise!Matched, Matched, Promise!Removable, Removable, Promise!Files, Files,
       Promise!Leaf, Leaf, Promise!Children, Children

(* What the engine has in hand it was asked to remove.                       *)
LEMMA HandAllowed == ASSUME IInv, pc \in {"remove", "retry"} PROVE cur \in Allowed(job)
<1>1. ~job.dryRun /\ (cur = Root => job.deleteRoot) /\ cur \in Nodes
  BY DEF IInv, Entries, Begins, InHand, Types, WalkOK
<1>2. ~job.filtered
  BY CEngineAssumption DEF IInv, Types, ControlOK
<1>3. Matched(job) = Files /\ Removable(job) = Dirs
  BY <1>2 DEF Matched, Removable
<1>4. CASE cur \in Files
  BY <1>1, <1>3, <1>4 DEF Allowed
<1>5. CASE cur \notin Files
  <2>1. cur \in Emitted(job)
    BY <1>1, <1>3, <1>5 DEF Emitted, Files
  <2> QED BY <1>1, <2>1 DEF Allowed
<1> QED BY <1>4, <1>5

(* A removal of the engine is one the abstract specification allows.         *)
LEMMA RemovalAllowed == ASSUME IInv, Remove PROVE Promise!Next
<1> DEFINE g == IF late = 0 THEN Actors ELSE Workers
<1>1. late = 0 /\ pc \in {"remove", "retry"} /\ pc' = "loop" /\ job' = job /\ flag' = flag
  BY DEF Remove, IInv, Graceful
<1>2. cur \in present /\ Leaf(cur, present) /\ cur \in Nodes
  BY DEF Remove, Works, Removal, IInv, Types, WalkOK
<1>3. cur \in present \cap Promise!Allowed(job) /\ Promise!Leaf(cur, present)
  BY <1>1, <1>2, HandAllowed, SameWords
<1>4. Visible = flag /\ Visible' = flag /\ flag \in BOOLEAN
  BY <1>1 DEF Visible, IInv, Types, ControlOK
<1>5. Main \in g /\ Main \in Promise!Actors
  BY <1>1, SameWords DEF Actors
<1>6. g' = IF Visible THEN g \ {Main} ELSE g
  <2>1. CASE flag
    <3>1. late' = 1
      BY <1>1, <2>1 DEF Remove
    <3> QED BY <1>1, <1>4, <2>1, <3>1, JobAssumption DEF Actors
  <2>2. CASE ~flag
    <3>1. late' = 0
      BY <1>1, <2>2 DEF Remove
    <3> QED BY <1>1, <1>4, <2>2, <3>1
  <2> QED BY <2>1, <2>2
<1>7. present' = present \ {cur} /\ removed' = removed \cup {cur}
  BY DEF Remove, Erase
<1>8. pc # "done" /\ ~(pc' = "done") /\ ~(pc = "done")
  BY <1>1
<1>9. (pc = "done")' = (pc = "done")
  BY <1>8
<1>10. Visible' = Visible
  BY <1>4
<1>11. Promise!Remove(Main, cur)
  BY <1>1, <1>3, <1>5, <1>6, <1>7, <1>8, <1>9, <1>10 DEF Promise!Remove
<1> QED BY <1>2, <1>5, <1>11 DEF Promise!Next

(* A step that removes nothing is one of other processes, an abort, the      *)
(* return, or none at all.                                                   *)
LEMMA OtherKept ==
    ASSUME UNCHANGED <<job, removed, late>>,
           \/ UNCHANGED <<present, Visible>>
           \/ UNCHANGED <<present, (pc = "done")>> /\ Visible' = TRUE
           \/ UNCHANGED <<(pc = "done"), Visible>> /\ present' \subseteq Nodes \ removed,
           pc = "done" => pc' = "done"
    PROVE  [Promise!Next]_Promise!vars
<1> DEFINE g == IF late = 0 THEN Actors ELSE Workers
<1>1. g' = g
  OBVIOUS
<1>2. CASE UNCHANGED <<present, Visible>>
  BY <1>1, <1>2 DEF Promise!Next, Promise!Return, Promise!vars
<1>3. CASE UNCHANGED <<present, (pc = "done")>> /\ Visible' = TRUE
  BY <1>1, <1>3 DEF Promise!Next, Promise!Abort, Promise!vars
<1>4. CASE UNCHANGED <<(pc = "done"), Visible>> /\ present' \subseteq Nodes \ removed
  BY <1>1, <1>4 DEF Promise!Next, Promise!Interfere, Promise!vars
<1> QED BY <1>2, <1>3, <1>4

(* Every step of the engine is a step of TreeRemoval, or leaves it alone.    *)
LEMMA StepKept == ASSUME IInv, IInv', [Next]_vars PROVE [Promise!Next]_Promise!vars
<1>1. CASE Remove
  BY <1>1, RemovalAllowed
<1>2. CASE Meddle
  <2>1. UNCHANGED <<job, flag, pc, removed, late>>
    BY <1>2 DEF Meddle, Others, Vanish, Appear, Protect, ReplaceRoot
  <2>2. present' \subseteq Nodes \ removed
    BY <2>1 DEF IInv, NamesOnce, Types, DiskOK
  <2>3. UNCHANGED <<(pc = "done"), Visible>>
    BY <2>1 DEF Visible
  <2> QED BY <2>1, <2>2, <2>3, OtherKept
<1>3. CASE ~Remove /\ ~Meddle
  <2>1. UNCHANGED <<present, removed>>
    BY <1>3, Steps, QuietDisk, ShortageDisk DEF Misfortune, RemoveForce, Chmod, vars
  <2>2. UNCHANGED <<job, late>>
    BY <1>3, Steps DEF Quiet, ReadEvent, WriteFlag, Collect, EnterAborted, EnterFails, Enter,
           LoopAbort, LoopDone, RequestEvent, RequestFlag, ReadFile, ReadClosedDir, ReadDir,
           ReadEnd, FinishDir, RemoveGone, RemoveFails, RemoveForce, Shortage, EnterNoMemory,
           ReadNoMemory, ReadDirNoGrowth, ReadError, vars
  <2>3. CASE RequestFlag
    <3>1. pc' = pc /\ flag' = TRUE
      BY <2>3 DEF RequestFlag
    <3>2. Visible' = Visible \/ Visible' = TRUE
      BY <3>1 DEF Visible
    <3>3. UNCHANGED (pc = "done")
      BY <3>1
    <3> QED BY <2>1, <2>2, <3>1, <3>2, <3>3, OtherKept
  <2>4. CASE WriteFlag
    <3>1. pc = "write" /\ pc' = "enter" /\ flag' = seen /\ seen \in BOOLEAN
      BY <2>4 DEF WriteFlag, IInv, Types, ControlOK
    <3>2. Visible = FALSE /\ Visible' \in BOOLEAN
      BY <3>1 DEF Visible
    <3>3. UNCHANGED (pc = "done")
      BY <3>1
    <3>4. Visible' = Visible \/ Visible' = TRUE
      BY <3>2
    <3> QED BY <2>1, <2>2, <3>1, <3>3, <3>4, OtherKept
  <2>5. CASE ~RequestFlag /\ ~WriteFlag
    <3>1. /\ flag' = flag
          /\ pc \in {"read", "write"} <=> pc' \in {"read", "write"}
          /\ pc = "done" => pc' = "done"
      BY <1>3, <2>5, Steps DEF Quiet, ReadEvent, Collect, EnterAborted, EnterFails, Enter,
             LoopAbort, LoopDone, RequestEvent, ReadFile, ReadClosedDir, ReadDir,
             ReadEnd, FinishDir, RemoveGone, RemoveFails, RemoveForce, Shortage, EnterNoMemory,
             ReadNoMemory, ReadDirNoGrowth, ReadError, Take, Reading, Return, vars
    <3>2. Visible' = Visible
      BY <3>1 DEF Visible
    <3> QED BY <2>1, <2>2, <3>1, <3>2, OtherKept
  <2> QED BY <2>3, <2>4, <2>5
<1> QED BY <1>1, <1>2, <1>3

(* The compiled engine keeps the promise of TreeRemoval for every tree and   *)
(* combination of options: from the moment it can see an abort it removes at *)
(* most the one entry it had begun with, nothing in a dry run, never a       *)
(* target that is to be kept, and nothing after it has returned.             *)
THEOREM PromiseKept == Spec => KeepsPromise
<1>1. Init => Promise!Init
  <2> SUFFICES ASSUME Init PROVE Promise!Init
    OBVIOUS
  <2>1. (IF late = 0 THEN Actors ELSE Workers) = Promise!Actors
    BY SameWords DEF Init
  <2>2. Visible = FALSE /\ (pc = "done") = FALSE
    BY DEF Init, Visible
  <2> QED BY <2>1, <2>2 DEF Init, DiskInit, Promise!Init
<1>2. IInv /\ IInv' /\ [Next]_vars => [Promise!Next]_Promise!vars
  BY StepKept
<1> QED BY <1>1, <1>2, Invariance, PTL DEF Spec, Promise!Spec, KeepsPromise

-----------------------------------------------------------------------------
(* What is counted as deleted, when nobody interferes.                       *)

(* Then nothing goes away but by the engine's own hand, so that no entry it  *)
(* has begun with is found gone.                                             *)
Calm ==
    Undisturbed =>
        /\ Begun \cup unread \subseteq present
        /\ ~job.dryRun => /\ cstats["files"] = Cardinality(removed \cap Files)
                          /\ cstats["dirs"]  = Cardinality(removed \cap Dirs)

(* Interference is not undone.                                               *)
LEMMA CalmBefore == ASSUME DiskOK, [Next]_vars, Undisturbed'
                    PROVE  Undisturbed /\ ~Misfortune /\ ~Meddle
<1>1. env \in Nat /\ EnvBudget \in Nat /\ env <= EnvBudget
  BY DiskAssumption DEF DiskOK
<1>2. ~Interfere
  BY <1>1 DEF Interfere, Undisturbed
<1>3. ~Misfortune /\ ~Meddle
  BY <1>2 DEF Misfortune, Meddle, Others, ReplaceRoot, Vanish, Appear, Protect
<1>4. env' = env
  BY <1>3, Steps, QuietDisk, ShortageDisk DEF Remove, Erase, RemoveForce, Chmod, vars
<1> QED BY <1>3, <1>4 DEF Undisturbed

(* What the engine has begun with stays.                                     *)
LEMMA BegunStays ==
    ASSUME IInv, Calm, [Next]_vars, Undisturbed'
    PROVE  Begun' \cup unread' \subseteq present'
<1>1. Undisturbed /\ ~Misfortune /\ ~Meddle /\ ~Shortage
  BY CalmBefore, ShortageDisk DEF IInv, Types
<1>2. Begun \cup unread \subseteq present
  BY <1>1 DEF Calm
<1>3. CASE Remove
  <2>1. /\ cur \notin DirsOf(stack) /\ cur \notin unread
    BY <1>3 DEF Remove, IInv, Entries, Met, Begun, InHand
  <2>2. InHand' = {} /\ UNCHANGED <<stack, unread>> /\ present' = present \ {cur}
    BY <1>3 DEF Remove, InHand, Erase
  <2> QED BY <1>2, <2>1, <2>2 DEF Begun
<1>4. CASE ~Remove
  <2>1. present' = present
    BY <1>1, <1>4, Steps, QuietDisk DEF RemoveForce, Chmod, vars
  <2>2. CASE Aside
    <3>1. InHand' \subseteq InHand /\ UNCHANGED <<stack, unread>>
      BY <2>2 DEF Aside, InHand
    <3> QED BY <1>2, <2>1, <3>1 DEF Begun
  <2>3. CASE Enter
    <3>1. stack' = <<[dir |-> Root, depth |-> 0]>> /\ unread' \subseteq present /\ InHand' = {}
          /\ Root \in present
      BY <2>3 DEF Enter, InHand, Openable
    <3>2. DirsOf(stack') = {Root}
      BY <3>1 DEF DirsOf
    <3> QED BY <2>1, <3>1, <3>2 DEF Begun
  <2>4. CASE Closes
    <3>1. /\ stack # <<>> /\ stack' = SubSeq(stack, 1, Len(stack) - 1) /\ cur' = Top.dir
          /\ unread' \subseteq unread
      BY <2>4 DEF Closes, FinishDir, Reading, Below
    <3>2. DirsOf(stack') \subseteq DirsOf(stack) /\ Top.dir \in DirsOf(stack)
      BY <3>1, PopDirs DEF IInv, Types, StackOK, Entries, Met, Top
    <3>3. InHand' \subseteq {Top.dir}
      BY <3>1 DEF InHand
    <3> QED BY <1>2, <2>1, <3>1, <3>2, <3>3 DEF Begun
  <2>5. CASE Resolves \/ Returns
    <3>1. InHand' = {} /\ UNCHANGED <<stack, unread>>
      BY <2>5 DEF Resolves, Returns, InHand
    <3> QED BY <1>2, <2>1, <3>1 DEF Begun
  <2>6. ASSUME NEW n \in Nodes, Take(n) PROVE n \in present /\ pc = "loop"
    BY <1>2, <2>6 DEF Take, Reading, Listed
  <2>7. ASSUME NEW n \in Nodes, Notes(n) \/ Grasps(n) PROVE Begun' \cup unread' \subseteq present'
    <3>1. InHand' \subseteq {n} /\ stack' = stack /\ unread' \subseteq unread
      BY <2>6, <2>7 DEF Notes, Grasps, InHand
    <3>2. n \in present
      BY <2>6, <2>7 DEF Notes, Grasps
    <3> QED BY <1>2, <2>1, <3>1, <3>2 DEF Begun
  <2>8. ASSUME NEW n \in Nodes, Pushes(n) PROVE Begun' \cup unread' \subseteq present'
    <3>1. n \notin given /\ n # Root /\ n \notin Begun /\ n \in present /\ pc = "loop"
      BY <2>6, <2>8, TakenIsNew DEF Pushes, IInv, Entries
    <3>2. InHand' = {} /\ unread' \subseteq unread \cup present
      BY <2>8, <3>1 DEF Pushes, InHand
    <3>3. DirsOf(stack') = DirsOf(stack) \cup {n}
      BY <2>8, <3>1, PushDirs DEF Pushes, IInv, Types, StackOK, Entries, Met, Begun
    <3> QED BY <1>2, <2>1, <3>1, <3>2, <3>3 DEF Begun
  <2> QED BY <2>2, <2>3, <2>4, <2>5, <2>7, <2>8, Shapes DEF IInv
<1> QED BY <1>3, <1>4

(* Only a removal counts as one.                                             *)
LEMMA CountsStay ==
    ASSUME IInv, [Next]_vars, ~job.dryRun, ~Remove, ~RemoveGone, ~Misfortune
    PROVE  cstats'["files"] = cstats["files"] /\ cstats'["dirs"] = cstats["dirs"]
<1>1. cstats \in [Counters -> Nat] /\ WalkOK
  BY DEF IInv, Types, CountOK
<1>2. "files" \in Counters /\ "dirs" \in Counters
  BY DEF Counters
<1>3. ASSUME NEW c \in {"discovered", "failed", "skipped"}, Count(c)
      PROVE  cstats'["files"] = cstats["files"] /\ cstats'["dirs"] = cstats["dirs"]
  <2>1. c \in Counters /\ c # "files" /\ c # "dirs"
    BY DEF Counters
  <2> QED BY <1>1, <1>2, <1>3, <2>1, CountOne
<1>4. CASE \/ EnterFails \/ RemoveFails \/ \E n \in Nodes : ReadFile(n) \/ ReadClosedDir(n)
  <2>1. \E c \in {"discovered", "failed", "skipped"} : Count(c)
    BY <1>1, <1>4, FailureCounters DEF EnterFails, RemoveFails, ReadFile, ReadClosedDir
  <2> QED BY <1>3, <2>1
<1>5. CASE ~(\/ EnterFails \/ RemoveFails \/ \E n \in Nodes : ReadFile(n) \/ ReadClosedDir(n))
  <2>1. cstats' = cstats
    BY <1>5, Steps, ShortageDisk DEF Quiet, ReadEvent, WriteFlag, Collect, EnterAborted, Enter,
           LoopAbort, LoopDone, RequestEvent, RequestFlag, ReadDir, ReadEnd, FinishDir, RemoveForce,
           Meddle, vars
  <2> QED BY <2>1
<1> QED BY <1>4, <1>5

(* A removal adds one name to those removed.                                 *)
LEMMA RemovalCounts ==
    ASSUME IInv, Remove, ~job.dryRun,
           cstats["files"] = Cardinality(removed \cap Files),
           cstats["dirs"]  = Cardinality(removed \cap Dirs)
    PROVE  /\ cstats'["files"] = Cardinality(removed' \cap Files)
           /\ cstats'["dirs"]  = Cardinality(removed' \cap Dirs)
<1>1. /\ cur \in Nodes /\ cur \notin removed /\ removed' = removed \cup {cur}
      /\ Count(Kind(cur))
  BY DEF IInv, NamesOnce, Types, WalkOK, Remove, Works, Removal, Erase
<1>2. IsFiniteSet(removed \cap Files) /\ IsFiniteSet(removed \cap Dirs)
  BY FS_Subset, TreeAssumption DEF IInv, Types, DiskOK
<1>3. cstats \in [Counters -> Nat] /\ "files" \in Counters /\ "dirs" \in Counters
  BY DEF IInv, Types, CountOK, Counters
<1>4. CASE cur \in Files
  <2>1. Count("files")
    BY <1>1, <1>4 DEF Kind
  <2>2. cstats'["files"] = cstats["files"] + 1 /\ cstats'["dirs"] = cstats["dirs"]
    BY <1>3, <2>1, CountOne
  <2>3. removed' \cap Files = (removed \cap Files) \cup {cur} /\ removed' \cap Dirs = removed \cap Dirs
    BY <1>1, <1>4 DEF Files
  <2>4. Cardinality(removed' \cap Files) = Cardinality(removed \cap Files) + 1
    BY <1>1, <1>2, <2>3, FS_AddElement
  <2> QED BY <2>2, <2>3, <2>4
<1>5. CASE cur \notin Files
  <2>1. Count("dirs") /\ cur \in Dirs
    BY <1>1, <1>5 DEF Kind, Files
  <2>2. cstats'["dirs"] = cstats["dirs"] + 1 /\ cstats'["files"] = cstats["files"]
    BY <1>3, <2>1, CountOne
  <2>3. removed' \cap Dirs = (removed \cap Dirs) \cup {cur} /\ removed' \cap Files = removed \cap Files
    BY <1>1, <1>5, <2>1
  <2>4. Cardinality(removed' \cap Dirs) = Cardinality(removed \cap Dirs) + 1
    BY <1>1, <1>2, <2>3, FS_AddElement
  <2> QED BY <2>2, <2>3, <2>4
<1> QED BY <1>4, <1>5

(* The counters keep step with the removals.                                 *)
LEMMA CalmStep == ASSUME IInv, Calm, [Next]_vars PROVE Calm'
<1> SUFFICES ASSUME Undisturbed' PROVE Calm'
  BY DEF Calm
<1>1. Undisturbed /\ ~Misfortune /\ ~Meddle
  BY CalmBefore DEF IInv, Types
<1>2. Begun' \cup unread' \subseteq present'
  BY BegunStays
<1>3. ~RemoveGone
  BY <1>1 DEF RemoveGone, Calm, Begun, InHand
<1>4. job' = job
  BY Shapes DEF IInv, Aside, Enter, Closes, FinishDir, Resolves, Returns, Notes, Grasps, Pushes
<1>5. ASSUME ~job.dryRun
      PROVE  /\ cstats'["files"] = Cardinality(removed' \cap Files)
             /\ cstats'["dirs"]  = Cardinality(removed' \cap Dirs)
  <2>1. CASE Remove
    BY <1>1, <1>5, <2>1, RemovalCounts DEF Calm
  <2>2. CASE ~Remove
    <3>1. removed' = removed
      BY <1>1, <2>2, Steps, QuietDisk, ShortageDisk DEF RemoveForce, Chmod, vars
    <3> QED BY <1>1, <1>3, <1>5, <2>2, <3>1, CountsStay DEF Calm
  <2> QED BY <2>1, <2>2
<1> QED BY <1>2, <1>4, <1>5 DEF Calm

(* The call starts from nothing counted and nothing removed.                 *)
LEMMA CalmInit == Init => Calm
<1> SUFFICES ASSUME Init PROVE Calm
  OBVIOUS
<1>1. Begun = {} /\ unread = {}
  BY DEF Init, Begun, DirsOf, InHand
<1>2. removed \cap Files = {} /\ removed \cap Dirs = {}
  BY DEF Init, DiskInit
<1>3. cstats["files"] = 0 /\ cstats["dirs"] = 0
  BY DEF Init, NoStats, Counters
<1> QED BY <1>1, <1>2, <1>3, FS_EmptySet DEF Calm

(* An engine nobody interferes with stays calm.                              *)
LEMMA Calmness == Spec => []Calm
<1> QED BY CalmInit, CalmStep, Invariance, PTL DEF Spec

(* While nobody interferes, what the engine counts as deleted is what it     *)
(* removed, for every tree, although it also counts an entry it finds gone.  *)
THEOREM CountsRight == Spec => []CountsAreRemovals
<1>1. Calm => CountsAreRemovals
  BY DEF Calm, CountsAreRemovals
<1> QED BY <1>1, Calmness, PTL

-----------------------------------------------------------------------------
(* What a call nobody interferes with leaves behind.                         *)

(* Nobody interferes, nobody asks for an abort, and it is no rehearsal.      *)
Alone == Undisturbed /\ request = "none" /\ ~job.dryRun

Before == pc \in {"read", "write", "enter"}

(* What the walk has come past and will not come back to ...                 *)
Past == {n \in given \cup {Root} : ~Before /\ n \notin Begun}

(* ... and why it may still exist.                                           *)
Stuck(n) ==
    \/ n \notin Allowed(job)
    \/ n \in Busy \cup mistaken
    \/ Parent[n] \in ReadOnly /\ (job.force => Parent[n] \notin Owned)
    \/ n \in Unreadable
    \/ \E c \in present \cap Past : Parent[c] = n

(* The frames are those of the directories above the innermost one.          *)
StackShape ==
    /\ \A i \in 1 .. Len(stack) : Depth[stack[i].dir] = i - 1
    /\ \A n \in unread : Parent[n] \in DirsOf(stack)
    /\ DirsOf(stack) \cap Unreadable = {}
    /\ \A n \in InHand \cap Dirs : n \notin Unreadable /\ Depth[n] = Len(stack)
    /\ request = "none" /\ pc \in {"collect", "done"} => stack = <<>>

(* The tree is in one piece, and no mode stands in the way that did not at   *)
(* first or that force has changed.                                          *)
Whole ==
    /\ \A n \in present \ {Root} : Parent[n] \in present
    /\ Before => Root \in present
    /\ mode \subseteq ReadOnly
    /\ pc = "retry" => Parent[cur] \notin mode \cap Owned

(* Every entry of a directory that was read was returned, or will be.        *)
AllRead ==
    \A n \in present \ {Root} :
        Parent[n] \in (given \cup {Root}) \ Unreadable /\ ~Before => n \in given \cup unread

Sunk == \A n \in present \cap Past : Stuck(n)

Thorough == Alone => Whole /\ AllRead /\ Sunk

(* A step after which nothing has interfered is the engine's own.            *)
LEMMA AloneStep ==
    ASSUME IInv, [Next]_vars, Alone'
    PROVE  /\ Alone /\ job' = job /\ ~job.dryRun /\ ~flag /\ request = "none"
           /\ ~Misfortune /\ ~Meddle /\ ~Shortage
<1>1. job' = job
  BY Shapes DEF IInv, Aside, Enter, Closes, FinishDir, Resolves, Returns, Notes, Grasps, Pushes
<1>2. Undisturbed /\ ~Misfortune /\ ~Meddle
  BY CalmBefore DEF Alone, IInv, Types
<1>3. request = "none" /\ ~flag
  BY AbortStep DEF Alone, IInv, Entries, NoAbort
<1> QED BY <1>1, <1>2, <1>3, ShortageDisk DEF Alone

(* The innermost directory is as deep as the stack is high, and what it      *)
(* holds is one level deeper.                                                *)
LEMMA TopDepth ==
    ASSUME Types, StackShape, stack # <<>>
    PROVE  Depth[Top.dir] = Len(stack) - 1 /\ Len(stack) \in Nat \ {0}
<1>1. Len(stack) \in Nat \ {0}
  BY PopFrame DEF Types, StackOK
<1> QED BY <1>1 DEF StackShape, Top

(* So is what the engine takes from it.                                      *)
LEMMA TakenDepth ==
    ASSUME Types, Met, StackShape, NEW n \in Nodes, Take(n)
    PROVE  Depth[n] = Len(stack)
<1>1. Parent[n] = Top.dir /\ n # Root /\ stack # <<>>
  BY TakenIsNew DEF Take, Reading, Listed, Children
<1>2. Depth[n] = Depth[Top.dir] + 1
  BY <1>1, TreeAssumption
<1>3. PICK k \in Nat \ {0} : k = Len(stack) /\ Depth[Top.dir] = k - 1
  BY <1>1, TopDepth
<1> QED BY <1>2, <1>3

(* A frame more and a frame less keep every frame at its depth.              *)
LEMMA FrameDepths ==
    ASSUME NEW s \in Seq(Frames), \A i \in 1 .. Len(s) : Depth[s[i].dir] = i - 1
    PROVE  /\ s # <<>> => LET t == SubSeq(s, 1, Len(s) - 1)
                          IN  \A i \in 1 .. Len(t) : Depth[t[i].dir] = i - 1
           /\ \A n \in Dirs, k \in Int :
                  Depth[n] = Len(s) =>
                      LET t == Append(s, [dir |-> n, depth |-> k])
                      IN  \A i \in 1 .. Len(t) : Depth[t[i].dir] = i - 1
<1>1. ASSUME s # <<>>
      PROVE  LET t == SubSeq(s, 1, Len(s) - 1)
             IN  \A i \in 1 .. Len(t) : Depth[t[i].dir] = i - 1
  BY <1>1, PopFrame
<1>2. ASSUME NEW n \in Dirs, NEW k \in Int, Depth[n] = Len(s)
      PROVE  LET t == Append(s, [dir |-> n, depth |-> k])
             IN  \A i \in 1 .. Len(t) : Depth[t[i].dir] = i - 1
  <2> DEFINE f == [dir |-> n, depth |-> k]
             t == Append(s, f)
  <2>1. f \in Frames /\ f.dir = n
    BY DEF Frames
  <2> HIDE DEF f
  <2>2. /\ Len(t) = Len(s) + 1 /\ t[Len(s) + 1] = f
        /\ \A i \in 1 .. Len(s) : t[i] = s[i]
    BY <2>1, PushFrame
  <2> HIDE DEF t
  <2>3. PICK m \in Nat : m = Len(s)
    OBVIOUS
  <2>4. ASSUME NEW i \in 1 .. Len(t) PROVE Depth[t[i].dir] = i - 1
    <3>1. i \in 1 .. m \/ i = m + 1
      BY <2>2, <2>3
    <3> QED BY <1>2, <2>1, <2>2, <2>3, <3>1
  <2> QED BY <2>4 DEF t, f
<1> QED BY <1>1, <1>2

(* No step breaks the shape of the stack.                                    *)
LEMMA ShapeStep == ASSUME IInv, StackShape, [Next]_vars PROVE StackShape'
<1>0. /\ Types /\ Met /\ Begins /\ NoAbort /\ stack \in Seq(Frames)
      /\ request' = "none" => request = "none"
  BY AbortStep DEF IInv, Entries, Types, StackOK
<1>1. CASE Aside
  <2>1. InHand' = InHand /\ DirsOf(stack') = DirsOf(stack)
    BY <1>1 DEF Aside, InHand
  <2>2. pc' \in {"collect", "done"} => pc \in {"collect", "done"}
    BY <1>1 DEF Aside
  <2> QED BY <1>0, <1>1, <2>1, <2>2 DEF Aside, StackShape
<1>2. CASE Enter
  <2>1. /\ stack' = <<[dir |-> Root, depth |-> 0]>> /\ unread' \subseteq Children(Root)
        /\ InHand' = {} /\ Root \notin Unreadable /\ pc' = "loop"
    BY <1>2 DEF Enter, InHand, Openable
  <2>2. DirsOf(stack') = {Root} /\ \A i \in 1 .. Len(stack') : Depth[stack'[i].dir] = i - 1
    BY <2>1, TreeAssumption DEF DirsOf
  <2> QED BY <2>1, <2>2 DEF StackShape, Children
<1>3. CASE Closes
  <2>1. /\ stack # <<>> /\ pc = "loop" /\ stack' = SubSeq(stack, 1, Len(stack) - 1)
        /\ cur' = Top.dir /\ unread' = unread \ Children(Top.dir) /\ pc' \in {"loop", "remove"}
    BY <1>3 DEF Closes, FinishDir, Reading, Below
  <2>2. DirsOf(stack') = DirsOf(stack) \ {Top.dir} /\ Top.dir \in DirsOf(stack)
    BY <1>0, <2>1, PopDirs DEF Met, Top
  <2>3. \A i \in 1 .. Len(stack') : Depth[stack'[i].dir] = i - 1
    BY <1>0, <2>1, FrameDepths DEF StackShape
  <2>4. Depth[Top.dir] = Len(stack')
    BY <1>0, <2>1, TopDepth, PopFrame
  <2>5. InHand' \subseteq {Top.dir} /\ Top.dir \notin Unreadable
    BY <2>1, <2>2 DEF InHand, StackShape
  <2>6. \A n \in unread' : Parent[n] \in DirsOf(stack')
    BY <1>0, <2>1, <2>2 DEF StackShape, Children, Types, WalkOK
  <2> QED BY <2>1, <2>2, <2>3, <2>4, <2>5, <2>6 DEF StackShape
<1>4. CASE Resolves
  <2>1. InHand' = {} /\ DirsOf(stack') = DirsOf(stack)
    BY <1>4 DEF Resolves, InHand
  <2> QED BY <1>4, <2>1 DEF Resolves, StackShape
<1>5. CASE Returns
  <2>1. InHand' = {} /\ DirsOf(stack') = DirsOf(stack) /\ UNCHANGED <<stack, unread>>
    BY <1>5 DEF Returns, InHand
  <2>2. request' = "none" => stack = <<>>
    BY <1>0, <1>5 DEF Returns, Begins, NoAbort
  <2> QED BY <2>1, <2>2 DEF StackShape
<1>6. ASSUME NEW n \in Nodes, Notes(n) \/ Grasps(n) PROVE StackShape'
  <2>1. /\ InHand' \cap Dirs = {} /\ pc' \in {"loop", "remove"} /\ stack' = stack
        /\ unread' \subseteq unread
    BY <1>0, <1>6, TakenIsNew DEF Notes, Grasps, InHand, Files
  <2>2. DirsOf(stack') = DirsOf(stack)
    BY <2>1
  <2> QED BY <2>1, <2>2 DEF StackShape
<1>7. ASSUME NEW n \in Nodes, Pushes(n) PROVE StackShape'
  <2>1. /\ n \notin Begun /\ n # Root /\ InHand' = {} /\ pc' = "loop" /\ n \in Dirs
        /\ n \notin Unreadable /\ unread' \subseteq unread \cup Children(n)
    BY <1>0, <1>7, TakenIsNew DEF Pushes, InHand, Openable
  <2>2. PICK k \in Int : stack' = Append(stack, [dir |-> n, depth |-> k])
    BY <1>7 DEF Pushes
  <2>3. DirsOf(stack') = DirsOf(stack) \cup {n}
    BY <1>0, <2>1, <2>2, PushDirs DEF Met, Begun
  <2>4. Depth[n] = Len(stack)
    BY <1>0, <1>7, TakenDepth DEF Pushes
  <2>5. \A i \in 1 .. Len(stack') : Depth[stack'[i].dir] = i - 1
    BY <1>0, <2>1, <2>2, <2>4, FrameDepths DEF StackShape
  <2>6. \A m \in unread' : Parent[m] \in DirsOf(stack')
    BY <2>1, <2>3 DEF StackShape, Children
  <2> QED BY <2>1, <2>3, <2>5, <2>6 DEF StackShape
<1> QED BY <1>0, <1>1, <1>2, <1>3, <1>4, <1>5, <1>6, <1>7, Shapes

(* No step of a call nobody interferes with takes the tree apart.            *)
LEMMA WholeStep ==
    ASSUME IInv, Alone => Whole, [Next]_vars, Alone'
    PROVE  Whole' /\ present' \subseteq present /\ (~Remove => present' = present)
<1>0. Types /\ Whole /\ ~Shortage /\ ~Meddle
  BY AloneStep DEF IInv
<1>1. CASE Remove
  <2>1. /\ present' = present \ {cur} /\ mode' = mode /\ pc' = "loop"
        /\ pc \in {"remove", "retry"} /\ Leaf(cur, present)
    BY <1>1 DEF Remove, Works, Erase
  <2>2. \A n \in present \ {Root} : Parent[n] # cur
    BY <1>0, <2>1 DEF Leaf, Children, Types, DiskOK
  <2> QED BY <1>0, <1>1, <2>1, <2>2 DEF Whole, Before
<1>2. CASE RemoveForce
  <2>1. /\ mode' = mode \ Chmodable(cur) /\ present' = present /\ pc' = "retry" /\ cur' = cur
    BY <1>2 DEF RemoveForce, Chmod
  <2>2. Parent[cur] \notin mode' \cap Owned
    BY <2>1 DEF Chmodable
  <2>3. ~Remove
    BY <1>2 DEF Remove, RemoveForce
  <2> QED BY <1>0, <2>1, <2>2, <2>3 DEF Whole, Before
<1>3. CASE Quiet \/ UNCHANGED vars
  <2>1. UNCHANGED <<present, mode>>
    BY <1>3, QuietDisk DEF vars
  <2>2. pc' = "retry" => pc = "retry" /\ cur' = cur
    BY <1>3 DEF Quiet, vars, ReadEvent, WriteFlag, Collect, EnterAborted, EnterFails, Enter,
                LoopAbort, LoopDone, ReadFile, ReadClosedDir, ReadDir, ReadEnd, FinishDir, Take,
                Reading, RemoveGone, RemoveFails, RequestEvent, RequestFlag, Return
  <2>3. Before' => Before
    BY <1>3 DEF Before, Quiet, vars, ReadEvent, WriteFlag, Collect, EnterAborted, EnterFails,
                Enter, LoopAbort, LoopDone, ReadFile, ReadClosedDir, ReadDir, ReadEnd, FinishDir,
                Take, Reading, RemoveGone, RemoveFails, RequestEvent, RequestFlag, Return
  <2> QED BY <1>0, <2>1, <2>2, <2>3 DEF Whole
<1> QED BY <1>0, <1>1, <1>2, <1>3, Steps

(* No step loses an entry of a directory that is read, where the process can *)
(* hold open as many directories as the tree is deep.                        *)
LEMMA AllReadStep ==
    ASSUME \A d \in Dirs : Depth[d] < MaxOpen,
           IInv, Calm, StackShape, Alone => Whole /\ AllRead, [Next]_vars, Alone'
    PROVE  AllRead'
<1>0. /\ Types /\ Met /\ Begins /\ Whole /\ AllRead /\ ~Misfortune /\ ~flag /\ ~job.dryRun
      /\ Begun \cup unread \subseteq present /\ present' \subseteq present
  BY AloneStep, WholeStep DEF IInv, Entries, Calm, Alone
<1>1. ASSUME UNCHANGED <<given, unread>>, Before => Before' PROVE AllRead'
  BY <1>0, <1>1 DEF AllRead
<1>2. CASE Aside \/ Resolves
  BY <1>1, <1>2 DEF Aside, Resolves, Before
<1>3. CASE Enter
  <2>1. given' = {} /\ unread' = Children(Root) \cap present /\ present' \subseteq Nodes
    BY <1>0, <1>3 DEF Enter, Begins, Types, DiskOK
  <2> QED BY <1>0, <2>1 DEF AllRead, Children
<1>4. CASE Closes
  <2>1. /\ unread' = unread \ Children(Top.dir) /\ given' = given /\ ~Before
        /\ Children(Top.dir) \cap unread \cap present = {}
    BY <1>0, <1>4 DEF Closes, FinishDir, Reading, Before
  <2> QED BY <1>0, <2>1 DEF AllRead
<1>5. CASE Returns
  <2>1. CASE pc = "enter"
    <3>1. given' = {} /\ ~Openable(Root, 0) /\ Root \in present
      BY <1>0, <1>5, <2>1 DEF Returns, Begins, Whole, Before
    <3>2. Root \in Unreadable
      BY <3>1, TreeAssumption DEF Openable
    <3> QED BY <3>1, <3>2 DEF AllRead
  <2>2. CASE pc = "loop"
    BY <1>1, <1>5, <2>2 DEF Returns, Before
  <2> QED BY <1>5, <2>1, <2>2 DEF Returns
<1>6. ASSUME NEW n \in Nodes, Take(n) 
      PROVE  n \in present /\ (n \in Dirs => Len(stack) < MaxOpen)
  <2>1. n \in present
    BY <1>0, <1>6 DEF Take, Listed
  <2>2. Depth[n] = Len(stack)
    BY <1>0, <1>6, TakenDepth
  <2> QED BY <2>1, <2>2
<1>7. ASSUME NEW n \in Nodes, Notes(n) PROVE AllRead'
  <2>1. /\ Take(n) /\ n \in Dirs /\ ~Openable(n, Len(stack)) /\ unread' = unread \ {n}
        /\ given' = given \cup {n} /\ ~Before
    BY <1>0, <1>7 DEF Notes, Take, Reading, Before
  <2>2. n \in Unreadable
    BY <1>6, <2>1 DEF Openable
  <2> QED BY <1>0, <2>1, <2>2 DEF AllRead
<1>8. ASSUME NEW n \in Nodes, Grasps(n) PROVE AllRead'
  <2>1. n \in Files /\ unread' = unread \ {n} /\ given' = given \cup {n} /\ ~Before
    BY <1>8 DEF Grasps, Take, Reading, Before
  <2>2. \A m \in present \ {Root} : Parent[m] # n
    BY <1>0, <2>1, TreeAssumption DEF Files, Types, DiskOK
  <2> QED BY <1>0, <2>1, <2>2 DEF AllRead
<1>9. ASSUME NEW n \in Nodes, Pushes(n) PROVE AllRead'
  <2>1. /\ unread' = (unread \ {n}) \cup (Children(n) \cap present)
        /\ given' = given \cup {n} /\ ~Before
    BY <1>9 DEF Pushes, Take, Reading, Before
  <2> QED BY <1>0, <2>1 DEF AllRead, Children, Types, DiskOK
<1> QED BY <1>0, <1>2, <1>3, <1>4, <1>5, <1>7, <1>8, <1>9, Shapes

(* What the walk has come past stays stuck.                                  *)
LEMMA StuckStays ==
    ASSUME Sunk, job' = job, mistaken \subseteq mistaken', present' \subseteq present,
           present \cap Past \subseteq present' \cap Past',
           \A n \in (present' \cap Past') \ Past : Stuck(n)'
    PROVE  Sunk'
<1>1. ASSUME NEW n \in present' \cap Past', n \in Past PROVE Stuck(n)'
  <2>1. Stuck(n)
    BY <1>1 DEF Sunk
  <2>2. CASE \E c \in present \cap Past : Parent[c] = n
    BY <2>2 DEF Stuck
  <2>3. CASE ~\E c \in present \cap Past : Parent[c] = n
    BY <2>1, <2>3 DEF Stuck
  <2> QED BY <2>2, <2>3
<1> QED BY <1>1 DEF Sunk

(* What is left in a directory that is taken up for removal was dealt with.  *)
LEMMA LeftInside ==
    ASSUME Types, Met, StackShape, AllRead, NEW n \in Nodes, InHand = {n}, ~Before,
           NEW c \in present, Parent[c] = n
    PROVE  c \in Past /\ c # n
<1>1. c \in Nodes
  BY DEF Types, DiskOK
<1>2. n \in Dirs
  BY <1>1, TreeAssumption
<1>3. /\ n \notin Unreadable /\ Depth[n] = Len(stack) /\ n \in given \cup {Root}
      /\ n \notin DirsOf(stack)
  BY <1>2 DEF StackShape, Met, Begun
<1>4. c # Root /\ Depth[c] = Depth[n] + 1 /\ Depth[n] \in Nat
  BY <1>1, <1>2, TreeAssumption
<1>5. c \in given
  BY <1>3, <1>4 DEF AllRead, StackShape
<1>6. c \notin DirsOf(stack)
  <2> SUFFICES ASSUME c \in DirsOf(stack) PROVE FALSE
    OBVIOUS
  <2>1. PICK k \in Nat : k = Len(stack)
    BY DEF Types, StackOK
  <2>2. PICK i \in 1 .. k : c = stack[i].dir
    BY <2>1 DEF DirsOf
  <2>3. Depth[c] = i - 1 /\ Depth[c] = k + 1
    BY <1>3, <1>4, <2>1, <2>2 DEF StackShape
  <2> QED BY <2>1, <2>2, <2>3
<1>7. c # n
  BY <1>4
<1> QED BY <1>5, <1>6, <1>7 DEF Past, Begun

(* A removal that failed for good failed for one of the reasons.             *)
LEMMA FailsForGood ==
    ASSUME Types, Met, StackShape, Whole, AllRead, RemoveFails, UNCHANGED <<given, stack>>
    PROVE  Stuck(cur)
<1>1. /\ pc \in {"remove", "retry"} /\ cur \in present /\ cur \in Nodes /\ ~Works(cur)
      /\ (job.force => pc = "retry") /\ InHand = {cur} /\ ~Before
  BY DEF RemoveFails, InHand, Types, WalkOK, Before
<1>2. CASE cur \in Busy
  BY <1>2 DEF Stuck
<1>3. CASE Forbidden(cur)
  <2>1. Parent[cur] \in ReadOnly /\ (job.force => Parent[cur] \notin Owned)
    BY <1>1, <1>3 DEF Forbidden, Whole
  <2> QED BY <2>1 DEF Stuck
<1>4. CASE ~Leaf(cur, present)
  <2>1. PICK c \in present : Parent[c] = cur
    BY <1>4 DEF Leaf, Children
  <2>2. c \in Past
    BY <1>1, <2>1, LeftInside
  <2> QED BY <2>1, <2>2 DEF Stuck
<1> QED BY <1>1, <1>2, <1>3, <1>4 DEF Works, Removal

(* No step leaves an entry behind without a reason.                          *)
LEMMA SunkStep ==
    ASSUME \A d \in Dirs : Depth[d] < MaxOpen,
           IInv, Calm, StackShape, Alone => Whole /\ AllRead /\ Sunk, [Next]_vars, Alone'
    PROVE  Sunk'
<1>0. /\ Types /\ Met /\ Begins /\ Whole /\ AllRead /\ Sunk /\ job' = job /\ ~job.dryRun
      /\ ~Misfortune /\ ~flag /\ ~Shortage /\ ~Meddle
      /\ Begun \cup unread \subseteq present /\ present' \subseteq present
      /\ ~Remove => present' = present
  BY AloneStep, WholeStep DEF IInv, Entries, Calm, Alone
<1>1. CASE Remove
  <2>1. /\ present' = present \ {cur} /\ InHand = {cur} /\ InHand' = {} /\ ~Before /\ ~Before'
        /\ UNCHANGED <<given, stack, mistaken>>
    BY <1>1 DEF Remove, Erase, InHand, Before
  <2>2. Past' \subseteq Past \cup {cur} /\ Past \subseteq Past' /\ cur \notin Past
    BY <2>1 DEF Past, Begun
  <2> QED BY <1>0, <2>1, <2>2, StuckStays
<1>2. ASSUME ~Remove, UNCHANGED <<given, mistaken>>, Begun' = Begun, (Before' <=> Before) PROVE Sunk'
  <2>1. Past' = Past
    BY <1>2 DEF Past
  <2> QED BY <1>0, <1>2, <2>1, StuckStays
<1>3. CASE Aside /\ ~Remove
  <2>1. InHand' = InHand /\ (Before' <=> Before)
    BY <1>3 DEF Aside, InHand, Before
  <2> QED BY <1>2, <1>3, <2>1 DEF Aside, Begun
<1>4. CASE Enter
  <2>1. given' = {} /\ stack' = <<[dir |-> Root, depth |-> 0]>>
    BY <1>0, <1>4 DEF Enter, Begins
  <2>2. Root \in DirsOf(stack')
    BY <2>1 DEF DirsOf
  <2> QED BY <2>1, <2>2 DEF Sunk, Past, Begun
<1>5. CASE Closes
  <2>1. /\ stack # <<>> /\ pc = "loop" /\ stack' = SubSeq(stack, 1, Len(stack) - 1)
        /\ cur' = Top.dir /\ given' = given /\ ~Before /\ ~Before' /\ InHand = {} /\ ~Remove
    BY <1>5 DEF Closes, FinishDir, Reading, Below, Before, InHand, Remove
  <2>2. /\ DirsOf(stack') = DirsOf(stack) \ {Top.dir} /\ Top.dir \in DirsOf(stack)
        /\ Top.dir \in Dirs
    BY <1>0, <2>1, PopDirs, TopFrame DEF Types, StackOK, Met, Top
  <2>3. CASE Kept(Top)
    <3>1. pc' = "loop" /\ mistaken' = mistaken \cup ({Top.dir} \ {Root}) /\ ~job.deleteRoot
      BY <1>5, <2>1, <2>3 DEF Closes, FinishDir, Kept
    <3>2. InHand' = {}
      BY <3>1 DEF InHand
    <3>3. PICK n \in Dirs : n = Top.dir
      BY <2>2
    <3>4. Past \subseteq Past' /\ Past' \subseteq Past \cup {n}
      BY <2>1, <2>2, <3>2, <3>3 DEF Past, Begun
    <3>5. n = Root => n \notin Allowed(job)
      BY <1>0, <3>1, <3>3, CEngineAssumption, JobAssumption, TreeAssumption
         DEF Allowed, Emitted, Matched, Removable, Files, Types, ControlOK
    <3>6. Stuck(n)'
      BY <1>0, <3>1, <3>3, <3>5 DEF Stuck
    <3> QED BY <1>0, <2>1, <3>1, <3>4, <3>6, StuckStays
  <2>4. CASE ~Kept(Top)
    <3>1. pc' = "remove" /\ mistaken' = mistaken
      BY <1>0, <1>5, <2>1, <2>4 DEF Closes, FinishDir
    <3>2. Begun' = Begun
      BY <2>1, <2>2, <3>1 DEF Begun, InHand
    <3> QED BY <1>2, <2>1, <3>1, <3>2
  <2> QED BY <2>3, <2>4
<1>6. CASE RemoveFails
  <2>1. /\ InHand = {cur} /\ InHand' = {} /\ ~Before /\ ~Before' /\ cur \in Nodes /\ ~Remove
        /\ UNCHANGED <<given, stack, mistaken, cur>>
    BY <1>0, <1>6 DEF RemoveFails, Remove, InHand, Before, Types, WalkOK
  <2>2. Stuck(cur)
    BY <1>0, <1>6, <2>1, FailsForGood
  <2>3. PICK n \in Nodes : n = cur
    BY <2>1
  <2>4. Past \subseteq Past' /\ Past' \subseteq Past \cup {n}
    BY <2>1, <2>3 DEF Past, Begun
  <2>5. Stuck(n)'
    BY <1>0, <2>1, <2>2, <2>3, <2>4 DEF Stuck
  <2> QED BY <1>0, <2>1, <2>4, <2>5, StuckStays
<1>7. ~RemoveGone
  BY <1>0 DEF RemoveGone, Begun, InHand
<1>8. CASE Returns /\ ~Remove
  <2>1. CASE pc = "enter"
    <3>1. given' = {} /\ ~Openable(Root, 0) /\ Root \in present
      BY <1>0, <1>8, <2>1 DEF Returns, Begins, Whole, Before
    <3>2. Root \in Unreadable
      BY <3>1, TreeAssumption DEF Openable
    <3> QED BY <3>1, <3>2 DEF Sunk, Past, Stuck
  <2>2. CASE pc = "loop"
    <3>1. InHand = {} /\ InHand' = {} /\ (Before' <=> Before)
      BY <1>8, <2>2 DEF Returns, InHand, Before
    <3> QED BY <1>2, <1>8, <3>1 DEF Returns, Begun
  <2> QED BY <1>8, <2>1, <2>2 DEF Returns
<1>9. ASSUME NEW n \in Nodes, Take(n), ~Remove
      PROVE  /\ n \notin Begun /\ n \notin given /\ n # Root /\ InHand = {} /\ n \in present
             /\ Depth[n] = Len(stack) /\ given' = given \cup {n} /\ pc = "loop"
  BY <1>0, <1>9, TakenIsNew, TakenDepth DEF Take, Listed
<1>10. ASSUME NEW n \in Nodes, Notes(n), ~Remove PROVE Sunk'
  <2>1. /\ Take(n) /\ n \in Dirs /\ ~Openable(n, Len(stack))
        /\ UNCHANGED <<pc, stack, mistaken>>
    BY <1>0, <1>10 DEF Notes
  <2>2. n \in Unreadable
    BY <1>9, <1>10, <2>1 DEF Openable
  <2>3. Begun' = Begun /\ ~Before /\ ~Before'
    BY <1>9, <1>10, <2>1 DEF Begun, InHand, Before
  <2>4. Past \subseteq Past' /\ Past' \subseteq Past \cup {n}
    BY <1>9, <1>10, <2>1, <2>3 DEF Past
  <2>5. Stuck(n)'
    BY <2>2 DEF Stuck
  <2> QED BY <1>0, <2>1, <2>4, <2>5, StuckStays
<1>11. ASSUME NEW n \in Nodes, Grasps(n) \/ Pushes(n), ~Remove PROVE Sunk'
  <2>1. Take(n) /\ mistaken' = mistaken
    BY <1>11 DEF Grasps, Pushes
  <2>2. Begun' = Begun \cup {n} /\ ~Before /\ ~Before'
    <3>1. CASE Grasps(n)
      BY <1>9, <1>11, <3>1 DEF Grasps, Begun, InHand, Before, Take, Reading
    <3>2. CASE Pushes(n)
      <4>1. DirsOf(stack') = DirsOf(stack) \cup {n}
        BY <1>0, <1>9, <1>11, <2>1, <3>2, PushDirs DEF Pushes, Types, StackOK, Met, Begun
      <4> QED BY <1>9, <1>11, <2>1, <3>2, <4>1 DEF Pushes, Begun, InHand, Before
    <3> QED BY <1>11, <3>1, <3>2
  <2>3. Past' = Past
    BY <1>9, <1>11, <2>1, <2>2 DEF Past
  <2> QED BY <1>0, <1>11, <2>1, <2>3, StuckStays
<1>12. CASE Resolves /\ ~Remove
  <2>1. RemoveFails
    BY <1>0, <1>7, <1>12, Steps
       DEF Quiet, vars, Resolves, ReadEvent, WriteFlag, Collect, EnterAborted, EnterFails, Enter,
           LoopAbort, LoopDone, ReadFile, ReadClosedDir, ReadDir, ReadEnd, FinishDir, Take,
           Reading, RequestEvent, RequestFlag, RemoveForce
  <2> QED BY <1>6, <2>1
<1> QED BY <1>0, <1>1, <1>3, <1>4, <1>5, <1>8, <1>10, <1>11, <1>12, Shapes

(* The call starts with nothing done.                                        *)
LEMMA ThoroughInit == Init => StackShape /\ Thorough
<1> SUFFICES ASSUME Init PROVE StackShape /\ Thorough
  OBVIOUS
<1>1. DirsOf(stack) = {} /\ InHand = {} /\ Len(stack) = 0
  BY DEF Init, DirsOf, InHand
<1>2. StackShape
  BY <1>1 DEF Init, StackShape
<1>3. Whole
  BY InitialAssumption DEF Init, DiskInit, Whole, Before
<1>4. AllRead /\ Sunk
  BY DEF Init, AllRead, Sunk, Past, Before
<1> QED BY <1>2, <1>3, <1>4 DEF Thorough

(* When the walk is over, whatever was not returned was in a directory that  *)
(* could not be read.                                                        *)
LEMMA Reached ==
    ASSUME Types, Whole, AllRead, pc = "done", unread = {}, NEW n \in present
    PROVE  n \in given \cup {Root} \/ Path[n] \cap Unreadable # {}
<1> DEFINE S == {m \in present : m \in given \cup {Root} \/ Path[m] \cap Unreadable # {}}
<1>1. present \in SUBSET Nodes /\ (Root \in present => Root \in S)
  BY DEF Types, DiskOK
<1>2. ASSUME NEW m \in present \ {Root}
      PROVE  Parent[m] \in present /\ (Parent[m] \in S => m \in S)
  <2>1. Parent[m] \in present /\ m \in Nodes /\ Parent[m] \in Dirs
    BY <1>1, TreeAssumption DEF Whole
  <2>2. Path[Parent[m]] \subseteq Path[m] /\ Parent[m] \in Path[m]
    <3>1. Parent[m] \in Nodes /\ m # Root
      BY <2>1, TreeAssumption
    <3>2. Path[m] = {m} \cup Path[Parent[m]]
      BY <2>1, <3>1, PathSteps
    <3>3. Parent[m] \in Path[Parent[m]]
      BY <3>1, PathSteps
    <3> QED BY <3>2, <3>3
  <2>3. Parent[m] \in (given \cup {Root}) \ Unreadable => m \in given
    BY DEF AllRead, Before
  <2> QED BY <2>1, <2>2, <2>3
<1> HIDE DEF S
<1>3. present \subseteq S
  BY <1>1, <1>2, Downwards
<1> QED BY <1>3 DEF S

(* A call that ran to its end, with nobody interfering, has removed all it   *)
(* could, however far the stack had to grow and whatever was read from a     *)
(* frame that had moved, if the process may hold one open directory for      *)
(* every level of the tree, as the engine does.                              *)
THEOREM NothingLeft == (\A d \in Dirs : Depth[d] < MaxOpen) => (Spec => []NoLeftovers)
<1> SUFFICES ASSUME \A d \in Dirs : Depth[d] < MaxOpen PROVE Spec => []NoLeftovers
  OBVIOUS
<1>1. IInv /\ StackShape /\ [Next]_vars => StackShape'
  BY ShapeStep
<1>2. IInv /\ Calm /\ StackShape /\ Thorough /\ [Next]_vars => Thorough'
  <2> SUFFICES ASSUME IInv, Calm, StackShape, Thorough, [Next]_vars, Alone'
               PROVE  Whole' /\ AllRead' /\ Sunk'
    BY DEF Thorough
  <2> QED BY WholeStep, AllReadStep, SunkStep DEF Thorough
<1>3. IInv /\ StackShape /\ Thorough => NoLeftovers
  <2> SUFFICES ASSUME IInv, StackShape, Thorough, pc = "done", Alone, NEW n \in present
               PROVE  Excused(n)
    BY DEF NoLeftovers, Alone
  <2>1. Types /\ Whole /\ AllRead /\ Sunk /\ n \in Nodes
    BY DEF Thorough, IInv, Types, DiskOK
  <2>2. Begun = {}
    BY DEF StackShape, Alone, Begun, DirsOf, InHand
  <2>3. unread = {}
    BY <2>2 DEF StackShape, Begun
  <2>4. CASE Path[n] \cap Unreadable # {}
    BY <2>4 DEF Excused
  <2>5. CASE n \in given \cup {Root}
    <3>1. Stuck(n)
      BY <2>1, <2>2, <2>5 DEF Sunk, Past, Before
    <3>2. n \in Path[n]
      BY <2>1, PathSteps
    <3>3. (\E c \in present \cap Past : Parent[c] = n) => ~Leaf(n, present)
      BY <2>1 DEF Leaf, Children, Types, DiskOK
    <3> QED BY <3>1, <3>2, <3>3 DEF Stuck, Excused
  <2> QED BY <2>1, <2>3, <2>4, <2>5, Reached
<1> QED BY <1>1, <1>2, <1>3, ThoroughInit, Invariance, Calmness, PTL DEF Spec
===============================================================================
