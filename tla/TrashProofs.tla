----------------------------- MODULE TrashProofs ------------------------------
(* What the trash directory is worth, for any objects, places, names and     *)
(* failures: its records are well formed whatever processes run, and while   *)
(* one process at a time is at work every payload can be restored and        *)
(* nothing is lost that was not purged.                                      *)
EXTENDS Trash, TLAPS

(* The user waits for one command to end or die before giving the next.     *)
(* Names are not reserved between the choice of one and its use, so that two *)
(* processes can take the same: see the run trash_race.                      *)
OneAtATime == \A p, q \in Procs : op[p] # Idle /\ op[q] # Idle => p = q

(* Towards the trash, and back to a place.                                   *)
Inward(p)  == op[p].src \in Places /\ op[p].dst \in Names
Outward(p) == op[p].src \in Names /\ op[p].dst \in Places

Moving == {"moving", "copying", "copied"}

(* Every operation goes one way or the other, and leaves nothing in hand.    *)
OneWay(p) ==
    /\ op[p].at = "idle" => op[p] = Idle
    /\ op[p].at = "named" => Inward(p)
    /\ op[p].at \in {"aimed", "moved"} => Outward(p)
    /\ op[p].at \in Moving => Inward(p) \/ Outward(p)

TInv == TypeOK /\ \A p \in Procs : OneWay(p)

(* What is known of the info file and the payload of the name in hand.       *)
Noting(p) ==
    /\ op[p].at = "named" => info[op[p].dst] = None
    /\ op[p].at \in Moving /\ ToTrash(p) => info[op[p].dst] = op[p].src
    /\ op[p].at = "moved" => holds[op[p].src] = {}

(* A payload came from somewhere. *)
Traced == \A n \in Names : holds[n] # {} => origin[n] # None

(* Its info file names that place, or was unlinked beside it. *)
Labelled == \A n \in Names : holds[n] # {} /\ n \notin orphaned => info[n] = origin[n]

RInv == TInv /\ Traced /\ Labelled /\ \A p \in Procs : Noting(p)

(* What stands in the way of a move is only what exists() does not see, and  *)
(* a finished copy holds all of the source.                                  *)
Unseen(p) ==
    /\ op[p].at \in {"named", "moving", "copying"} => holds[op[p].dst] \subseteq Dangling
    /\ op[p].at = "copied" => holds[op[p].src] \subseteq holds[op[p].dst]

(* Nothing is moved into a directory, so that a slot holds one object. *)
Single == \A s \in Slots : \A a, b \in holds[s] : a = b

(* What the user has not created is nowhere. *)
Unborn == \A s \in Slots : holds[s] \cap fresh = {}

PInv == TInv /\ Single /\ Unborn /\ \A p \in Procs : Unseen(p)

(* How far files and info correspond at each point of an operation.          *)
Clean(n) == Occupied(n) <=> info[n] # None

Level(p) ==
    /\ op[p].at \in {"named", "aimed", "copied"} => \A n \in Names : Clean(n)
    /\ op[p].at \in {"moving", "copying"} => \A n \in Names \ {op[p].dst} : Clean(n)
    /\ op[p].at \in {"named", "aimed", "moving", "copying"} => Occupied(op[p].src)
    /\ op[p].at = "moving" /\ ToTrash(p) => ~Occupied(op[p].dst)
    /\ op[p].at = "moved" =>
           /\ ~Occupied(op[p].src)
           /\ \A n \in Names \ {op[p].src} : Clean(n)
    /\ op[p].at = "files" => \A n \in Names : Occupied(n) <=> n \in op[p].left
    /\ op[p].at = "infos" =>
           \A n \in Names : ~Occupied(n) /\ (info[n] # None <=> n \in op[p].left)

BInv == RInv /\ Tidy /\ (mishaps = Mishaps => \A p \in Procs : Level(p))

-----------------------------------------------------------------------------
(* Type correctness.                                                         *)

(* Places, names and the marks for no place are told apart.                  *)
LEMMA Apartness ==
    /\ Places \subseteq Slots /\ Names \subseteq Slots /\ Places \cap Names = {}
    /\ None \notin Slots /\ Blank \notin Slots /\ None # Blank
  BY TrashAssumption DEF Slots

(* The trash is empty at the start. *)
LEMMA TInvInit == Init => TInv
  <1> SUFFICES ASSUME Init PROVE TInv
    OBVIOUS
  <1>1. Mishaps \in 0 .. Mishaps
    BY TrashAssumption
  <1>2. holds \in [Slots -> SUBSET Objects]
    BY DEF Init
  <1>3. TypeOK
    BY <1>1, <1>2 DEF Init, TypeOK, Idle
  <1>4. \A p \in Procs : OneWay(p)
    BY DEF Init, OneWay, Idle, Moving
  <1> QED
    BY <1>3, <1>4 DEF TInv

(* What a process can be doing. *)
Doings == [at : {"idle", "named", "moving", "copying", "copied", "aimed", "moved", "files",
                 "infos"},
           src : Slots \cup {None}, dst : Slots \cup {None}, left : SUBSET Names]

Sound(r) ==
    /\ r \in Doings
    /\ r.at = "idle" => r = Idle
    /\ r.at = "named" => r.src \in Places /\ r.dst \in Names
    /\ r.at \in {"aimed", "moved"} => r.src \in Names /\ r.dst \in Places
    /\ r.at \in Moving => \/ r.src \in Places /\ r.dst \in Names
                          \/ r.src \in Names /\ r.dst \in Places

(* What a process does next is all that its step changes of op.              *)
LEMMA TInvOp ==
    ASSUME TInv, NEW p \in Procs, NEW r, op' = [op EXCEPT ![p] = r], Sound(r)
    PROVE  op' \in [Procs -> Doings] /\ \A q \in Procs : OneWay(q)'
  <1>1. op \in [Procs -> Doings]
    BY DEF TInv, TypeOK, Doings
  <1>2. op'[p] = r /\ \A q \in Procs : q # p => op'[q] = op[q]
    BY <1>1
  <1>3. ASSUME NEW q \in Procs PROVE OneWay(q)'
    <2>1. CASE q = p
      BY <1>2, <2>1 DEF OneWay, Inward, Outward, Moving, Sound
    <2>2. CASE q # p
      BY <1>2, <2>2 DEF TInv, OneWay, Inward, Outward
    <2> QED
      BY <2>1, <2>2
  <1> QED
    BY <1>1, <1>3 DEF Sound

(* What a process is doing is sound. *)
LEMMA OpSound ==
    ASSUME TInv, NEW p \in Procs
    PROVE  op[p] \in Doings /\ Sound(op[p]) /\ Sound(Idle) /\ op \in [Procs -> Doings]
  BY DEF TInv, TypeOK, Doings, Sound, OneWay, Inward, Outward, Moving, Idle

(* A process turns to something else, at work before the step or after it.   *)
Turns(p, r) == Sound(r) /\ op' = [op EXCEPT ![p] = r] /\ (op[p] # Idle \/ r # Idle)

(* Every step of a process leaves it with something sound to do, and the     *)
(* process is at work before the step or after it.                           *)
LEMMA Goes ==
    ASSUME TInv, NEW p \in Procs, Step(p)
    PROVE  \E r : Turns(p, r)
  <1>0. op[p] \in Doings /\ Sound(op[p]) /\ Sound(Idle)
    BY OpSound
  <1>4. op[p].at # "idle" => op[p] # Idle
    BY DEF Idle
  <1>1. ASSUME NEW x \in Places, Named(p, x)
        PROVE  \E r : Turns(p, r)
    <2>1. PICK k \in 0 .. MaxSuffix :
              op' = [op EXCEPT ![p] = [Idle EXCEPT !.at = "named", !.src = x,
                                                   !.dst = <<Base[x], k>>]]
      BY <1>1 DEF Named
    <2>2. <<Base[x], k>> \in Names
      BY DEF Names
    <2>3. Sound([Idle EXCEPT !.at = "named", !.src = x, !.dst = <<Base[x], k>>])
      BY <2>2 DEF Sound, Doings, Idle, Slots, Moving
    <2> DEFINE r == [Idle EXCEPT !.at = "named", !.src = x, !.dst = <<Base[x], k>>]
    <2>4. r # Idle
      BY DEF Idle
    <2>5. Turns(p, r)
      BY <2>1, <2>3, <2>4 DEF Turns
    <2> QED
      BY <2>5
  <1>2. ASSUME NEW at, Goto(p, at), op[p].at # "idle",
               Sound([op[p] EXCEPT !.at = at])
        PROVE  \E r : Turns(p, r)
    <2> DEFINE r == [op[p] EXCEPT !.at = at]
    <2>1. op' = [op EXCEPT ![p] = r]
      BY <1>2 DEF Goto
    <2>2. op[p] # Idle
      BY <1>2 DEF Idle
    <2>3. Turns(p, r)
      BY <1>2, <2>1, <2>2 DEF Turns
    <2> QED
      BY <2>3
  <1>3. ASSUME Stop(p), op[p] # Idle
        PROVE  \E r : Turns(p, r)
    BY <1>0, <1>3 DEF Stop, Turns
  <1>5. op[p].at = "named" => Sound([op[p] EXCEPT !.at = "moving"])
    BY <1>0 DEF Sound, Doings, Moving
  <1>6. op[p].at = "moving" => Sound([op[p] EXCEPT !.at = "copying"])
    BY <1>0 DEF Sound, Doings, Moving
  <1>7. op[p].at = "copying" => Sound([op[p] EXCEPT !.at = "copied"])
    BY <1>0 DEF Sound, Doings, Moving
  <1>8. op[p].at \in Moving /\ ~ToTrash(p) => Sound([op[p] EXCEPT !.at = "moved"])
    BY <1>0, Apartness DEF Sound, Doings, Moving, ToTrash
  <1>9. op[p].at = "aimed" => Sound([op[p] EXCEPT !.at = "moving"])
    BY <1>0 DEF Sound, Doings, Moving
  <1>10. ASSUME NEW n \in Names, NEW given \in Places \cup {None}, Aim(p, n, given)
         PROVE  \E r : Turns(p, r)
    <2>1. Goal(n, given) \in Places
      BY <1>10, TrashAssumption DEF Aim, Goal
    <2>2. Sound([Idle EXCEPT !.at = "aimed", !.src = n, !.dst = Goal(n, given)])
      BY <2>1 DEF Sound, Doings, Idle, Slots, Moving
    <2> DEFINE r == [Idle EXCEPT !.at = "aimed", !.src = n, !.dst = Goal(n, given)]
    <2>3. r # Idle
      BY DEF Idle
    <2>4. Turns(p, r)
      BY <1>10, <2>2, <2>3 DEF Turns, Aim
    <2> QED
      BY <2>4
  <1>11. ASSUME Empty(p)
         PROVE  \E r : Turns(p, r)
    <2> DEFINE r == [Idle EXCEPT !.at = "files", !.left = {n \in Names : Occupied(n)}]
    <2>1. Sound(r)
      BY DEF Sound, Doings, Idle, Moving
    <2>2. op' = [op EXCEPT ![p] = r] /\ r # Idle
      BY <1>11 DEF Empty, Idle
    <2>3. Turns(p, r)
      BY <2>1, <2>2 DEF Turns
    <2> QED
      BY <2>3
  <1>12. ASSUME FilesPurged(p)
         PROVE  \E r : Turns(p, r)
    <2> DEFINE r == [op[p] EXCEPT !.at = "infos", !.left = {n \in Names : info[n] # None}]
    <2>1. Sound(r)
      BY <1>0 DEF Sound, Doings, Moving
    <2>2. op' = [op EXCEPT ![p] = r]
      BY <1>12 DEF FilesPurged
    <2>3. Turns(p, r)
      BY <1>4, <1>12, <2>1, <2>2 DEF FilesPurged, Turns
    <2> QED
      BY <2>3
  <1>13. ASSUME NEW n \in Names, NEW folder \in {"files", "infos"}, Purging(p, n, folder)
         PROVE  \E r : Turns(p, r)
    <2> DEFINE r == [op[p] EXCEPT !.left = @ \ {n}]
    <2>1. Sound(r)
      BY <1>0, <1>13 DEF Sound, Doings, Moving, Purging
    <2>2. op' = [op EXCEPT ![p] = r]
      BY <1>13 DEF Purging
    <2>3. Turns(p, r)
      BY <1>4, <1>13, <2>1, <2>2 DEF Purging, Turns
    <2> QED
      BY <2>3
  <1>14. CASE WriteInfo(p) \/ WriteInfoFails(p)
    BY <1>2, <1>3, <1>4, <1>5, <1>14 DEF WriteInfo, WriteInfoFails
  <1>15. CASE Rename(p) \/ RemoveSource(p)
    BY <1>2, <1>3, <1>4, <1>8, <1>15 DEF Rename, RemoveSource, Moved, Moving
  <1>16. CASE MoveRefused(p) \/ CopyFails(p) \/ RemoveSourceFails(p)
    BY <1>3, <1>4, <1>16 DEF MoveRefused, CopyFails, RemoveSourceFails, Raise
  <1>17. CASE StartCopy(p) \/ FinishCopy(p)
    BY <1>2, <1>6, <1>7, <1>17 DEF StartCopy, FinishCopy
  <1>18. CASE CheckGoal(p) \/ UnlinkInfo(p) \/ Emptied(p) \/ Crash(p)
    BY <1>2, <1>3, <1>4, <1>9, <1>18 DEF CheckGoal, UnlinkInfo, Emptied, Crash
  <1> QED
    BY <1>1, <1>10, <1>11, <1>12, <1>13, <1>14, <1>15, <1>16, <1>17, <1>18
    DEF Step, PurgeFile, PurgeFileFails, PurgeInfo

(* The part of TypeOK that is not about op. *)
Stored ==
    /\ holds \in [Slots -> SUBSET Objects]
    /\ partial \subseteq Slots
    /\ info \in [Names -> Places \cup {None, Blank}]
    /\ fresh \subseteq Objects
    /\ mishaps \in 0 .. Mishaps
    /\ origin \in [Names -> Places \cup {None}]
    /\ orphaned \subseteq Names

(* A failed call or a crash is one of the Mishaps. *)
LEMMA MishapType ==
    ASSUME Stored, Mishap
    PROVE  mishaps' \in 0 .. Mishaps /\ mishaps' # Mishaps
  BY TrashAssumption DEF Stored, Mishap

(* The failure of a move takes back an info file or leaves it.               *)
LEMMA RaiseType ==
    ASSUME TInv, NEW p \in Procs, op[p].at \in Moving, Raise(p)
    PROVE  info' \in [Names -> Places \cup {None, Blank}] /\ orphaned' \subseteq Names
  <1>1. ToTrash(p) => Name(p) \in Names
    BY Apartness DEF TInv, OneWay, Inward, Outward, ToTrash, Name
  <1> QED
    BY <1>1 DEF Raise, TInv, TypeOK

(* A finished move or copy is noted under a name of the trash.               *)
LEMMA NotedType ==
    ASSUME TInv, NEW p \in Procs, op[p].at \in Moving, Noted(p)
    PROVE  origin' \in [Names -> Places \cup {None}] /\ orphaned' \subseteq Names
  BY DEF Noted, ToTrash, TInv, TypeOK

(* What arrives in a slot is objects. *)
LEMMA SlotTypes ==
    ASSUME TInv, NEW s \in Slots, NEW d \in Slots
    PROVE  /\ Joined(d, s) \in SUBSET Objects
           /\ Marked(d, s) \subseteq Slots
           /\ Spoil(s) => holds' \in [Slots -> SUBSET Objects] /\ partial' \subseteq Slots
  <1>1. Joined(d, s) \in SUBSET Objects /\ Marked(d, s) \subseteq Slots
    BY DEF Joined, Marked, TInv, TypeOK
  <1>2. Spoil(s) => holds' \in [Slots -> SUBSET Objects] /\ partial' \subseteq Slots
    BY DEF Spoil, slotVars, TInv, TypeOK
  <1> QED
    BY <1>1, <1>2

(* What the updates of op mean for the process itself.                       *)
LEMMA Turned ==
    ASSUME TInv, NEW p \in Procs
    PROVE  /\ Stop(p) => op'[p] = Idle
           /\ \A at \in {"moving", "copying", "copied", "moved"} :
                  Goto(p, at) => /\ op'[p].at = at /\ op'[p].src = op[p].src
                                 /\ op'[p].dst = op[p].dst
  <1>0. op \in [Procs -> Doings] /\ op[p] \in Doings
    BY OpSound
  <1>1. Stop(p) => op'[p] = Idle
    BY <1>0 DEF Stop
  <1>2. ASSUME NEW at \in {"moving", "copying", "copied", "moved"}, Goto(p, at)
        PROVE  op'[p].at = at /\ op'[p].src = op[p].src /\ op'[p].dst = op[p].dst
    <2>1. op'[p] = [op[p] EXCEPT !.at = at]
      BY <1>0, <1>2 DEF Goto
    <2> QED
      BY <1>0, <2>1 DEF Doings
  <1> QED
    BY <1>1, <1>2

(* Every step keeps the types of what is stored. *)
LEMMA TInvStored ==
    ASSUME TInv, NEW p \in Procs, Step(p)
    PROVE  Stored'
  <1>0. Stored /\ Sound(op[p])
    BY OpSound DEF TInv, TypeOK, Stored
  <1>a. op[p].at \in Moving => op[p].src \in Slots /\ op[p].dst \in Slots
    BY <1>0, Apartness DEF Sound
  <1>1. CASE \/ (\E x \in Places : Named(p, x)) \/ Empty(p) \/ FilesPurged(p) \/ Emptied(p)
             \/ CheckGoal(p) \/ (\E n \in Names : \E given \in Places \cup {None} : Aim(p, n, given))
    BY <1>0, <1>1 DEF Stored, slotVars, Named, Empty, FilesPurged, Emptied, CheckGoal, Aim
  <1>2. CASE WriteInfo(p)
    BY <1>0, <1>2 DEF Stored, slotVars, WriteInfo, Sound
  <1>3. CASE WriteInfoFails(p)
    BY <1>0, <1>3, MishapType DEF Stored, slotVars, WriteInfoFails
  <1>4. CASE Rename(p)
    <2> USE <1>4 DEF Rename, Moving
    <2>1. holds' \in [Slots -> SUBSET Objects] /\ partial' \subseteq Slots
      BY <1>0, <1>a, SlotTypes DEF Stored
    <2>2. origin' \in [Names -> Places \cup {None}] /\ orphaned' \subseteq Names
      BY NotedType
    <2> QED
      BY <1>0, <2>1, <2>2 DEF Stored
  <1>5. CASE MoveRefused(p)
    <2> USE <1>5 DEF MoveRefused, Moving
    <2> QED
      BY <1>0, RaiseType DEF Stored, slotVars
  <1>6. CASE StartCopy(p)
    BY <1>0, <1>a, <1>6 DEF Stored, StartCopy, Moving
  <1>7. CASE FinishCopy(p)
    <2> USE <1>7 DEF FinishCopy, Moving
    <2>1. holds' \in [Slots -> SUBSET Objects] /\ partial' \subseteq Slots
      BY <1>0, <1>a, SlotTypes DEF Stored
    <2>2. origin' \in [Names -> Places \cup {None}] /\ orphaned' \subseteq Names
      BY NotedType
    <2> QED
      BY <1>0, <2>1, <2>2 DEF Stored
  <1>8. CASE CopyFails(p)
    <2> USE <1>8 DEF CopyFails, Moving
    <2>1. mishaps' \in 0 .. Mishaps
      BY <1>0, MishapType DEF Stored
    <2> QED
      BY <1>0, <2>1, RaiseType DEF Stored, slotVars
  <1>9. CASE RemoveSource(p)
    BY <1>0, <1>9 DEF Stored, RemoveSource
  <1>10. CASE RemoveSourceFails(p)
    <2> USE <1>10 DEF RemoveSourceFails, Moving
    <2>1. mishaps' \in 0 .. Mishaps
      BY <1>0, MishapType DEF Stored
    <2>2. holds' \in [Slots -> SUBSET Objects] /\ partial' \subseteq Slots
      BY <1>a, SlotTypes
    <2> QED
      BY <1>0, <2>1, <2>2, RaiseType DEF Stored
  <1>11. CASE UnlinkInfo(p)
    BY <1>0, <1>11 DEF Stored, slotVars, UnlinkInfo
  <1>12. CASE \E n \in Names : PurgeFile(p, n)
    BY <1>0, <1>12 DEF Stored, PurgeFile
  <1>13. ASSUME NEW n \in Names, PurgeFileFails(p, n) PROVE Stored'
    <2>1. mishaps' \in 0 .. Mishaps
      BY <1>0, <1>13, MishapType DEF PurgeFileFails
    <2>2. holds' \in [Slots -> SUBSET Objects] /\ partial' \subseteq Slots
      BY <1>13, SlotTypes, Apartness DEF PurgeFileFails
    <2> QED
      BY <1>0, <1>13, <2>1, <2>2 DEF Stored, PurgeFileFails
  <1>14. CASE \E n \in Names : PurgeInfo(p, n)
    BY <1>0, <1>14 DEF Stored, slotVars, PurgeInfo
  <1>15. CASE Crash(p)
    BY <1>0, <1>15, MishapType DEF Stored, slotVars, Crash
  <1> QED
    BY <1>1, <1>2, <1>3, <1>4, <1>5, <1>6, <1>7, <1>8, <1>9, <1>10, <1>11, <1>12, <1>13,
       <1>14, <1>15 DEF Step

(* Every step of any process and of the user keeps the records sound.        *)
LEMMA TInvNext == TInv /\ [Next]_vars => TInv'
  <1> SUFFICES ASSUME TInv, [Next]_vars PROVE TInv'
    OBVIOUS
  <1>1. ASSUME NEW p \in Procs, Step(p) PROVE TInv'
    <2>1. PICK r : Turns(p, r)
      BY <1>1, Goes
    <2>2. op' \in [Procs -> Doings] /\ \A q \in Procs : OneWay(q)'
      BY <2>1, TInvOp DEF Turns
    <2>3. Stored'
      BY <1>1, TInvStored
    <2> QED
      BY <2>2, <2>3 DEF TInv, TypeOK, Stored, Doings
  <1>2. ASSUME NEW o \in Objects, NEW x \in Places, Create(o, x) PROVE TInv'
    <2>1. TypeOK'
      BY <1>2 DEF Create, TInv, TypeOK
    <2>2. \A q \in Procs : OneWay(q)'
      BY <1>2 DEF Create, TInv, OneWay, Inward, Outward
    <2> QED
      BY <2>1, <2>2 DEF TInv
  <1>3. CASE UNCHANGED vars
    <2>1. TypeOK'
      BY <1>3 DEF vars, slotVars, TInv, TypeOK
    <2>2. \A q \in Procs : OneWay(q)'
      BY <1>3 DEF vars, TInv, OneWay, Inward, Outward
    <2> QED
      BY <2>1, <2>2 DEF TInv
  <1> QED
    BY <1>1, <1>2, <1>3 DEF Next

(* However many processes work on the trash at the same time, every variable *)
(* holds what the code can put there, and every operation in progress goes   *)
(* from a place to a name or back.                                           *)
THEOREM TypeCorrectness == Spec => []TypeOK
  <1>1. TInv => TypeOK
    BY DEF TInv
  <1> QED
    BY <1>1, TInvInit, TInvNext, PTL DEF Spec

-----------------------------------------------------------------------------
(* One process at a time: the others are idle.                               *)

(* While a process takes a step, every other one is idle and stays so.       *)
LEMMA Others ==
    ASSUME TInv, OneAtATime, OneAtATime', NEW p \in Procs, Step(p),
           NEW q \in Procs, q # p
    PROVE  op[q] = Idle /\ op'[q] = Idle
  <1>1. PICK r : Turns(p, r)
    BY Goes
  <1>2. op'[q] = op[q] /\ op'[p] = r
    BY <1>1, OpSound DEF Turns
  <1> QED
    BY <1>1, <1>2 DEF Turns, OneAtATime

(* Before the first command nothing is in the trash. *)
LEMMA RInvInit == Init => RInv
  <1> SUFFICES ASSUME Init PROVE RInv
    OBVIOUS
  <1>1. Traced /\ Labelled
    BY Apartness DEF Init, Traced, Labelled
  <1>2. \A p \in Procs : Noting(p)
    BY DEF Init, Noting, Idle, Moving
  <1> QED
    BY <1>1, <1>2, TInvInit DEF RInv

(* What the process at work has to keep; the idle ones have nothing to note. *)
LEMMA RInvOthers ==
    ASSUME RInv, OneAtATime, OneAtATime', NEW p \in Procs, Step(p),
           Traced', Labelled', Noting(p)'
    PROVE  RInv'
  <1>1. TInv'
    BY TInvNext DEF RInv, Next
  <1>2. ASSUME NEW q \in Procs, q # p PROVE Noting(q)'
    <2>1. op'[q] = Idle
      BY <1>2, Others DEF RInv
    <2> QED
      BY <2>1 DEF Noting, Idle, Moving
  <1> QED
    BY <1>1, <1>2 DEF RInv

(* Choosing a name, a destination or the names to purge, and dying, change   *)
(* neither the payloads nor the info files.                                  *)
LEMMA RInvQuiet ==
    ASSUME RInv, NEW p \in Procs, Step(p),
           \/ \E x \in Places : Named(p, x)
           \/ \E n \in Names : \E given \in Places \cup {None} : Aim(p, n, given)
           \/ CheckGoal(p) \/ Empty(p) \/ FilesPurged(p) \/ Emptied(p)
           \/ StartCopy(p) \/ Crash(p)
    PROVE  Traced' /\ Labelled' /\ Noting(p)'
  <1>0. TInv /\ op \in [Procs -> Doings]
    BY OpSound DEF RInv
  <1>1. UNCHANGED <<holds, info, origin, orphaned>>
    BY DEF Named, Aim, CheckGoal, Empty, FilesPurged, Emptied, StartCopy, Crash, slotVars
  <1>2. Traced' /\ Labelled'
    BY <1>1 DEF RInv, Traced, Labelled
  <1>3. ASSUME NEW x \in Places, Named(p, x) PROVE Noting(p)'
    BY <1>0, <1>1, <1>3 DEF Named, Noting, Free, Idle, Moving
  <1>4. ASSUME NEW n \in Names, NEW given \in Places \cup {None}, Aim(p, n, given)
        PROVE  Noting(p)'
    BY <1>0, <1>1, <1>4 DEF Aim, Noting, Idle, Moving
  <1>5. CASE CheckGoal(p)
    <2>1. ~ToTrash(p)
      BY <1>0, <1>5, Apartness DEF CheckGoal, TInv, OneWay, Outward, ToTrash
    <2>2. op'[p] = Idle \/ (op'[p].at = "moving" /\ op'[p].src = op[p].src)
      BY <1>0, <1>5, Turned DEF CheckGoal
    <2> QED
      BY <1>1, <1>2, <2>1, <2>2 DEF Noting, Idle, Moving, ToTrash
  <1>6. CASE StartCopy(p)
    <2>1. op[p].at = "moving" /\ Noting(p)
      BY <1>6 DEF StartCopy, RInv
    <2>2. op'[p].at = "copying" /\ op'[p].src = op[p].src /\ op'[p].dst = op[p].dst
      BY <1>0, <1>6, Turned DEF StartCopy
    <2> QED
      BY <1>1, <1>2, <2>1, <2>2 DEF Noting, Moving, ToTrash
  <1>7. CASE Empty(p) \/ FilesPurged(p) \/ Emptied(p) \/ Crash(p)
    <2>1. op'[p].at \in {"files", "infos", "idle"}
      <3>1. Empty(p) => op'[p].at = "files"
        BY <1>0 DEF Empty, Idle
      <3>2. FilesPurged(p) => op'[p].at = "infos"
        BY <1>0 DEF FilesPurged, Doings
      <3>3. Emptied(p) \/ Crash(p) => op'[p].at = "idle"
        BY <1>0, Turned DEF Emptied, Crash, Idle
      <3> QED
        BY <1>7, <3>1, <3>2, <3>3
    <2> QED
      BY <1>2, <2>1 DEF Noting, Moving
  <1> QED
    BY <1>2, <1>3, <1>4, <1>5, <1>6, <1>7

(* Writing the info file: it names the place the payload is about to come    *)
(* from; a payload left at that name from an earlier failure is orphaned.    *)
LEMMA RInvInfo ==
    ASSUME RInv, OneAtATime, NEW p \in Procs, WriteInfo(p) \/ WriteInfoFails(p)
    PROVE  Traced' /\ Labelled' /\ Noting(p)'
  <1>0. TInv /\ Noting(p) /\ OneWay(p) /\ op[p].at = "named"
    BY DEF RInv, TInv, WriteInfo, WriteInfoFails
  <1>1. UNCHANGED <<holds, origin, orphaned>>
    BY DEF WriteInfo, WriteInfoFails, slotVars
  <1>2. Traced'
    BY <1>1 DEF RInv, Traced
  <1>3. op[p].dst \in Names /\ op[p].src \in Places /\ info[op[p].dst] = None
    BY <1>0 DEF Noting, OneWay, Inward
  <1>4. holds[op[p].dst] # {} => op[p].dst \in orphaned
    BY <1>3 DEF RInv, Traced, Labelled
  <1>5. info \in [Names -> Places \cup {None, Blank}]
    BY <1>0 DEF TInv, TypeOK
  <1>6. \A n \in Names : n # op[p].dst => info'[n] = info[n]
    BY <1>5 DEF WriteInfo, WriteInfoFails
  <1>7. Labelled'
    BY <1>1, <1>4, <1>6 DEF RInv, Labelled
  <1>8. CASE WriteInfo(p)
    <2>1. op'[p].src = op[p].src /\ op'[p].dst = op[p].dst /\ op'[p].at = "moving"
      BY <1>0, <1>8, Turned DEF WriteInfo
    <2>2. info'[op[p].dst] = op[p].src
      BY <1>3, <1>5, <1>8 DEF WriteInfo
    <2>3. Noting(p)'
      BY <2>1, <2>2 DEF Noting
    <2> QED
      BY <1>2, <1>7, <2>3
  <1>9. CASE WriteInfoFails(p)
    <2>1. op'[p] = Idle
      BY <1>0, <1>9, Turned DEF WriteInfoFails
    <2> QED
      BY <1>2, <1>7, <2>1 DEF Noting, Idle, Moving
  <1> QED
    BY <1>8, <1>9

(* A payload that arrives in the trash comes from the place its info file    *)
(* names.                                                                    *)
LEMMA NotedTraces ==
    ASSUME RInv, NEW p \in Procs, op[p].at \in Moving, Noted(p), UNCHANGED info,
           \A n \in Names : n # op[p].dst \/ ~ToTrash(p) => holds'[n] \subseteq holds[n]
    PROVE  Traced' /\ Labelled'
  <1>0. TInv /\ Noting(p) /\ OneWay(p)
    BY DEF RInv, TInv
  <1>1. CASE ToTrash(p)
    <2>1. op[p].dst \in Names /\ op[p].src \in Places /\ info[op[p].dst] = op[p].src
      BY <1>0, <1>1, Apartness DEF Noting, OneWay, Inward, Outward, ToTrash
    <2>2. origin \in [Names -> Places \cup {None}]
      BY <1>0 DEF TInv, TypeOK
    <2>3. /\ origin'[op[p].dst] = op[p].src
          /\ \A n \in Names : n # op[p].dst =>
                 origin'[n] = origin[n] /\ (n \in orphaned' <=> n \in orphaned)
      BY <1>1, <2>1, <2>2 DEF Noted
    <2>4. ASSUME NEW n \in Names, holds'[n] # {}
          PROVE  origin'[n] # None /\ (n \notin orphaned' => info'[n] = origin'[n])
      <3>1. CASE n = op[p].dst
        BY <2>1, <2>3, <3>1, Apartness
      <3>2. CASE n # op[p].dst
        <4>1. holds[n] # {}
          BY <2>4, <3>2
        <4> QED
          BY <2>3, <3>2, <4>1 DEF RInv, Traced, Labelled
      <3> QED
        BY <3>1, <3>2
    <2> QED
      BY <2>4 DEF Traced, Labelled
  <1>2. CASE ~ToTrash(p)
    <2>1. UNCHANGED <<origin, orphaned>>
      BY <1>2 DEF Noted
    <2>2. ASSUME NEW n \in Names, holds'[n] # {}
          PROVE  origin'[n] # None /\ (n \notin orphaned' => info'[n] = origin'[n])
      <3>1. holds[n] # {}
        BY <1>2, <2>2
      <3> QED
        BY <2>1, <3>1 DEF RInv, Traced, Labelled
    <2> QED
      BY <2>2 DEF Traced, Labelled
  <1> QED
    BY <1>1, <1>2

(* A move that fails takes the info file back: what is left beside it is     *)
(* recorded as orphaned.                                                     *)
LEMMA RaiseTraces ==
    ASSUME RInv, NEW p \in Procs, op[p].at \in Moving, Raise(p), UNCHANGED origin,
           \A n \in Names : holds'[n] \subseteq holds[n]
    PROVE  Traced' /\ Labelled' /\ Noting(p)'
  <1>0. TInv /\ OneWay(p)
    BY DEF RInv, TInv
  <1>1. Traced'
    BY DEF RInv, Traced
  <1>2. info \in [Names -> Places \cup {None, Blank}]
    BY <1>0 DEF TInv, TypeOK
  <1>3. ASSUME NEW n \in Names, holds'[n] # {}, n \notin orphaned'
        PROVE  info'[n] = info[n] /\ n \notin orphaned
    BY <1>2, <1>3 DEF Raise, Occupied
  <1>4. Labelled'
    BY <1>3 DEF RInv, Labelled
  <1>5. op'[p] = Idle
    BY <1>0, Turned DEF Raise
  <1>6. Noting(p)'
    BY <1>5 DEF Noting, Idle, Moving
  <1> QED
    BY <1>1, <1>4, <1>6

(* Where a move goes from and to. *)
LEMMA Ends ==
    ASSUME TInv, NEW p \in Procs, op[p].at \in Moving
    PROVE  /\ op[p].src \in Slots /\ op[p].dst \in Slots /\ op[p].src # op[p].dst
           /\ ToTrash(p) => op[p].src \notin Names /\ op[p].dst \in Names
           /\ ~ToTrash(p) => op[p].src \in Names /\ op[p].dst \notin Names
  <1>1. Inward(p) \/ Outward(p)
    BY DEF TInv, OneWay
  <1> QED
    BY <1>1, Apartness DEF Inward, Outward, ToTrash

(* The move itself, by a rename or by a copy and a removal.                  *)
LEMMA RInvMove ==
    ASSUME RInv, NEW p \in Procs,
           \/ Rename(p) \/ MoveRefused(p) \/ FinishCopy(p) \/ CopyFails(p)
           \/ RemoveSource(p) \/ RemoveSourceFails(p)
    PROVE  Traced' /\ Labelled' /\ Noting(p)'
  <1>0. /\ TInv /\ Noting(p) /\ op[p].at \in Moving /\ holds \in [Slots -> SUBSET Objects]
        /\ Names \subseteq Slots
    BY Apartness
    DEF RInv, TInv, TypeOK, Moving, Rename, MoveRefused, FinishCopy, CopyFails, RemoveSource,
        RemoveSourceFails
  <1>1. CASE Rename(p)
    <2>1. /\ \A n \in Names : n # op[p].dst \/ ~ToTrash(p) => holds'[n] \subseteq holds[n]
          /\ holds'[op[p].src] = {} /\ Noted(p) /\ UNCHANGED info
      BY <1>0, <1>1, Ends DEF Rename
    <2>2. Traced' /\ Labelled'
      BY <1>0, <2>1, NotedTraces
    <2>3. \/ op'[p] = Idle
          \/ op'[p].at = "moved" /\ op'[p].src = op[p].src
      BY <1>0, <1>1, Turned DEF Rename, Moved
    <2>4. Noting(p)'
      BY <2>1, <2>3 DEF Noting, Idle, Moving
    <2> QED
      BY <2>2, <2>4
  <1>2. CASE FinishCopy(p)
    <2>1. /\ \A n \in Names : n # op[p].dst \/ ~ToTrash(p) => holds'[n] \subseteq holds[n]
          /\ Noted(p) /\ UNCHANGED info
      BY <1>0, <1>2, Ends DEF FinishCopy
    <2>2. Traced' /\ Labelled'
      BY <1>0, <2>1, NotedTraces
    <2>3. op'[p].at = "copied" /\ op'[p].src = op[p].src /\ op'[p].dst = op[p].dst
      BY <1>0, <1>2, Turned DEF FinishCopy
    <2>4. Noting(p)'
      BY <1>0, <2>1, <2>3 DEF Noting, Moving, ToTrash
    <2> QED
      BY <2>2, <2>4
  <1>3. CASE RemoveSource(p)
    <2>1. /\ \A n \in Names : holds'[n] \subseteq holds[n]
          /\ holds'[op[p].src] = {} /\ UNCHANGED <<info, origin, orphaned>>
      BY <1>0, <1>3, Ends DEF RemoveSource
    <2>2. Traced' /\ Labelled'
      BY <2>1 DEF RInv, Traced, Labelled
    <2>3. \/ op'[p] = Idle
          \/ op'[p].at = "moved" /\ op'[p].src = op[p].src
      BY <1>0, <1>3, Turned DEF RemoveSource, Moved
    <2>4. Noting(p)'
      BY <2>1, <2>3 DEF Noting, Idle, Moving
    <2> QED
      BY <2>2, <2>4
  <1>4. CASE MoveRefused(p) \/ CopyFails(p) \/ RemoveSourceFails(p)
    <2>1. \A n \in Names : holds'[n] \subseteq holds[n]
      BY <1>0, <1>4, Ends DEF MoveRefused, CopyFails, RemoveSourceFails, Spoil, slotVars
    <2>2. Raise(p) /\ UNCHANGED origin
      BY <1>4 DEF MoveRefused, CopyFails, RemoveSourceFails
    <2> QED
      BY <1>0, <2>1, <2>2, RaiseTraces
  <1> QED
    BY <1>1, <1>2, <1>3, <1>4

(* The info file goes after the payload has been restored, or by             *)
(* empty_trash, which leaves what is beside it orphaned.                     *)
LEMMA RInvUnlink ==
    ASSUME RInv, NEW p \in Procs,
           UnlinkInfo(p) \/ \E n \in Names :
               PurgeFile(p, n) \/ PurgeFileFails(p, n) \/ PurgeInfo(p, n)
    PROVE  Traced' /\ Labelled' /\ Noting(p)'
  <1>0. /\ TInv /\ Noting(p) /\ op \in [Procs -> Doings] /\ holds \in [Slots -> SUBSET Objects]
        /\ info \in [Names -> Places \cup {None, Blank}] /\ Names \subseteq Slots
    BY OpSound, Apartness DEF RInv, TInv, TypeOK
  <1>1. CASE UnlinkInfo(p)
    <2>1. holds[op[p].src] = {}
      BY <1>0, <1>1 DEF UnlinkInfo, Noting
    <2>2. \A n \in Names : n = op[p].src \/ info'[n] = info[n]
      BY <1>0, <1>1 DEF UnlinkInfo
    <2>3. UNCHANGED <<holds, origin, orphaned>>
      BY <1>1 DEF UnlinkInfo, slotVars
    <2>4. Traced' /\ Labelled'
      BY <2>1, <2>2, <2>3 DEF RInv, Traced, Labelled
    <2>5. op'[p] = Idle
      BY <1>0, <1>1, Turned DEF UnlinkInfo
    <2> QED
      BY <2>4, <2>5 DEF Noting, Idle, Moving
  <1>2. ASSUME NEW n \in Names, PurgeFile(p, n) \/ PurgeFileFails(p, n)
        PROVE  Traced' /\ Labelled' /\ Noting(p)'
    <2>1. \A m \in Names : holds'[m] \subseteq holds[m]
      BY <1>0, <1>2 DEF PurgeFile, PurgeFileFails, Spoil, slotVars
    <2>2. UNCHANGED <<info, origin, orphaned>>
      BY <1>2 DEF PurgeFile, PurgeFileFails
    <2>3. Traced' /\ Labelled'
      BY <2>1, <2>2 DEF RInv, Traced, Labelled
    <2>4. op'[p].at = "files"
      BY <1>0, <1>2 DEF PurgeFile, PurgeFileFails, Purging, Doings
    <2> QED
      BY <2>3, <2>4 DEF Noting, Moving
  <1>3. ASSUME NEW n \in Names, PurgeInfo(p, n)
        PROVE  Traced' /\ Labelled' /\ Noting(p)'
    <2>1. UNCHANGED <<holds, origin>>
      BY <1>3 DEF PurgeInfo, slotVars
    <2>2. \A m \in Names : holds[m] # {} /\ m \notin orphaned' =>
              m \notin orphaned /\ info'[m] = info[m]
      BY <1>0, <1>3 DEF PurgeInfo, Occupied
    <2>3. Traced' /\ Labelled'
      BY <2>1, <2>2 DEF RInv, Traced, Labelled
    <2>4. op'[p].at = "infos"
      BY <1>0, <1>3 DEF PurgeInfo, Purging, Doings
    <2> QED
      BY <2>3, <2>4 DEF Noting, Moving
  <1> QED
    BY <1>1, <1>2, <1>3

(* Every step of the one process at work, and of the user between commands.  *)
LEMMA RInvNext == RInv /\ OneAtATime /\ OneAtATime' /\ [Next]_vars => RInv'
  <1> SUFFICES ASSUME RInv, OneAtATime, OneAtATime', [Next]_vars PROVE RInv'
    OBVIOUS
  <1>0. TInv'
    BY TInvNext DEF RInv
  <1>1. ASSUME NEW p \in Procs, Step(p) PROVE RInv'
    <2>1. Traced' /\ Labelled' /\ Noting(p)'
      BY <1>1, RInvQuiet, RInvInfo, RInvMove, RInvUnlink DEF Step
    <2> QED
      BY <1>1, <2>1, RInvOthers
  <1>2. ASSUME NEW o \in Objects, NEW x \in Places, Create(o, x) PROVE RInv'
    <2>1. UNCHANGED <<info, op, origin, orphaned>> /\ \A n \in Names : holds'[n] = holds[n]
      BY <1>2, Apartness DEF Create, RInv, TInv, TypeOK
    <2>2. Traced' /\ Labelled'
      BY <2>1 DEF RInv, Traced, Labelled
    <2>3. \A p \in Procs : Noting(p)'
      BY <1>2, <2>1 DEF Create, Noting, Idle, Moving
    <2> QED
      BY <1>0, <2>2, <2>3 DEF RInv
  <1>3. CASE UNCHANGED vars
    <2>1. UNCHANGED <<holds, info, op, origin, orphaned>>
      BY <1>3 DEF vars, slotVars
    <2>2. Traced' /\ Labelled'
      BY <2>1 DEF RInv, Traced, Labelled
    <2>3. \A p \in Procs : Noting(p)'
      BY <2>1 DEF RInv, Noting, ToTrash
    <2> QED
      BY <1>0, <2>2, <2>3 DEF RInv
  <1> QED
    BY <1>1, <1>2, <1>3 DEF Next

(* Whatever calls fail and wherever a process dies, as long as one is at     *)
(* work at a time: a payload in the trash has an info file written for the   *)
(* place it came from, and restore leads back to that place if its path is   *)
(* legible, unless that file was unlinked beside the payload.                *)
THEOREM Recovery == Spec /\ []OneAtATime => []Recoverable
  <1>1. RInv => Recoverable
    <2> SUFFICES ASSUME RInv, NEW n \in Names, holds[n] # {}, n \notin orphaned
                 PROVE  /\ info[n] = origin[n]
                        /\ origin[n] \in Legible => Goal(n, None) = origin[n]
      BY DEF Recoverable
    <2>1. info[n] = origin[n]
      BY DEF RInv, Labelled
    <2> QED
      BY <2>1 DEF Legible, Goal
  <1> QED
    BY <1>1, RInvInit, RInvNext, PTL DEF Spec

-----------------------------------------------------------------------------
(* When nothing has failed, files and info correspond.                       *)

(* An empty trash is tidy. *)
LEMMA BInvInit == Init => BInv
  <1> SUFFICES ASSUME Init PROVE BInv
    OBVIOUS
  <1>1. Tidy
    BY Apartness DEF Init, Tidy, Occupied
  <1>2. \A p \in Procs : Level(p)
    BY DEF Init, Level, Idle
  <1> QED
    BY <1>1, <1>2, RInvInit DEF BInv

(* A step that fails is one too many for Tidy to say anything. *)
LEMMA Failed ==
    ASSUME TInv, Mishap PROVE mishaps' # Mishaps
  BY MishapType DEF TInv, TypeOK, Stored

(* What the process at work has to keep. *)
LEMMA BInvOthers ==
    ASSUME BInv, OneAtATime, OneAtATime', NEW p \in Procs, Step(p),
           mishaps' = Mishaps =>
               Level(p)' /\ (op'[p] = Idle => \A n \in Names : Clean(n)')
    PROVE  BInv'
  <1>1. RInv'
    BY RInvNext DEF BInv, Next
  <1>2. Tidy'
    BY DEF Tidy, Clean
  <1>3. ASSUME NEW q \in Procs, q # p PROVE Level(q)'
    <2>1. op'[q] = Idle
      BY <1>3, Others DEF BInv, RInv
    <2> QED
      BY <2>1 DEF Level, Idle
  <1> QED
    BY <1>1, <1>2, <1>3 DEF BInv

(* What is known while nothing has failed. *)
LEMMA Untroubled ==
    ASSUME BInv, OneAtATime, OneAtATime', NEW p \in Procs, Step(p), mishaps' = Mishaps
    PROVE  /\ ~Mishap /\ Level(p) /\ Noting(p)
           /\ op[p] = Idle => \A n \in Names : Clean(n)
  <1>1. UNCHANGED mishaps \/ Mishap
    BY DEF Step, Named, WriteInfo, WriteInfoFails, Rename, MoveRefused, StartCopy, FinishCopy,
           CopyFails, RemoveSource, RemoveSourceFails, Aim, CheckGoal, UnlinkInfo, Empty,
           FilesPurged, Emptied, PurgeFile, PurgeFileFails, PurgeInfo, Crash
  <1>2. ~Mishap
    BY Failed DEF BInv, RInv
  <1>3. mishaps = Mishaps
    BY <1>1, <1>2
  <1>4. op[p] = Idle => \A q \in Procs : op[q] = Idle
    BY Others DEF BInv, RInv
  <1> QED
    BY <1>2, <1>3, <1>4 DEF BInv, RInv, Tidy, Clean

(* Slots that a step leaves alone are as full as they were.                  *)
LEMMA Unmoved ==
    ASSUME NEW n \in Names,
           holds'[n] = holds[n], n \in partial' <=> n \in partial, info'[n] = info[n]
    PROVE  Clean(n)' = Clean(n) /\ Occupied(n)' = Occupied(n)
  BY DEF Clean, Occupied

(* What a process has to keep in view, once nothing has failed.              *)
Kept(p) == Level(p)' /\ (op'[p] = Idle => \A n \in Names : Clean(n)')

(* Choosing a name or a destination. *)
LEMMA BInvChoose ==
    ASSUME BInv, OneAtATime, OneAtATime', NEW p \in Procs, Step(p), mishaps' = Mishaps,
           \/ \E x \in Places : Named(p, x)
           \/ \E n \in Names : \E given \in Places \cup {None} : Aim(p, n, given)
           \/ CheckGoal(p) \/ WriteInfo(p) \/ StartCopy(p) \/ Crash(p) \/ WriteInfoFails(p)
    PROVE  Kept(p)
  <1>0. /\ TInv /\ ~Mishap /\ Level(p) /\ Noting(p)
        /\ op[p] = Idle => \A n \in Names : Clean(n)
        /\ op \in [Procs -> Doings] /\ op[p] \in Doings
        /\ info \in [Names -> Places \cup {None, Blank}]
    BY Untroubled, OpSound DEF BInv, RInv, TInv, TypeOK
  <1>a. PICK s, d : s = op[p].src /\ d = op[p].dst
    OBVIOUS
  <1>1. ASSUME NEW x \in Places, Named(p, x) PROVE Kept(p)
    <2>1. op[p] = Idle /\ Occupied(x)
      BY <1>1, <1>0 DEF Named, TInv, OneWay
    <2>2. UNCHANGED <<holds, partial, info>> /\ op'[p].at = "named" /\ op'[p].src = x
      BY <1>0, <1>1 DEF Named, Idle, slotVars
    <2>3. Occupied(x)' /\ \A n \in Names : Clean(n)'
      BY <1>0, <2>1, <2>2 DEF Clean, Occupied
    <2> QED
      BY <2>2, <2>3 DEF Kept, Level, Idle
  <1>2. ASSUME NEW n \in Names, NEW given \in Places \cup {None}, Aim(p, n, given)
        PROVE  Kept(p)
    <2>1. op[p] = Idle /\ Occupied(n)
      BY <1>2, <1>0 DEF Aim, TInv, OneWay
    <2>2. UNCHANGED <<holds, partial, info>> /\ op'[p].at = "aimed" /\ op'[p].src = n
      BY <1>0, <1>2 DEF Aim, Idle, slotVars
    <2>3. Occupied(n)' /\ \A m \in Names : Clean(m)'
      BY <1>0, <2>1, <2>2 DEF Clean, Occupied
    <2> QED
      BY <2>2, <2>3 DEF Kept, Level, Idle
  <1>3. CASE CheckGoal(p)
    <2>1. UNCHANGED <<holds, partial, info>> /\ op[p].at = "aimed"
      BY <1>3 DEF CheckGoal, slotVars
    <2>2. Occupied(s) /\ (\A n \in Names : Clean(n)) /\ ~ToTrash(p)
      BY <1>a, <1>0, <2>1, Apartness DEF Level, TInv, OneWay, Outward, ToTrash
    <2>3. Occupied(s)' /\ (\A n \in Names : Clean(n)') /\ s \notin Places
      BY <1>a, <2>1, <2>2 DEF Occupied, Clean, ToTrash
    <2>4. op'[p] = Idle \/ (op'[p].at = "moving" /\ op'[p].src = s)
      BY <1>a, <1>0, <1>3, Turned DEF CheckGoal
    <2> QED
      BY <2>1, <2>3, <2>4 DEF Kept, Level, Idle, ToTrash
  <1>4. CASE WriteInfo(p)
    <2>1. UNCHANGED <<holds, partial>> /\ op[p].at = "named" /\ info' = [info EXCEPT ![d] = s]
      BY <1>a, <1>4 DEF WriteInfo, slotVars
    <2>2. d \in Names /\ info[d] = None
      BY <1>a, <1>0, <2>1 DEF Noting, TInv, OneWay, Inward
    <2>3. Occupied(s) /\ (\A n \in Names : Clean(n)) /\ ~Occupied(d)
      BY <1>a, <1>0, <2>1, <2>2 DEF Level, Clean
    <2>4. \A n \in Names \ {d} : Clean(n)'
      <3> SUFFICES ASSUME NEW n \in Names \ {d} PROVE Clean(n)'
        OBVIOUS
      <3>1. info'[n] = info[n]
        BY <1>a, <1>0, <2>1
      <3> QED
        BY <2>1, <2>3, <3>1, Unmoved
    <2>5. Occupied(s)' /\ ~Occupied(d)'
      BY <2>1, <2>3 DEF Occupied
    <2>6. op'[p].at = "moving" /\ op'[p].src = s /\ op'[p].dst = d
      BY <1>a, <1>0, <1>4, Turned DEF WriteInfo
    <2> QED
      BY <2>4, <2>5, <2>6 DEF Kept, Level, Idle
  <1>5. CASE StartCopy(p)
    <2>1. /\ UNCHANGED <<holds, info>> /\ op[p].at = "moving"
          /\ partial' = partial \cup {t \in {d} : ~IsDir(t)}
      BY <1>a, <1>5 DEF StartCopy
    <2>2. Occupied(s) /\ \A n \in Names \ {d} : Clean(n)
      BY <1>a, <1>0, <2>1 DEF Level
    <2>3. \A n \in Names \ {d} : Clean(n)'
      BY <2>1, <2>2, Unmoved
    <2>4. Occupied(s)'
      BY <2>1, <2>2 DEF Occupied
    <2>5. op'[p].at = "copying" /\ op'[p].src = s /\ op'[p].dst = d
      BY <1>a, <1>0, <1>5, Turned DEF StartCopy
    <2> QED
      BY <2>3, <2>4, <2>5 DEF Kept, Level, Idle
  <1>6. ~Crash(p) /\ ~WriteInfoFails(p)
    BY <1>a, <1>0 DEF Crash, WriteInfoFails
  <1> QED
    BY <1>1, <1>2, <1>3, <1>4, <1>5, <1>6

(* The move itself. *)
LEMMA BInvMove ==
    ASSUME BInv, OneAtATime, OneAtATime', NEW p \in Procs, Step(p), mishaps' = Mishaps,
           \/ Rename(p) \/ MoveRefused(p) \/ FinishCopy(p) \/ CopyFails(p)
           \/ RemoveSource(p) \/ RemoveSourceFails(p)
    PROVE  Kept(p)
  <1>0. /\ TInv /\ ~Mishap /\ Level(p) /\ Noting(p) /\ op[p].at \in Moving
        /\ info \in [Names -> Places \cup {None, Blank}]
        /\ holds \in [Slots -> SUBSET Objects] /\ Names \subseteq Slots
    BY Untroubled, Apartness
    DEF BInv, RInv, TInv, TypeOK, Moving, Rename, MoveRefused, FinishCopy, CopyFails,
        RemoveSource, RemoveSourceFails
  <1>a. PICK s, d : s = op[p].src /\ d = op[p].dst
    OBVIOUS
  <1>b. /\ s \in Slots /\ d \in Slots /\ s # d
        /\ ToTrash(p) => s \notin Names /\ d \in Names /\ info[d] # None
        /\ ~ToTrash(p) => s \in Names /\ d \notin Names
    <2>1. ToTrash(p) => info[d] = s /\ s # None
      BY <1>0, <1>a, Ends, Apartness DEF Noting, ToTrash
    <2> QED
      BY <1>0, <1>a, <2>1, Ends
  <1>c. /\ op[p].at \in {"moving", "copying"} =>
               Occupied(s) /\ \A n \in Names \ {d} : Clean(n)
        /\ op[p].at = "moving" /\ ToTrash(p) => ~Occupied(d)
        /\ op[p].at = "copied" => \A n \in Names : Clean(n)
    BY <1>0, <1>a DEF Level
  <1>1. CASE Rename(p)
    <2>1. /\ UNCHANGED info /\ op[p].at = "moving"
          /\ holds' = [holds EXCEPT ![s] = {}, ![d] = Joined(d, s)]
          /\ partial' = Marked(d, s) \ {s}
      BY <1>1, <1>a DEF Rename
    <2>2. ~Occupied(s)'
      BY <1>0, <1>b, <2>1 DEF Occupied
    <2>3. ASSUME NEW n \in Names \ {s, d} PROVE Clean(n)'
      <3>1. holds'[n] = holds[n] /\ (n \in partial' <=> n \in partial)
        BY <1>0, <2>1 DEF Marked
      <3> QED
        BY <1>c, <2>1, <3>1, Unmoved
    <2>4. ToTrash(p) => Clean(d)'
      <3> SUFFICES ASSUME ToTrash(p) PROVE Occupied(d)' /\ info'[d] # None
        BY DEF Clean
      <3>1. holds'[d] = holds[s] /\ (s \in partial => d \in partial')
        BY <1>0, <1>b, <1>c, <2>1 DEF Joined, Marked, IsDir, Occupied
      <3> QED
        BY <1>b, <1>c, <2>1, <3>1 DEF Occupied
    <2>5. CASE ToTrash(p)
      <3>1. op'[p] = Idle
        BY <1>0, <1>1, <2>5, Turned DEF Rename, Moved
      <3>2. \A n \in Names : Clean(n)'
        BY <1>b, <2>3, <2>4, <2>5
      <3> QED
        BY <3>1, <3>2 DEF Kept, Level, Idle
    <2>6. CASE ~ToTrash(p)
      <3>1. op'[p].at = "moved" /\ op'[p].src = s
        BY <1>0, <1>1, <1>a, <2>6, Turned DEF Rename, Moved
      <3>2. \A n \in Names \ {s} : Clean(n)'
        BY <1>b, <2>3, <2>6
      <3> QED
        BY <2>2, <3>1, <3>2 DEF Kept, Level, Idle
    <2> QED
      BY <2>5, <2>6
  <1>2. CASE MoveRefused(p)
    <2>1. UNCHANGED <<holds, partial>> /\ op[p].at = "moving" /\ Raise(p)
      BY <1>2 DEF MoveRefused, slotVars
    <2>2. op'[p] = Idle
      BY <1>0, <2>1, Turned DEF Raise
    <2>3. ASSUME NEW n \in Names, n # d \/ ~ToTrash(p) PROVE Clean(n)'
      <3>1. info'[n] = info[n]
        BY <1>0, <1>a, <2>1, <2>3 DEF Raise, Name
      <3> QED
        BY <1>b, <1>c, <2>1, <2>3, <3>1, Unmoved
    <2>4. ToTrash(p) => Clean(d)'
      <3> SUFFICES ASSUME ToTrash(p) PROVE ~Occupied(d)' /\ info'[d] = None
        BY DEF Clean
      <3>1. info'[d] = None
        BY <1>0, <1>a, <1>b, <2>1 DEF Raise, Name
      <3> QED
        BY <1>c, <2>1, <3>1 DEF Occupied
    <2> QED
      BY <1>b, <2>2, <2>3, <2>4 DEF Kept, Level, Idle
  <1>3. CASE FinishCopy(p)
    <2>1. /\ UNCHANGED info /\ op[p].at = "copying"
          /\ holds' = [holds EXCEPT ![d] = Joined(d, s)]
          /\ partial' = Marked(d, s)
      BY <1>3, <1>a DEF FinishCopy
    <2>2. ASSUME NEW n \in Names \ {d} PROVE Clean(n)'
      <3>1. holds'[n] = holds[n] /\ (n \in partial' <=> n \in partial)
        BY <1>0, <2>1 DEF Marked
      <3> QED
        BY <1>c, <2>1, <3>1, Unmoved
    <2>3. ToTrash(p) => Clean(d)'
      <3> SUFFICES ASSUME ToTrash(p) PROVE Occupied(d)' /\ info'[d] # None
        BY DEF Clean
      <3>1. holds[s] \subseteq holds'[d] /\ (s \in partial => d \in partial')
        BY <1>0, <1>b, <2>1 DEF Joined, Marked
      <3> QED
        BY <1>b, <1>c, <2>1, <3>1 DEF Occupied
    <2>4. op'[p].at = "copied"
      BY <1>0, <1>3, Turned DEF FinishCopy
    <2> QED
      BY <1>b, <2>2, <2>3, <2>4 DEF Kept, Level, Idle
  <1>4. CASE RemoveSource(p)
    <2>1. /\ UNCHANGED info /\ op[p].at = "copied"
          /\ holds' = [holds EXCEPT ![s] = {}] /\ partial' = partial \ {s}
      BY <1>4, <1>a DEF RemoveSource
    <2>2. ~Occupied(s)'
      BY <1>0, <1>b, <2>1 DEF Occupied
    <2>3. ASSUME NEW n \in Names \ {s} PROVE Clean(n)'
      <3>1. holds'[n] = holds[n] /\ (n \in partial' <=> n \in partial)
        BY <1>0, <2>1
      <3> QED
        BY <1>c, <2>1, <3>1, Unmoved
    <2>4. CASE ToTrash(p)
      <3>1. op'[p] = Idle
        BY <1>0, <1>4, <2>4, Turned DEF RemoveSource, Moved
      <3> QED
        BY <1>b, <2>3, <2>4, <3>1 DEF Kept, Level, Idle
    <2>5. CASE ~ToTrash(p)
      <3>1. op'[p].at = "moved" /\ op'[p].src = s
        BY <1>0, <1>4, <1>a, <2>5, Turned DEF RemoveSource, Moved
      <3> QED
        BY <2>2, <2>3, <3>1 DEF Kept, Level, Idle
    <2> QED
      BY <2>4, <2>5
  <1>5. ~CopyFails(p) /\ ~RemoveSourceFails(p)
    BY <1>0, <1>a, <1>c DEF CopyFails, RemoveSourceFails
  <1> QED
    BY <1>1, <1>2, <1>3, <1>4, <1>5

(* What a restore leaves behind, and the purge of files and info files.      *)
LEMMA BInvPurge ==
    ASSUME BInv, OneAtATime, OneAtATime', NEW p \in Procs, Step(p), mishaps' = Mishaps,
           \/ UnlinkInfo(p) \/ Empty(p) \/ FilesPurged(p) \/ Emptied(p)
           \/ \E n \in Names : PurgeFile(p, n) \/ PurgeFileFails(p, n) \/ PurgeInfo(p, n)
    PROVE  Kept(p)
  <1>0. /\ TInv /\ ~Mishap /\ Level(p)
        /\ op[p] = Idle => \A n \in Names : Clean(n)
        /\ op \in [Procs -> Doings] /\ op[p] \in Doings
        /\ info \in [Names -> Places \cup {None, Blank}]
        /\ holds \in [Slots -> SUBSET Objects] /\ Names \subseteq Slots
    BY Untroubled, OpSound, Apartness DEF BInv, RInv, TInv, TypeOK
  <1>1. CASE UnlinkInfo(p)
    <2> PICK s : s = op[p].src
      OBVIOUS
    <2>1. /\ UNCHANGED <<holds, partial>> /\ info' = [info EXCEPT ![s] = None]
          /\ op[p].at = "moved" /\ op'[p] = Idle
      BY <1>0, <1>1, Turned DEF UnlinkInfo, slotVars
    <2>2. s \in Names /\ ~Occupied(s) /\ \A n \in Names \ {s} : Clean(n)
      BY <1>0, <2>1 DEF Level, TInv, OneWay, Outward
    <2>3. ASSUME NEW n \in Names PROVE Clean(n)'
      BY <1>0, <2>1, <2>2 DEF Clean, Occupied
    <2> QED
      BY <2>1, <2>3 DEF Kept, Level, Idle
  <1>2. CASE Empty(p)
    <2>1. /\ UNCHANGED <<holds, partial>> /\ op'[p].at = "files"
          /\ op'[p].left = {n \in Names : Occupied(n)}
      BY <1>0, <1>2 DEF Empty, Idle, slotVars
    <2>2. \A n \in Names : Occupied(n)' = Occupied(n)
      BY <2>1 DEF Occupied
    <2> QED
      BY <2>1, <2>2 DEF Kept, Level, Idle
  <1>3. CASE FilesPurged(p)
    <2>1. /\ UNCHANGED <<holds, partial, info>> /\ op[p].at = "files" /\ op[p].left = {}
          /\ op'[p].at = "infos" /\ op'[p].left = {n \in Names : info[n] # None}
      BY <1>0, <1>3 DEF FilesPurged, Doings, slotVars
    <2>2. \A n \in Names : ~Occupied(n)
      BY <1>0, <2>1 DEF Level
    <2>3. \A n \in Names : ~Occupied(n)'
      BY <2>1, <2>2 DEF Occupied
    <2> QED
      BY <2>1, <2>3 DEF Kept, Level, Idle
  <1>4. CASE Emptied(p)
    <2>1. /\ UNCHANGED <<holds, partial, info>> /\ op[p].at = "infos" /\ op[p].left = {}
          /\ op'[p] = Idle
      BY <1>0, <1>4, Turned DEF Emptied, slotVars
    <2>2. \A n \in Names : Clean(n)
      BY <1>0, <2>1 DEF Level, Clean
    <2>3. \A n \in Names : Clean(n)'
      BY <2>1, <2>2 DEF Clean, Occupied
    <2> QED
      BY <2>1, <2>3 DEF Kept, Level, Idle
  <1>5. ASSUME NEW n \in Names, PurgeFile(p, n) PROVE Kept(p)
    <2>1. /\ op[p].at = "files" /\ op'[p].at = "files" /\ op'[p].left = op[p].left \ {n}
          /\ holds' = [holds EXCEPT ![n] = {}] /\ partial' = partial \ {n}
      BY <1>0, <1>5 DEF PurgeFile, Purging, Doings
    <2>2. \A m \in Names : Occupied(m)' <=> m # n /\ Occupied(m)
      BY <1>0, <2>1 DEF Occupied
    <2>3. \A m \in Names : Occupied(m)' <=> m \in op'[p].left
      BY <1>0, <2>1, <2>2 DEF Level
    <2> QED
      BY <2>1, <2>3 DEF Kept, Level, Idle
  <1>6. ASSUME NEW n \in Names, PurgeInfo(p, n) PROVE Kept(p)
    <2>1. /\ op[p].at = "infos" /\ op'[p].at = "infos" /\ op'[p].left = op[p].left \ {n}
          /\ UNCHANGED <<holds, partial>> /\ info' = [info EXCEPT ![n] = None]
      BY <1>0, <1>6 DEF PurgeInfo, Purging, Doings, slotVars
    <2>2. \A m \in Names : ~Occupied(m)' /\ (info'[m] # None <=> m \in op'[p].left)
      BY <1>0, <2>1 DEF Occupied, Level
    <2> QED
      BY <2>1, <2>2 DEF Kept, Level, Idle
  <1>7. \A n \in Names : ~PurgeFileFails(p, n)
    BY <1>0 DEF PurgeFileFails
  <1> QED
    BY <1>1, <1>2, <1>3, <1>4, <1>5, <1>6, <1>7

(* Every step of the one process at work, and of the user between commands.  *)
LEMMA BInvNext == BInv /\ OneAtATime /\ OneAtATime' /\ [Next]_vars => BInv'
  <1> SUFFICES ASSUME BInv, OneAtATime, OneAtATime', [Next]_vars PROVE BInv'
    OBVIOUS
  <1>0. RInv'
    BY RInvNext DEF BInv
  <1>1. ASSUME NEW p \in Procs, Step(p) PROVE BInv'
    <2>1. mishaps' = Mishaps => Kept(p)
      BY <1>1, BInvChoose, BInvMove, BInvPurge DEF Step
    <2> QED
      BY <1>1, <2>1, BInvOthers DEF Kept
  <1>2. ASSUME NEW o \in Objects, NEW x \in Places, Create(o, x) PROVE BInv'
    <2>1. /\ UNCHANGED <<partial, info, op, mishaps>> /\ \A p \in Procs : op[p] = Idle
          /\ \A n \in Names : holds'[n] = holds[n]
      BY <1>2, Apartness DEF Create, BInv, RInv, TInv, TypeOK
    <2>2. Tidy'
      BY <2>1 DEF BInv, Tidy, Occupied
    <2>3. \A p \in Procs : Level(p)'
      BY <2>1 DEF Level, Idle
    <2> QED
      BY <1>0, <2>2, <2>3 DEF BInv
  <1>3. CASE UNCHANGED vars
    <2>1. UNCHANGED <<holds, partial, info, op, mishaps>>
      BY <1>3 DEF vars, slotVars
    <2>2. Tidy'
      BY <2>1 DEF BInv, Tidy, Occupied
    <2>3. mishaps' = Mishaps => \A p \in Procs : Level(p)'
      BY <2>1 DEF BInv, Level, Clean, Occupied, ToTrash
    <2> QED
      BY <1>0, <2>2, <2>3 DEF BInv
  <1> QED
    BY <1>1, <1>2, <1>3 DEF Next

(* As long as one process is at work at a time and no call of it fails,      *)
(* every payload has an info file and every info file a payload whenever     *)
(* nobody is at work.                                                        *)
THEOREM Tidiness == Spec /\ []OneAtATime => []Tidy
  <1>1. BInv => Tidy
    BY DEF BInv
  <1> QED
    BY <1>1, BInvInit, BInvNext, PTL DEF Spec

-----------------------------------------------------------------------------
(* The promise of TrashBin.                                                  *)

(* Each object the user has created is in one place and nowhere else.        *)
LEMMA PInvInit == Init => PInv /\ Bin!Init
  <1> SUFFICES ASSUME Init PROVE PInv /\ Bin!Init
    OBVIOUS
  <1>1. Single /\ Unborn
    BY DEF Init, Single, Unborn
  <1>2. \A p \in Procs : Unseen(p)
    BY DEF Init, Unseen, Idle
  <1>3. ASSUME NEW o \in Objects PROVE Where(o) \in {"absent", "home"}
    BY Apartness DEF Init, Where, Slots
  <1>4. Bin!Init
    <2>1. Emptying = FALSE
      BY DEF Init, Emptying, Idle
    <2> QED
      BY <1>3, <2>1 DEF Bin!Init
  <1> QED
    BY <1>1, <1>2, <1>4, TInvInit DEF PInv

(* The steps of TrashBin while nobody begins or ends to empty the trash, for *)
(* one object and for one that takes the place of a link to nothing.         *)
BinStep == Bin!Carry \/ UNCHANGED [o \in Objects |-> Where(o)]

(* One object moves. *)
LEMMA OneMoves ==
    ASSUME NEW o \in Objects, \A r \in Objects \ {o} : Where(r)' = Where(r),
           \/ Where(o)' = Where(o)
           \/ Where(o) = "absent" /\ Where(o)' = "home"
           \/ Where(o) = "home" /\ Where(o)' = "trash"
           \/ Where(o) = "trash" /\ Where(o)' = "home"
           \/ Where(o) = "trash" /\ Where(o)' = "gone" /\ Emptying
           \/ o \in Dangling /\ Where(o) \in {"home", "trash"} /\ Where(o)' = "gone"
    PROVE  BinStep
  <1> DEFINE W == [r \in Objects |-> Where(r)]
  <1>1. ASSUME NEW to, Where(o)' = to PROVE W' = [W EXCEPT ![o] = to]
    BY <1>1
  <1>2. W[o] = Where(o)
    OBVIOUS
  <1>3. CASE Where(o)' = Where(o)
    <2>1. W' = W
      BY <1>3
    <2> QED
      BY <2>1 DEF BinStep
  <1>4. CASE Where(o) = "absent" /\ Where(o)' = "home"
    BY <1>1, <1>2, <1>4 DEF BinStep, Bin!Carry, Bin!Create, Bin!Move
  <1>5. CASE Where(o) = "home" /\ Where(o)' = "trash"
    BY <1>1, <1>2, <1>5 DEF BinStep, Bin!Carry, Bin!Trash, Bin!Move
  <1>6. CASE Where(o) = "trash" /\ Where(o)' = "home"
    BY <1>1, <1>2, <1>6 DEF BinStep, Bin!Carry, Bin!Restore, Bin!Move
  <1>7. CASE Where(o) = "trash" /\ Where(o)' = "gone" /\ Emptying
    BY <1>1, <1>2, <1>7 DEF BinStep, Bin!Carry, Bin!Purge, Bin!Move
  <1>8. CASE o \in Dangling /\ Where(o) \in {"home", "trash"} /\ Where(o)' = "gone"
    BY <1>1, <1>2, <1>8 DEF BinStep, Bin!Carry, Bin!Lose, Bin!Move
  <1> QED
    BY <1>3, <1>4, <1>5, <1>6, <1>7, <1>8

(* One object takes the place of a link to nothing. *)
LEMMA OneReplaces ==
    ASSUME NEW o \in Objects, NEW r \in Objects, o # r, r \in Dangling,
           \A q \in Objects \ {o, r} : Where(q)' = Where(q),
           {Where(o), Where(r)} = {"home", "trash"},
           Where(o)' = Where(r), Where(r)' \in {"gone", Where(o)}
    PROVE  BinStep
  <1> DEFINE W == [q \in Objects |-> Where(q)]
  <1>1. W[o] = Where(o) /\ W[r] = Where(r)
    OBVIOUS
  <1>2. W' = [W EXCEPT ![o] = W[r], ![r] = Where(r)']
    BY <1>1
  <1>3. Bin!Replace(o, r)
    BY <1>1, <1>2 DEF Bin!Replace
  <1> QED
    BY <1>3 DEF BinStep, Bin!Carry

AtHome(o)  == \E x \in Places : o \in holds[x]
InTrash(o) == \E n \in Names : o \in holds[n]

(* Where an object is, when the user creates nothing. *)
LEMMA Whereabouts ==
    ASSUME PInv, UNCHANGED fresh, NEW o \in Objects
    PROVE  /\ AtHome(o) \/ InTrash(o) => o \notin fresh
           /\ AtHome(o) => Where(o) = "home"
           /\ InTrash(o) /\ ~AtHome(o) => Where(o) = "trash"
           /\ o \notin fresh /\ AtHome(o)' => Where(o)' = "home"
           /\ o \notin fresh /\ InTrash(o)' /\ ~AtHome(o)' => Where(o)' = "trash"
           /\ o \notin fresh /\ ~InTrash(o)' /\ ~AtHome(o)' => Where(o)' = "gone"
           /\ AtHome(o)' = AtHome(o) /\ InTrash(o)' = InTrash(o) => Where(o)' = Where(o)
  <1>1. AtHome(o) \/ InTrash(o) => o \notin fresh
    BY Apartness DEF PInv, Unborn, AtHome, InTrash
  <1>2. Where(o) = IF o \in fresh THEN "absent" ELSE IF AtHome(o) THEN "home"
                   ELSE IF InTrash(o) THEN "trash" ELSE "gone"
    BY DEF Where, AtHome, InTrash
  <1>3. Where(o)' = IF o \in fresh THEN "absent" ELSE IF AtHome(o)' THEN "home"
                    ELSE IF InTrash(o)' THEN "trash" ELSE "gone"
    BY DEF Where, AtHome, InTrash
  <1> QED
    BY <1>1, <1>2, <1>3

(* A slot is emptied: a name that is purged, or what has been copied from.   *)
LEMMA Cleared ==
    ASSUME PInv, UNCHANGED fresh, NEW s \in Slots, holds' = [holds EXCEPT ![s] = {}],
           \/ s \in Names /\ Emptying
           \/ s \in Names /\ \E d \in Places : holds[s] \subseteq holds[d]
           \/ s \in Places /\ \E d \in Names : holds[s] \subseteq holds[d]
    PROVE  BinStep
  <1>0. holds \in [Slots -> SUBSET Objects] /\ \A a, b \in holds[s] : a = b
    BY DEF PInv, TInv, TypeOK, Single
  <1>1. /\ \A t \in Slots : t # s => holds'[t] = holds[t]
        /\ holds'[s] = {}
    BY <1>0
  <1>2. ASSUME NEW r \in Objects, r \notin holds[s] PROVE Where(r)' = Where(r)
    <2>1. AtHome(r)' = AtHome(r)
      BY <1>1, <1>2, Apartness DEF AtHome
    <2>2. InTrash(r)' = InTrash(r)
      BY <1>1, <1>2, Apartness DEF InTrash
    <2> QED
      BY <2>1, <2>2, Whereabouts
  <1>3. CASE holds[s] = {}
    <2>1. [r \in Objects |-> Where(r)]' = [r \in Objects |-> Where(r)]
      BY <1>2, <1>3
    <2> QED
      BY <2>1 DEF BinStep
  <1>4. ASSUME NEW o \in holds[s] PROVE BinStep
    <2>1. o \in Objects /\ \A r \in Objects \ {o} : Where(r)' = Where(r)
      BY <1>0, <1>2
    <2>2. CASE s \in Names
      <3>1. AtHome(o)' = AtHome(o) /\ InTrash(o)
        BY <1>1, <2>2, Apartness DEF AtHome, InTrash
      <3>2. Emptying \/ AtHome(o)
        BY <2>2, Apartness DEF AtHome
      <3>3. \/ Where(o)' = Where(o)
            \/ Where(o) = "trash" /\ Where(o)' = "gone" /\ Emptying
        BY <2>1, <3>1, <3>2, Whereabouts
      <3> QED
        BY <2>1, <3>3, OneMoves
    <2>3. CASE s \notin Names
      <3>1. PICK d \in Names : o \in holds[d]
        BY <2>3
      <3>2. AtHome(o) /\ InTrash(o)'
        BY <1>1, <2>3, <3>1, Apartness DEF AtHome, InTrash, Slots
      <3>3. \/ Where(o)' = Where(o)
            \/ Where(o) = "home" /\ Where(o)' = "trash"
        BY <2>1, <3>2, Whereabouts
      <3> QED
        BY <2>1, <3>3, OneMoves
    <2> QED
      BY <2>2, <2>3
  <1> QED
    BY <1>3, <1>4

(* The content of a slot arrives in another one, where at most a link to     *)
(* nothing stood, by a rename or a copy.                                     *)
LEMMA Arrived ==
    ASSUME PInv, UNCHANGED fresh, NEW s \in Slots, NEW d \in Slots,
           \/ s \in Places /\ d \in Names
           \/ s \in Names /\ d \in Places,
           holds[d] \subseteq Dangling,
           \/ holds' = [holds EXCEPT ![d] = holds[s]]
           \/ holds' = [holds EXCEPT ![s] = {}, ![d] = holds[s]]
    PROVE  BinStep
  <1>0. /\ holds \in [Slots -> SUBSET Objects] /\ s # d
        /\ \A a, b \in holds[s] : a = b
        /\ \A a, b \in holds[d] : a = b
    BY Apartness DEF PInv, TInv, TypeOK, Single
  <1>1. /\ \A t \in Slots \ {s, d} : holds'[t] = holds[t]
        /\ holds'[d] = holds[s] /\ holds'[s] \in {{}, holds[s]}
    BY <1>0
  <1>2. ASSUME NEW r \in Objects, r \notin holds[s] \cup holds[d]
        PROVE  Where(r)' = Where(r)
    <2>1. AtHome(r)' = AtHome(r)
      BY <1>1, <1>2, Apartness DEF AtHome
    <2>2. InTrash(r)' = InTrash(r)
      BY <1>1, <1>2, Apartness DEF InTrash
    <2> QED
      BY <2>1, <2>2, Whereabouts
  <1>3. ASSUME NEW o \in holds[s]
        PROVE  \/ Where(o)' = Where(o)
               \/ Where(o) = "home" /\ Where(o)' = "trash"
               \/ Where(o) = "trash" /\ Where(o)' = "home"
    <2>1. o \in Objects /\ (AtHome(o) \/ InTrash(o)) /\ (AtHome(o)' \/ InTrash(o)')
      BY <1>0, <1>1, Apartness DEF AtHome, InTrash
    <2> QED
      BY <2>1, Whereabouts
  <1>4. ASSUME NEW r \in holds[d], r \notin holds[s]
        PROVE  /\ r \in Dangling /\ r \in Objects
               /\ d \in Names => \/ Where(r)' = Where(r)
                                 \/ Where(r) = "trash" /\ Where(r)' = "gone"
               /\ d \in Places => Where(r) = "home" /\ Where(r)' \in {"home", "trash", "gone"}
    <2>1. r \in Dangling /\ r \in Objects
      BY <1>0
    <2>2. ASSUME d \in Names
          PROVE  \/ Where(r)' = Where(r)
                 \/ Where(r) = "trash" /\ Where(r)' = "gone"
      <3>1. AtHome(r)' = AtHome(r) /\ InTrash(r)
        BY <1>1, <1>4, <2>2, Apartness DEF AtHome, InTrash
      <3> QED
        BY <2>1, <3>1, Whereabouts
    <2>3. ASSUME d \in Places
          PROVE  Where(r) = "home" /\ Where(r)' \in {"home", "trash", "gone"}
      <3>1. AtHome(r)
        BY <2>3 DEF AtHome
      <3> QED
        BY <2>1, <3>1, Whereabouts
    <2> QED
      BY <2>1, <2>2, <2>3
  <1>5. CASE holds[d] \subseteq holds[s]
    <2>1. CASE holds[s] = {}
      <3>1. [r \in Objects |-> Where(r)]' = [r \in Objects |-> Where(r)]
        BY <1>2, <1>5, <2>1
      <3> QED
        BY <3>1 DEF BinStep
    <2>2. ASSUME NEW o \in holds[s] PROVE BinStep
      <3>1. o \in Objects /\ \A r \in Objects \ {o} : Where(r)' = Where(r)
        BY <1>0, <1>2, <1>5
      <3> QED
        BY <1>3, <3>1, OneMoves
    <2> QED
      BY <2>1, <2>2
  <1>6. ASSUME NEW r \in holds[d], r \notin holds[s] PROVE BinStep
    <2>1. CASE holds[s] = {}
      <3>1. \A q \in Objects \ {r} : Where(q)' = Where(q)
        BY <1>0, <1>2, <1>6, <2>1
      <3> QED
        BY <1>4, <1>6, <3>1, OneMoves
    <2>2. ASSUME NEW o \in holds[s] PROVE BinStep
      <3>1. o \in Objects /\ o # r /\ \A q \in Objects \ {o, r} : Where(q)' = Where(q)
        BY <1>0, <1>2, <1>6
      <3>2. CASE d \in Names
        <4>1. Where(o) = "home"
          <5>1. AtHome(o)
            BY <3>2, Apartness DEF AtHome
          <5> QED
            BY <3>1, <5>1, Whereabouts
        <4>2. CASE Where(o)' = Where(o)
          <5>1. \A q \in Objects \ {r} : Where(q)' = Where(q)
            BY <3>1, <4>2
          <5> QED
            BY <1>4, <1>6, <3>2, <5>1, OneMoves
        <4>3. CASE Where(r)' = Where(r)
          <5>1. \A q \in Objects \ {o} : Where(q)' = Where(q)
            BY <3>1, <4>3
          <5> QED
            BY <1>3, <3>1, <5>1, OneMoves
        <4>4. CASE Where(o)' # Where(o) /\ Where(r)' # Where(r)
          <5>1. Where(o)' = "trash" /\ Where(r) = "trash" /\ Where(r)' = "gone"
            BY <1>3, <1>4, <1>6, <3>2, <4>1, <4>4
          <5> QED
            BY <1>4, <1>6, <3>1, <4>1, <5>1, OneReplaces
        <4> QED
          BY <4>2, <4>3, <4>4
      <3>3. CASE d \in Places
        <4>1. Where(o)' = "home"
          <5>1. AtHome(o)' /\ (AtHome(o) \/ InTrash(o))
            BY <1>1, <3>3, Apartness DEF AtHome, InTrash
          <5> QED
            BY <3>1, <5>1, Whereabouts
        <4>2. CASE Where(o) = "home"
          <5>1. \A q \in Objects \ {r} : Where(q)' = Where(q)
            BY <3>1, <4>1, <4>2
          <5> QED
            BY <1>4, <1>6, <3>3, <5>1, OneMoves
        <4>3. CASE Where(r)' = Where(r)
          <5>1. \A q \in Objects \ {o} : Where(q)' = Where(q)
            BY <3>1, <4>3
          <5> QED
            BY <1>3, <3>1, <5>1, OneMoves
        <4>4. CASE Where(o) # "home" /\ Where(r)' # Where(r)
          <5>1. Where(o) = "trash" /\ Where(r) = "home" /\ Where(r)' \in {"trash", "gone"}
            BY <1>3, <1>4, <1>6, <3>3, <4>1, <4>4
          <5> QED
            BY <1>4, <1>6, <3>1, <4>1, <5>1, OneReplaces
        <4> QED
          BY <4>2, <4>3, <4>4
      <3> QED
        BY <3>2, <3>3
    <2> QED
      BY <2>1, <2>2
  <1> QED
    BY <1>5, <1>6

(* Slots that are left, or emptied, or get what another one held, still hold *)
(* one object each and none that the user has not created.                   *)
LEMMA SlotsKept ==
    ASSUME PInv, UNCHANGED fresh,
           \A t \in Slots : holds'[t] = {} \/ \E s \in Slots : holds'[t] = holds[s]
    PROVE  Single' /\ Unborn'
  <1>1. ASSUME NEW t \in Slots
        PROVE  (\A a, b \in holds'[t] : a = b) /\ holds'[t] \cap fresh = {}
    BY DEF PInv, Single, Unborn
  <1> QED
    BY <1>1 DEF Single, Unborn

(* What a step keeps, and what it is for TrashBin. *)
Seen(p) ==
    /\ Single' /\ Unborn' /\ Unseen(p)'
    /\ BinStep
    /\ (op'[p].at = "files" <=> op[p].at = "files") \/ UNCHANGED [o \in Objects |-> Where(o)]

(* Steps that leave every object where it is. *)
LEMMA PInvQuiet ==
    ASSUME PInv, NEW p \in Procs, Step(p),
           \/ \E x \in Places : Named(p, x)
           \/ \E n \in Names : \E given \in Places \cup {None} : Aim(p, n, given)
           \/ WriteInfo(p) \/ WriteInfoFails(p) \/ CheckGoal(p)
           \/ MoveRefused(p) \/ StartCopy(p) \/ CopyFails(p)
           \/ UnlinkInfo(p) \/ Empty(p) \/ FilesPurged(p) \/ Emptied(p)
           \/ (\E n \in Names : PurgeInfo(p, n)) \/ Crash(p)
    PROVE  Seen(p)
  <1>0. TInv /\ Unseen(p) /\ op \in [Procs -> Doings]
    BY OpSound DEF PInv
  <1>1. UNCHANGED <<holds, fresh>>
    BY DEF Named, Aim, WriteInfo, WriteInfoFails, CheckGoal, MoveRefused, StartCopy, CopyFails,
           UnlinkInfo, Empty, FilesPurged, Emptied, PurgeInfo, Crash, slotVars
  <1>2. Single' /\ Unborn'
    BY <1>1, SlotsKept
  <1>3. BinStep /\ UNCHANGED [o \in Objects |-> Where(o)]
    BY <1>1 DEF BinStep, Where
  <1>a. PICK d : d = op[p].dst
    OBVIOUS
  <1>4. op'[p].at \in {"named", "moving", "copying"} =>
            holds[op'[p].dst] \subseteq Dangling
    <2>1. ASSUME NEW x \in Places, Named(p, x) PROVE holds[op'[p].dst] \subseteq Dangling
      BY <1>0, <2>1 DEF Named, Free, Exists, Idle
    <2>2. ASSUME NEW n \in Names, NEW given \in Places \cup {None}, Aim(p, n, given)
          PROVE  op'[p].at = "aimed"
      BY <1>0, <2>2 DEF Aim, Idle
    <2>3. CASE WriteInfo(p)
      BY <1>0, <2>3, Turned DEF WriteInfo, Unseen
    <2>4. CASE CheckGoal(p)
      <3>1. CASE Exists(op[p].dst)
        BY <1>0, <2>4, <3>1, Turned DEF CheckGoal, Idle
      <3>2. CASE ~Exists(op[p].dst)
        BY <1>0, <2>4, <3>2, Turned DEF CheckGoal, Exists
      <3> QED
        BY <3>1, <3>2
    <2>5. CASE StartCopy(p)
      BY <1>0, <2>5, Turned DEF StartCopy, Unseen
    <2>6. CASE \/ WriteInfoFails(p) \/ MoveRefused(p) \/ CopyFails(p) \/ UnlinkInfo(p)
               \/ Emptied(p) \/ Crash(p)
      BY <1>0, <2>6, Turned
      DEF WriteInfoFails, MoveRefused, CopyFails, Raise, UnlinkInfo, Emptied, Crash, Idle
    <2>7. Empty(p) => op'[p].at = "files"
      BY <1>0 DEF Empty, Idle
    <2>8. FilesPurged(p) => op'[p].at = "infos"
      BY <1>0 DEF FilesPurged, Doings
    <2>9. ASSUME NEW n \in Names, PurgeInfo(p, n) PROVE op'[p].at = "infos"
      BY <1>0, <2>9 DEF PurgeInfo, Purging, Doings
    <2> QED
      BY <2>1, <2>2, <2>3, <2>4, <2>5, <2>6, <2>7, <2>8, <2>9
  <1>5. op'[p].at # "copied"
    <2>1. ASSUME NEW x \in Places, Named(p, x) PROVE op'[p].at = "named"
      BY <1>0, <2>1 DEF Named, Idle
    <2>2. ASSUME NEW n \in Names, NEW given \in Places \cup {None}, Aim(p, n, given)
          PROVE  op'[p].at = "aimed"
      BY <1>0, <2>2 DEF Aim, Idle
    <2>3. WriteInfo(p) \/ StartCopy(p) => op'[p].at # "copied"
      BY <1>0, Turned DEF WriteInfo, StartCopy
    <2>4. CASE \/ WriteInfoFails(p) \/ MoveRefused(p) \/ CopyFails(p) \/ UnlinkInfo(p)
               \/ Emptied(p) \/ Crash(p) \/ CheckGoal(p)
      BY <1>0, <2>4, Turned
      DEF WriteInfoFails, MoveRefused, CopyFails, Raise, UnlinkInfo, Emptied, Crash, CheckGoal,
          Idle
    <2>5. Empty(p) => op'[p].at = "files"
      BY <1>0 DEF Empty, Idle
    <2>6. FilesPurged(p) => op'[p].at = "infos"
      BY <1>0 DEF FilesPurged, Doings
    <2>7. ASSUME NEW n \in Names, PurgeInfo(p, n) PROVE op'[p].at = "infos"
      BY <1>0, <2>7 DEF PurgeInfo, Purging, Doings
    <2> QED
      BY <2>1, <2>2, <2>3, <2>4, <2>5, <2>6, <2>7
  <1>6. Unseen(p)'
    BY <1>1, <1>4, <1>5 DEF Unseen
  <1> QED
    BY <1>2, <1>3, <1>6 DEF Seen

(* Steps that move, copy or remove an object. *)
LEMMA PInvMove ==
    ASSUME PInv, NEW p \in Procs, Step(p),
           \/ Rename(p) \/ FinishCopy(p) \/ RemoveSource(p) \/ RemoveSourceFails(p)
           \/ \E n \in Names : PurgeFile(p, n) \/ PurgeFileFails(p, n)
    PROVE  Seen(p)
  <1>0. /\ TInv /\ Unseen(p) /\ op \in [Procs -> Doings] /\ holds \in [Slots -> SUBSET Objects]
        /\ Names \subseteq Slots
    BY OpSound, Apartness DEF PInv, TInv, TypeOK
  <1>a. PICK s, d : s = op[p].src /\ d = op[p].dst
    OBVIOUS
  <1>b. op[p].at \in Moving =>
            /\ s \in Slots /\ d \in Slots /\ s # d
            /\ \/ s \in Places /\ d \in Names
               \/ s \in Names /\ d \in Places
    BY <1>0, <1>a, Ends DEF TInv, OneWay, Inward, Outward
  <1>c. op[p].at \in {"moving", "copying"} =>
            holds[d] \subseteq Dangling /\ Joined(d, s) = holds[s]
    <2>1. op[p].at \in {"moving", "copying"} => holds[d] \subseteq Dangling
      BY <1>0, <1>a DEF Unseen
    <2>2. holds[d] \subseteq Dangling => ~IsDir(d)
      BY TrashAssumption DEF IsDir
    <2> QED
      BY <2>1, <2>2 DEF Joined
  <1>1. CASE Rename(p)
    <2>1. /\ UNCHANGED fresh /\ op[p].at = "moving"
          /\ holds' = [holds EXCEPT ![s] = {}, ![d] = holds[s]]
      BY <1>1, <1>a, <1>c DEF Rename
    <2>2. BinStep
      BY <1>b, <1>c, <2>1, Arrived DEF Moving
    <2>3. Single' /\ Unborn'
      BY <1>0, <1>b, <2>1, SlotsKept DEF Moving
    <2>4. op'[p] = Idle \/ op'[p].at = "moved"
      BY <1>0, <1>1, Turned DEF Rename, Moved
    <2> QED
      BY <2>1, <2>2, <2>3, <2>4 DEF Seen, Unseen, Idle
  <1>2. CASE FinishCopy(p)
    <2>1. /\ UNCHANGED fresh /\ op[p].at = "copying"
          /\ holds' = [holds EXCEPT ![d] = holds[s]]
      BY <1>2, <1>a, <1>c DEF FinishCopy
    <2>2. BinStep
      BY <1>b, <1>c, <2>1, Arrived DEF Moving
    <2>3. Single' /\ Unborn'
      BY <1>0, <1>b, <2>1, SlotsKept DEF Moving
    <2>4. op'[p].at = "copied" /\ op'[p].src = s /\ op'[p].dst = d
      BY <1>0, <1>2, <1>a, Turned DEF FinishCopy
    <2>5. holds'[s] \subseteq holds'[d]
      BY <1>0, <1>b, <2>1 DEF Moving
    <2> QED
      BY <2>1, <2>2, <2>3, <2>4, <2>5 DEF Seen, Unseen
  <1>3. CASE RemoveSource(p) \/ RemoveSourceFails(p)
    <2>1. UNCHANGED fresh /\ op[p].at = "copied"
      BY <1>3 DEF RemoveSource, RemoveSourceFails
    <2>2. holds' = [holds EXCEPT ![s] = {}] \/ UNCHANGED holds
      BY <1>3, <1>a DEF RemoveSource, RemoveSourceFails, Spoil, slotVars
    <2>3. \/ s \in Names /\ \E x \in Places : holds[s] \subseteq holds[x]
          \/ s \in Places /\ \E n \in Names : holds[s] \subseteq holds[n]
      BY <1>0, <1>a, <1>b, <2>1 DEF Unseen, Moving
    <2>4. BinStep
      <3>1. CASE holds' = [holds EXCEPT ![s] = {}]
        BY <1>b, <2>1, <2>3, <3>1, Cleared DEF Moving
      <3>2. CASE UNCHANGED holds
        BY <2>1, <3>2 DEF BinStep, Where
      <3> QED
        BY <2>2, <3>1, <3>2
    <2>5. Single' /\ Unborn'
      BY <1>0, <2>1, <2>2, SlotsKept
    <2>6. op'[p] = Idle \/ op'[p].at = "moved"
      BY <1>0, <1>3, Turned DEF RemoveSource, RemoveSourceFails, Raise, Moved
    <2> QED
      BY <2>1, <2>4, <2>5, <2>6 DEF Seen, Unseen, Idle
  <1>4. ASSUME NEW n \in Names, PurgeFile(p, n) \/ PurgeFileFails(p, n) PROVE Seen(p)
    <2>1. UNCHANGED fresh /\ (holds' = [holds EXCEPT ![n] = {}] \/ UNCHANGED holds)
      BY <1>4 DEF PurgeFile, PurgeFileFails, Spoil, slotVars
    <2>2. Emptying /\ op[p].at = "files"
      BY <1>4 DEF PurgeFile, PurgeFileFails, Purging, Emptying
    <2>3. BinStep
      <3>1. CASE holds' = [holds EXCEPT ![n] = {}]
        BY <1>0, <2>1, <2>2, <3>1, Cleared
      <3>2. CASE UNCHANGED holds
        BY <2>1, <3>2 DEF BinStep, Where
      <3> QED
        BY <2>1, <3>1, <3>2
    <2>4. Single' /\ Unborn'
      BY <1>0, <2>1, SlotsKept
    <2>5. op'[p].at = "files"
      BY <1>0, <1>4 DEF PurgeFile, PurgeFileFails, Purging, Doings
    <2> QED
      BY <2>2, <2>3, <2>4, <2>5 DEF Seen, Unseen
  <1> QED
    BY <1>1, <1>2, <1>3, <1>4

(* Whether the trash is being emptied changes by itself, or not at all. *)
PromiseStep == Bin!Next \/ UNCHANGED <<[o \in Objects |-> Where(o)], Emptying>>

LEMMA BinPromise ==
    ASSUME BinStep, \/ (Emptying' = Emptying)
                    \/ UNCHANGED [o \in Objects |-> Where(o)]
    PROVE  PromiseStep
  <1>1. CASE Emptying' = Emptying
    BY <1>1 DEF BinStep, PromiseStep, Bin!Next
  <1>2. CASE ~(Emptying' = Emptying) /\ UNCHANGED [o \in Objects |-> Where(o)]
    <2>1. Emptying' = ~Emptying
      BY <1>2 DEF Emptying
    <2> QED
      BY <1>2, <2>1 DEF PromiseStep, Bin!Next, Bin!Toggle
  <1> QED
    BY <1>1, <1>2

(* Every step of the one process at work, and of the user between commands,  *)
(* is a step of TrashBin or none.                                            *)
LEMMA PInvNext == PInv /\ OneAtATime /\ OneAtATime' /\ [Next]_vars => PInv' /\ PromiseStep
  <1> SUFFICES ASSUME PInv, OneAtATime, OneAtATime', [Next]_vars PROVE PInv' /\ PromiseStep
    OBVIOUS
  <1>0. TInv'
    BY TInvNext DEF PInv
  <1>1. ASSUME NEW p \in Procs, Step(p) PROVE PInv' /\ PromiseStep
    <2>1. Seen(p)
      BY <1>1, PInvQuiet, PInvMove DEF Step
    <2>2. ASSUME NEW q \in Procs, q # p PROVE Unseen(q)'
      <3>1. op'[q] = Idle
        BY <1>1, <2>2, Others DEF PInv
      <3> QED
        BY <3>1 DEF Unseen, Idle
    <2>3. \A q \in Procs : q # p => op'[q] = op[q]
      BY <1>1, OpSound, Goes DEF PInv, Turns
    <2>4. (op'[p].at = "files" <=> op[p].at = "files") => (Emptying' = Emptying)
      BY <2>3 DEF Emptying
    <2>5. PromiseStep
      BY <2>1, <2>4, BinPromise DEF Seen
    <2> QED
      BY <1>0, <2>1, <2>2, <2>5 DEF PInv, Seen
  <1>2. ASSUME NEW o \in Objects, NEW x \in Places, Create(o, x) PROVE PInv' /\ PromiseStep
    <2>1. /\ holds' = [holds EXCEPT ![x] = {o}] /\ fresh' = fresh \ {o} /\ o \in fresh
          /\ UNCHANGED op /\ holds[x] = {} /\ \A q \in Procs : op[q] = Idle
      BY <1>2 DEF Create, Occupied
    <2>2. /\ holds'[x] = {o} /\ x \in Slots
          /\ \A t \in Slots \ {x} : holds'[t] = holds[t]
      BY <2>1, Apartness DEF PInv, TInv, TypeOK
    <2>3. Single' /\ Unborn'
      BY <2>1, <2>2 DEF PInv, Single, Unborn
    <2>4. \A q \in Procs : Unseen(q)'
      BY <2>1 DEF Unseen, Idle
    <2>5. ASSUME NEW r \in Objects \ {o} PROVE Where(r)' = Where(r)
      <3>1. /\ \A y \in Places : r \in holds'[y] <=> r \in holds[y]
            /\ \A n \in Names : r \in holds'[n] <=> r \in holds[n]
            /\ r \in fresh' <=> r \in fresh
        BY <2>1, <2>2, Apartness
      <3> QED
        BY <3>1 DEF Where
    <2>6. Where(o) = "absent" /\ Where(o)' = "home"
      BY <2>1, <2>2 DEF Where
    <2>7. Emptying' = Emptying
      BY <2>1 DEF Emptying
    <2>8. PromiseStep
      BY <2>5, <2>6, <2>7, OneMoves, BinPromise
    <2> QED
      BY <1>0, <2>3, <2>4, <2>8 DEF PInv
  <1>3. CASE UNCHANGED vars
    <2>1. UNCHANGED <<holds, fresh, op>>
      BY <1>3 DEF vars, slotVars
    <2> QED
      BY <1>0, <2>1 DEF PInv, Single, Unborn, Unseen, PromiseStep, Where, Emptying
  <1> QED
    BY <1>1, <1>2, <1>3 DEF Next

(* One process at a time keeps the promise of TrashBin through every failure *)
(* and crash: an object goes from the trash only while empty_trash is at the *)
(* files, but for a link to nothing where something else arrives.            *)
THEOREM PromiseKept == Spec /\ []OneAtATime => KeepsPromise
  <1>1. PromiseStep => [Bin!Next]_(<<[o \in Objects |-> Where(o)], Emptying>>)
    BY DEF PromiseStep
  <1> QED
    BY <1>1, PInvInit, PInvNext, PTL DEF Spec, KeepsPromise, Bin!Spec
===============================================================================
