--------------------------- MODULE DuplicatesProofs ---------------------------
(* For any number of files, links and groups, any strategy and any failure,  *)
(* while nobody else writes: the search finds exactly the groups of equal    *)
(* contents, cleaning loses no content, linking leaves every name with its   *)
(* own, the strategy decides which path stays, and the counters add up.      *)
EXTENDS Duplicates, FiniteSetTheorems, SequenceTheorems, TLAPS

Searching == phase \in {"size", "sample", "whole"}
InItem    == phase \in {"compare", "unlink", "link", "copy"}

(* Where the process is; of TypeOK only what the argument needs. *)
Shape ==
    /\ job \in Jobs
    /\ meddling \in Nat /\ meddling <= Meddling
    /\ phase \in {"size", "sample", "whole", "clean", "compare", "unlink", "link", "copy",
                  "done", "stopped"}
    /\ InItem => order # <<>>
    /\ Searching => order = <<>> /\ report = {} /\ left = {}

Typed == {at, was} \subseteq [Paths -> Files \cup {None}]

(* While nothing has been removed, what the search knows of a path is true;  *)
(* the last stage has forgotten every path whose whole content it did not    *)
(* read.                                                                     *)
KeysTrue ==
    Searching =>
        /\ at = was
        /\ DOMAIN key = Paths
        /\ \A p \in Paths : phase = "whole" /\ p \notin todo /\ key[p] # NoKey =>
               at[p] # None /\ key[p].whole = at[p].data

(* The groups are apart, and each is of one content. *)
Pure ==
    /\ report \subseteq (SUBSET Paths) \ {{}}
    /\ left \subseteq report
    /\ \A g \in report : \A p, q \in g :
           was[p] # None /\ was[q] # None /\ was[p].data = was[q].data
    /\ \A g, h \in report : g = h \/ g \cap h = {}

Begun == report \ left

(* Only paths of the groups that were begun have changed, and of each such   *)
(* group one path has not; in the current one it is the primary.             *)
Retained ==
    /\ \A p \in Paths : p \notin UNION Begun => at[p] = was[p]
    /\ \A g \in Begun : \E p \in g : at[p] = was[p]
    /\ order # <<>> => \E g \in Begun :
           primary \in g /\ order \in Seq(g \ {primary}) /\ at[primary] = was[primary]

DInv == Shape /\ (Undisturbed => Typed /\ KeysTrue /\ Pure /\ Retained)

(* Whatever the search begins with, nothing has changed yet. *)
LEMMA DInvInit == Init => DInv
  BY DuplicatesAssumption
     DEF Init, DInv, Shape, Typed, Undisturbed, KeysTrue, Pure, Retained, Begun, Searching, InItem

(* The stages of the search read contents and change none.                   *)
LEMMA DInvExamine ==
    ASSUME DInv, NEW p \in Paths, Examine(p)
    PROVE  DInv'
  <1> USE DEF Examine, DInv, cleanVars, outside, Searching, InItem, Undisturbed
  <1>1. Shape'
    BY DEF Shape
  <1>2. ASSUME Undisturbed PROVE KeysTrue'
    BY <1>2 DEF KeysTrue, Usable, KeyAt, WholeKey, NoKey
  <1>3. ASSUME Undisturbed PROVE Typed' /\ Pure'
    BY <1>3 DEF Typed, Pure
  <1>4. ASSUME Undisturbed PROVE Retained'
    <2>1. UNCHANGED <<at, was, report, left, primary, order, Begun>>
      BY DEF Begun
    <2> QED
      BY <1>4, <2>1 DEF Retained
  <1> QED
    BY <1>1, <1>2, <1>3, <1>4

(* Going on to the next stage of the search.                                 *)
LEMMA DInvStage ==
    ASSUME DInv, NextStage
    PROVE  DInv'
  <1> USE DEF NextStage, DInv, cleanVars, outside, Searching, InItem, Undisturbed
  <1>1. Shape'
    BY DEF Shape
  <1>2. ASSUME Undisturbed PROVE KeysTrue'
    BY <1>2 DEF KeysTrue
  <1>3. ASSUME Undisturbed PROVE Typed' /\ Pure'
    BY <1>3 DEF Typed, Pure
  <1>4. ASSUME Undisturbed PROVE Retained'
    <2>1. UNCHANGED <<at, was, report, left, primary, order, Begun>>
      BY DEF Begun
    <2> QED
      BY <1>4, <2>1 DEF Retained
  <1> QED
    BY <1>1, <1>2, <1>3, <1>4

(* The classes of equal keys are apart and of one content.                   *)
LEMMA DInvReport ==
    ASSUME DInv, Report
    PROVE  DInv'
  <1> USE DEF Report, DInv, outside, Searching, InItem, Undisturbed
  <1>1. Shape'
    BY DEF Shape
  <1>2. ASSUME Undisturbed PROVE Typed' /\ Pure' /\ Retained' /\ KeysTrue'
    <2> USE <1>2
    <2>1. \A p \in Alike : p \in Paths /\ key[p] # NoKey
      BY DEF Alike
    <2>2. \A p \in Paths : key[p] # NoKey => at[p] # None /\ key[p].whole = at[p].data
      BY DEF KeysTrue
    <2>3. at = was
      BY DEF KeysTrue
    <2>4. \A g \in report' : \E p \in Alike : g = {q \in Paths : key[q] = key[p]}
      OBVIOUS
    <2>5. Pure'
      <3>1. report' \subseteq (SUBSET Paths) \ {{}}
        BY <2>1, <2>4
      <3>2. \A g \in report' : \A p, q \in g :
                was[p] # None /\ was[q] # None /\ was[p].data = was[q].data
        BY <2>1, <2>2, <2>3, <2>4
      <3>3. \A g, h \in report' : g = h \/ g \cap h = {}
        <4> SUFFICES ASSUME NEW g \in report', NEW h \in report', NEW x \in g \cap h
                     PROVE  g = h
          OBVIOUS
        <4>1. PICK p \in Alike : g = {q \in Paths : key[q] = key[p]}
          BY <2>4
        <4>2. PICK r \in Alike : h = {q \in Paths : key[q] = key[r]}
          BY <2>4
        <4>3. key[p] = key[r]
          BY <4>1, <4>2
        <4> QED
          BY <4>1, <4>2, <4>3
      <3> QED
        BY <3>1, <3>2, <3>3 DEF Pure
    <2>6. Retained'
      BY <2>3 DEF Retained, Begun, Shape
    <2> QED
      BY <2>5, <2>6 DEF KeysTrue, Typed
  <1> QED
    BY <1>1, <1>2

(* No path comes before itself. *)
LEMMA NotBeforeItself ==
    ASSUME NEW g \in SUBSET Paths, NEW p \in g,
           at \in [Paths -> Files \cup {None}], job.keep \in {"first", "newest", "oldest"},
           job.keep = "first" \/ \A q \in g : at[q] # None
    PROVE  ~Before(p, p)
  <1>1. p \in Nat /\ at[p] \in Files \cup {None}
    BY DuplicatesAssumption
  <1>2. CASE job.keep = "first"
    BY <1>1, <1>2 DEF Before
  <1>3. CASE job.keep # "first"
    <2>1. at[p].time \in Int
      BY <1>1, <1>3, DuplicatesAssumption DEF Files
    <2>2. ~(at[p].time > at[p].time) /\ ~(at[p].time < at[p].time) /\ ~(p < p)
      BY <1>1, <2>1
    <2> QED
      BY <1>3, <2>2 DEF Before
  <1> QED
    BY <1>2, <1>3

(* The sort puts some path of the group first and no path twice.             *)
LEMMA FirstOfOrder ==
    ASSUME NEW g \in SUBSET Paths, g # {}, NEW s \in Orders(g),
           at \in [Paths -> Files \cup {None}], job.keep \in {"first", "newest", "oldest"},
           job.keep = "first" \/ \A p \in g : at[p] # None
    PROVE  s[1] \in g /\ Tail(s) \in Seq(g \ {s[1]})
  <1>1. IsFiniteSet(g)
    BY FS_Subset, DuplicatesAssumption
  <1>2. Cardinality(g) \in Nat /\ Cardinality(g) # 0
    BY <1>1, FS_CardinalityType, FS_EmptySet
  <1> DEFINE n == Cardinality(g)
  <1>3. s \in [1 .. n -> g] /\ 1 \in 1 .. n
    BY <1>2 DEF Orders
  <1>4. \A p \in g : ~Before(p, p)
    BY NotBeforeItself
  <1>5. \A i \in 2 .. n : Before(s[1], s[i])
    BY <1>2, <1>3 DEF Orders
  <1>6. \A i \in 2 .. n : s[i] \in g \ {s[1]}
    BY <1>2, <1>3, <1>4, <1>5
  <1>7. s \in Seq(g) /\ Len(s) = n
    BY <1>2, <1>3
  <1>8. s # <<>> /\ Tail(s) = SubSeq(s, 2, n)
    BY <1>2, <1>7, EmptySeq, TailIsSubSeq
  <1>9. SubSeq(s, 2, n) \in Seq(g \ {s[1]})
    BY <1>2, <1>6, SubSeqProperties
  <1> QED
    BY <1>3, <1>8, <1>9

(* A group is begun while all its paths are as they were.                    *)
LEMMA DInvBegin ==
    ASSUME DInv, NEW g \in left, Begin(g)
    PROVE  DInv'
  <1> USE DEF Begin, DInv, outside, searchVars, Searching, InItem, Undisturbed
  <1>1. Shape'
    BY DEF Shape
  <1>2. ASSUME Undisturbed PROVE Typed' /\ Pure' /\ Retained' /\ KeysTrue'
    <2> USE <1>2
    <2>1. g \in report /\ g \subseteq Paths /\ g # {}
      BY DEF Pure
    <2>2. Begun' = Begun \cup {g}
      BY <2>1 DEF Begun
    <2>3. \A p \in g : p \notin UNION Begun
      BY <2>1 DEF Pure, Begun
    <2>4. \A p \in g : at[p] = was[p]
      BY <2>1, <2>3 DEF Retained
    <2>5. Pure'
      BY DEF Pure
    <2>6. order' # <<>> =>
              primary' \in g /\ order' \in Seq(g \ {primary'}) /\ at[primary'] = was[primary']
      <3>1. CASE UNCHANGED <<primary, order>>
        BY <3>1
      <3>2. ASSUME NEW s \in Orders(g), primary' = s[1], order' = Tail(s),
                   job.keep = "first" \/ \A p \in g : at[p] # None
            PROVE  primary' \in g /\ order' \in Seq(g \ {primary'})
        BY <2>1, <3>2, FirstOfOrder, DuplicatesAssumption DEF Shape, Typed
      <3> QED
        BY <2>1, <2>4, <3>1, <3>2
    <2>7. Retained'
      BY <2>1, <2>2, <2>4, <2>6 DEF Retained
    <2> QED
      BY <2>5, <2>7 DEF KeysTrue, Typed
  <1> QED
    BY <1>1, <1>2

(* The path in turn belongs to a group that was begun and is not the one     *)
(* that is kept.                                                             *)
LEMMA InTurn ==
    ASSUME DInv, Undisturbed, order # <<>>
    PROVE  /\ Dupe \in Paths
           /\ \E g \in Begun :
                  /\ Dupe \in g /\ primary \in g /\ Dupe # primary
                  /\ Tail(order) \in Seq(g \ {primary})
                  /\ at[primary] = was[primary]
  <1>1. PICK g \in Begun : primary \in g /\ order \in Seq(g \ {primary})
                               /\ at[primary] = was[primary]
    BY DEF DInv, Retained
  <1>2. Head(order) \in g \ {primary} /\ Tail(order) \in Seq(g \ {primary})
    BY <1>1, HeadTailProperties
  <1> QED
    BY <1>1, <1>2 DEF Dupe, DInv, Pure, Begun

(* Whatever happens to the path in turn, its group keeps the primary and     *)
(* every other group its own path.                                           *)
LEMMA TurnRetains ==
    ASSUME DInv, Undisturbed, order # <<>>,
           \A p \in Paths \ {Dupe} : at'[p] = at[p],
           UNCHANGED <<report, left, primary, was>>, order' \in {order, Tail(order)}
    PROVE  Retained'
  <1>1. Dupe \in Paths
    BY InTurn
  <1>2. PICK g \in Begun : /\ Dupe \in g /\ primary \in g /\ Dupe # primary
                           /\ Tail(order) \in Seq(g \ {primary})
                           /\ at[primary] = was[primary]
    BY InTurn
  <1>3. Begun' = Begun /\ g \subseteq Paths
    BY DEF Begun, DInv, Pure
  <1>4. \A p \in Paths : p \notin UNION Begun => at'[p] = was[p]
    BY <1>2 DEF DInv, Retained
  <1>5. \A h \in Begun : \E p \in h : at'[p] = was[p]
    <2> TAKE h \in Begun
    <2>1. CASE h = g
      BY <1>2, <1>3, <2>1
    <2>2. CASE h # g
      BY <1>2, <2>2 DEF DInv, Retained, Pure, Begun
    <2> QED
      BY <2>1, <2>2
  <1>6. order \in Seq(g \ {primary})
    <2>1. PICK h \in Begun : primary \in h /\ order \in Seq(h \ {primary})
      BY DEF DInv, Retained
    <2>2. h = g
      BY <1>2, <2>1 DEF DInv, Pure, Begun
    <2> QED
      BY <2>1, <2>2
  <1>7. at'[primary] = was[primary]
    BY <1>2, <1>3
  <1> QED
    BY <1>2, <1>3, <1>4, <1>5, <1>6, <1>7 DEF Retained

(* Every step on the path in turn is of that kind.                           *)
Item == Simulate \/ Skip \/ Take \/ Compare \/ Unlink \/ UnlinkFails
          \/ Link \/ LinkFails \/ Copy \/ CopyFails

(* What a step on one redundant path may change.                             *)
LEMMA ItemStep ==
    ASSUME DInv, Item
    PROVE  /\ order # <<>>
           /\ at' = at \/ \E f : Put(f)
           /\ UNCHANGED <<job, report, left, primary, was>>
           /\ meddling' = meddling
           /\ \/ phase' = "clean" /\ order' = Tail(order)
              \/ phase' \in {"compare", "unlink", "link", "copy"} /\ order' = order
  <1> USE DEF Same, Calm, Mishap, searchVars, outside, Through, Deleted, Failed
  <1>1. order # <<>>
    BY DEF Item, DInv, Shape, InItem, Turn, Simulate, Skip, Take, Compare, Unlink, UnlinkFails,
           Link, LinkFails, Copy, CopyFails
  <1>2. CASE Simulate \/ Skip \/ Take
    BY <1>1, <1>2 DEF Simulate, Skip, Take
  <1>3. CASE Compare
    BY <1>1, <1>3 DEF Compare
  <1>4. CASE Unlink \/ UnlinkFails
    BY <1>1, <1>4 DEF Unlink, UnlinkFails
  <1>5. CASE Link
    BY <1>1, <1>5 DEF Link
  <1>6. CASE LinkFails
    BY <1>1, <1>6 DEF LinkFails, Restore
  <1>7. CASE Copy
    BY <1>1, <1>7 DEF Copy
  <1>8. CASE CopyFails
    <2>1. at' = at \/ \E f : Put(f)
      BY <1>8 DEF CopyFails, LeaveCopy
    <2> QED
      BY <1>1, <1>8, <2>1 DEF CopyFails
  <1> QED
    BY <1>2, <1>3, <1>4, <1>5, <1>6, <1>7, <1>8 DEF Item

(* Only a link and a copy put a file at a path, the primary's or a new one.  *)
LEMMA ItemTyped ==
    ASSUME DInv, Item, Undisturbed
    PROVE  Typed'
  <1>1. PICK g \in Begun : primary \in g
    BY ItemStep, InTurn
  <1>2. primary \in Paths
    BY <1>1 DEF DInv, Pure, Begun
  <1>3. at \in [Paths -> Files \cup {None}] /\ was' = was
    BY ItemStep DEF DInv, Typed
  <1>4. ASSUME NEW f \in Files \cup {None}, Put(f) PROVE Typed'
    BY <1>3, <1>4 DEF Typed, Put, DInv
  <1>5. CASE at' = at
    BY <1>3, <1>5 DEF Typed, DInv
  <1>6. CASE Unlink
    BY <1>4, <1>6 DEF Unlink
  <1>7. CASE Link
    BY <1>2, <1>3, <1>4, <1>7 DEF Link
  <1>8. Target \subseteq Ids \/ at[Dupe] \in Files
    BY ItemStep, InTurn, <1>3 DEF Target, NewIds
  <1>9. Target \subseteq Ids
    BY <1>8 DEF Target, NewIds, Files
  <1>10. CASE Copy
    <2>1. PICK i \in Target : Put([at[primary] EXCEPT !.id = i])
      BY <1>10 DEF Copy
    <2>2. at[primary] \in Files /\ i \in Ids
      BY <1>2, <1>3, <1>9, <1>10 DEF Copy
    <2>3. [at[primary] EXCEPT !.id = i] \in Files
      BY <2>2 DEF Files
    <2> QED
      BY <1>4, <2>1, <2>3
  <1>11. ASSUME at[primary] \in Files, NEW i \in Target, NEW d \in {Torn, at[primary].data}
         PROVE  [id |-> i, data |-> d, time |-> LastTime] \in Files
    BY <1>9, <1>11, DuplicatesAssumption DEF Files
  <1>12. CASE CopyFails
    BY <1>2, <1>3, <1>4, <1>5, <1>11, <1>12 DEF CopyFails, LeaveCopy
  <1> QED
    BY <1>5, <1>6, <1>7, <1>10, <1>12
       DEF Item, Simulate, Skip, Take, Compare, UnlinkFails, LinkFails

(* Cleaning one redundant path.                                              *)
LEMMA DInvItem ==
    ASSUME DInv, Item
    PROVE  DInv'
  <1> USE ItemStep
  <1>1. ~Searching
    BY DEF DInv, Shape
  <1>2. Shape' /\ ~Searching'
    BY <1>1 DEF DInv, Shape, Searching, InItem
  <1>3. ASSUME Undisturbed PROVE Typed' /\ Pure' /\ Retained' /\ KeysTrue'
    <2>1. \A p \in Paths \ {Dupe} : at'[p] = at[p]
      BY <1>3 DEF Put, DInv, Typed
    <2>2. Retained'
      BY <1>3, <2>1, TurnRetains
    <2>3. Pure'
      BY <1>3 DEF DInv, Pure
    <2> QED
      BY <1>2, <1>3, <2>2, <2>3, ItemTyped DEF KeysTrue
  <1> QED
    BY <1>2, <1>3 DEF DInv, Undisturbed

(* The other steps remove nothing, or another process has interfered.        *)
LEMMA DInvRest ==
    ASSUME DInv, \/ Finish \/ Crash \/ Finished \/ UNCHANGED vars
                 \/ \E p \in Paths : Meddle(p)
    PROVE  DInv'
  <1>1. CASE Finish \/ Crash
    <2>1. UNCHANGED <<at, job, key, todo, report, left, primary, order, meddling, was>>
          /\ phase' \in {"done", "stopped"}
      BY <1>1 DEF Finish, Crash, Mishap, searchVars, cleanVars, outside
    <2>2. Shape'
      BY <2>1 DEF DInv, Shape, Searching, InItem
    <2>3. ASSUME Undisturbed PROVE Typed' /\ Pure' /\ KeysTrue'
      BY <2>1, <2>3 DEF DInv, Typed, Pure, KeysTrue, Searching
    <2>4. ASSUME Undisturbed PROVE Retained'
      BY <2>1, <2>4 DEF DInv, Retained, Begun
    <2> QED
      BY <2>1, <2>2, <2>3, <2>4 DEF DInv, Undisturbed
  <1>2. CASE \E p \in Paths : Meddle(p)
    <2>1. UNCHANGED <<job, key, todo, report, left, primary, order, phase>>
          /\ meddling > 0 /\ meddling' = meddling - 1
      BY <1>2 DEF Meddle, searchVars, cleanVars
    <2>2. Shape' /\ meddling' # Meddling
      BY <2>1, DuplicatesAssumption DEF DInv, Shape, Searching, InItem
    <2> QED
      BY <2>2 DEF DInv, Undisturbed
  <1>3. CASE UNCHANGED vars
    <2>1. UNCHANGED <<at, job, key, todo, report, left, primary, order, phase, meddling, was>>
      BY <1>3 DEF vars, searchVars, cleanVars, outside
    <2>2. Shape'
      BY <2>1 DEF DInv, Shape, Searching, InItem
    <2>3. ASSUME Undisturbed PROVE Typed' /\ Pure' /\ KeysTrue'
      BY <2>1, <2>3 DEF DInv, Typed, Pure, KeysTrue, Searching
    <2>4. ASSUME Undisturbed PROVE Retained'
      BY <2>1, <2>4 DEF DInv, Retained, Begun
    <2> QED
      BY <2>1, <2>2, <2>3, <2>4 DEF DInv, Undisturbed
  <1> QED
    BY <1>1, <1>2, <1>3 DEF Finished

(* Every step keeps DInv.                                                    *)
LEMMA DInvNext == DInv /\ [Next]_vars => DInv'
  <1> SUFFICES ASSUME DInv, [Next]_vars PROVE DInv'
    OBVIOUS
  <1> QED
    BY DInvExamine, DInvStage, DInvReport, DInvBegin, DInvItem, DInvRest
       DEF Next, Clean, Item

(* A path of a group that was begun shares its content with the one its      *)
(* group retains; every other path is as it was.                             *)
LEMMA DInvKeeps == DInv => NoContentLost
  <1> SUFFICES ASSUME DInv, Undisturbed, NEW p \in Paths, was[p] # None
               PROVE  \E q \in Paths : DataAt(q) = was[p].data
    BY DEF NoContentLost
  <1>1. CASE p \notin UNION Begun
    BY <1>1 DEF DInv, Retained, DataAt
  <1>2. CASE p \in UNION Begun
    <2>1. PICK g \in Begun : p \in g
      BY <1>2
    <2>2. PICK q \in g : at[q] = was[q]
      BY <2>1 DEF DInv, Retained
    <2>3. q \in Paths /\ was[q] # None /\ was[q].data = was[p].data
      BY <2>1, <2>2 DEF DInv, Pure, Begun
    <2> QED
      BY <2>2, <2>3 DEF DataAt
  <1> QED
    BY <1>1, <1>2

(* While nobody else writes, every content that was below the directory      *)
(* stays at some path, whatever fails and whenever the process dies.         *)
THEOREM NothingLost == Spec => []NoContentLost
  <1>1. Init => DInv
    BY DInvInit
  <1>2. DInv /\ [Next]_vars => DInv'
    BY DInvNext
  <1>3. DInv => NoContentLost
    BY DInvKeeps
  <1> QED
    BY <1>1, <1>2, <1>3, PTL DEF Spec

-----------------------------------------------------------------------------
(* The types, whatever the other processes do.                               *)

(* What a path is known by; a stage never has more to say than this.         *)
Keys == [size : Nat \cup {None}, sample : Samples \cup {None}, whole : Data \cup {None}]

(* TypeOK, and what makes the steps on a path keep it: a group is not empty, *)
(* and whoever has a path in turn has a path to keep, and an action for it.  *)
TInv ==
    /\ TypeOK
    /\ {} \notin report
    /\ InItem => order # <<>>
    /\ order # <<>> => primary \in Paths
    /\ phase \in {"compare", "link", "copy"} => job.action = "hardlink"
    /\ phase = "unlink" => job.action # "dry-run"

(* The keys of the stages are keys. *)
LEMMA KeyTypes ==
    ASSUME NEW d \in Data, NEW k \in Keys
    PROVE  /\ NoKey \in Keys /\ SizeKey(d) \in Keys
           /\ SampleKey(k, d) \in Keys /\ WholeKey(k, d) \in Keys
  <1>1. Size[d] \in Nat /\ Sample[d] \in Samples
    BY DuplicatesAssumption DEF Samples
  <1> QED
    BY <1>1 DEF Keys, NoKey, SizeKey, SampleKey, WholeKey

(* What the paths hold at first is of the right type. *)
LEMMA TInvInit == Init => TInv
  <1> SUFFICES ASSUME Init PROVE TInv
    OBVIOUS
  <1> USE DEF Init
  <1>1. at \in [Paths -> Files \cup {None}] /\ job \in Jobs
    BY DuplicatesAssumption
  <1>2. key \in [Paths -> Keys]
    BY DEF Keys, NoKey
  <1>3. stats \in [{"found", "deleted", "failed"} -> Nat]
    BY DEF NoStats
  <1>4. order \in Seq(Paths) /\ primary \in Paths \cup {None}
    OBVIOUS
  <1>5. meddling \in 0 .. Meddling /\ mishaps \in 0 .. Mishaps
    BY DuplicatesAssumption
  <1>6. TypeOK
    BY <1>1, <1>2, <1>3, <1>4, <1>5 DEF TypeOK, Keys
  <1> QED
    BY <1>6 DEF TInv, InItem

(* The search learns keys, and groups paths that have one.                   *)
LEMMA TInvSearch ==
    ASSUME TInv, (\E p \in Paths : Examine(p)) \/ NextStage \/ Report
    PROVE  TInv'
  <1> USE DEF TInv, InItem, cleanVars, outside
  <1>1. key \in [Paths -> Keys]
    BY DEF TypeOK, Keys
  <1>2. ASSUME NEW p \in Paths, Examine(p) PROVE TInv'
    <2>1. PICK k \in Keys : key' = [key EXCEPT ![p] = k]
      <3>1. CASE Usable(p)
        <4>1. at[p] \in Files /\ key[p] \in Keys
          BY <1>1, <3>1 DEF Usable, TypeOK
        <4>2. at[p].data \in Data
          BY <4>1 DEF Files
        <4>3. KeyAt(p) \in Keys
          BY <1>2, <4>1, <4>2, KeyTypes DEF Examine, KeyAt
        <4> QED
          BY <1>2, <3>1, <4>3 DEF Examine
      <3>2. CASE ~Usable(p)
        BY <1>2, <3>2 DEF Examine, Keys, NoKey
      <3> QED
        BY <3>1, <3>2
    <2>2. key' \in [Paths -> Keys]
      BY <1>1, <2>1
    <2> QED
      BY <1>2, <2>2 DEF Examine, TypeOK, Keys
  <1>3. CASE NextStage
    <2>1. key' \in [Paths -> Keys]
      BY <1>1, <1>3 DEF NextStage, Keys, NoKey
    <2>2. Alike \subseteq Paths
      BY DEF Alike
    <2> QED
      BY <1>3, <2>1, <2>2 DEF NextStage, TypeOK, Keys
  <1>4. CASE Report
    <2>1. \A g \in report' : \E p \in Alike : g = {q \in Paths : key[q] = key[p]}
      BY <1>4 DEF Report
    <2>2. report' \subseteq SUBSET Paths /\ {} \notin report'
      BY <2>1 DEF Alike
    <2>3. TypeOK'
      BY <1>4, <2>2 DEF Report, TypeOK
    <2> QED
      BY <1>4, <2>2, <2>3 DEF Report
  <1> QED
    BY <1>2, <1>3, <1>4

(* A group that is begun puts one of its paths first.                        *)
LEMMA TInvBegin ==
    ASSUME TInv, NEW g \in left, Begin(g)
    PROVE  TInv'
  <1> USE DEF TInv, InItem, searchVars, outside, Begin
  <1>1. g \in SUBSET Paths /\ g # {}
    BY DEF TypeOK
  <1>2. primary' \in Paths \cup {None} /\ order' \in Seq(Paths)
           /\ (order' # <<>> => primary' \in Paths)
    <2>1. CASE UNCHANGED <<primary, order>>
      BY <2>1 DEF TypeOK
    <2>2. ASSUME NEW s \in Orders(g), primary' = s[1], order' = Tail(s),
                 job.keep = "first" \/ \A p \in g : at[p] # None
          PROVE  primary' \in Paths /\ order' \in Seq(Paths)
      <3>1. job.keep \in {"first", "newest", "oldest"}
        BY DuplicatesAssumption DEF TypeOK
      <3>2. s[1] \in g /\ Tail(s) \in Seq(g \ {s[1]})
        BY <1>1, <2>2, <3>1, FirstOfOrder DEF TypeOK
      <3>3. Seq(g \ {s[1]}) \subseteq Seq(Paths)
        BY <1>1
      <3> QED
        BY <1>1, <2>2, <3>2, <3>3
    <2> QED
      BY <2>1, <2>2
  <1>3. TypeOK'
    BY <1>2 DEF TypeOK
  <1> QED
    BY <1>2, <1>3

(* A step on a path puts a file there or none, and counts it at most once.   *)
LEMMA TInvItem ==
    ASSUME TInv, Item
    PROVE  TInv'
  <1> USE DEF Same, Calm, Mishap, searchVars, outside
  <1>1. order # <<>> /\ order \in Seq(Paths) /\ primary \in Paths
    BY DEF TInv, TypeOK, InItem, Item, Turn, Simulate, Skip, Take, Compare, Unlink,
           UnlinkFails, Link, LinkFails, Copy, CopyFails
  <1>2. Dupe \in Paths /\ Tail(order) \in Seq(Paths)
    BY <1>1, HeadTailProperties DEF Dupe
  <1>3. at \in [Paths -> Files \cup {None}]
    BY DEF TInv, TypeOK
  <1>4. ASSUME NEW f \in Files \cup {None}, Put(f) PROVE at' \in [Paths -> Files \cup {None}]
    BY <1>3, <1>4 DEF Put
  <1>5. Target \subseteq Ids
    BY <1>2, <1>3 DEF Target, NewIds, Files
  <1>6. ASSUME NEW i \in Target, NEW f \in Files PROVE [f EXCEPT !.id = i] \in Files
    BY <1>5, DuplicatesAssumption DEF Files
  <1>7. at' \in [Paths -> Files \cup {None}]
    <2>1. CASE at' = at
      BY <1>3, <2>1
    <2>2. CASE Unlink
      BY <1>4, <2>2 DEF Unlink
    <2>3. CASE Link
      BY <1>1, <1>3, <1>4, <2>3 DEF Link
    <2>4. CASE Copy
      <3>1. PICK i \in Target : Put([at[primary] EXCEPT !.id = i])
        BY <2>4 DEF Copy
      <3>2. at[primary] \in Files
        BY <1>1, <1>3, <2>4 DEF Copy
      <3> QED
        BY <1>4, <1>6, <3>1, <3>2
    <2>5. CASE CopyFails
      <3>1. ASSUME at' # at
            PROVE  /\ at[primary] \in Files
                   /\ \E i \in Target, d \in {Torn, at[primary].data} :
                          Put([id |-> i, data |-> d, time |-> LastTime])
        BY <1>1, <1>3, <2>5, <3>1 DEF CopyFails, LeaveCopy
      <3>2. CASE at' # at
        <4>1. PICK i \in Target, d \in {Torn, at[primary].data} :
                  Put([id |-> i, data |-> d, time |-> LastTime])
          BY <3>1, <3>2
        <4>2. [id |-> i, data |-> d, time |-> LastTime] \in Files
          BY <1>5, <3>1, <3>2, DuplicatesAssumption DEF Files
        <4> QED
          BY <1>4, <4>1, <4>2
      <3> QED
        BY <2>1, <3>2
    <2> QED
      BY <2>1, <2>2, <2>3, <2>4, <2>5
         DEF Item, Simulate, Skip, Take, Compare, UnlinkFails, LinkFails
  <1>8. \/ stats' = stats
        \/ \E c : Tally(c)
    BY DEF Item, Simulate, Skip, Take, Compare, Unlink, UnlinkFails, Link, LinkFails, Restore,
           Copy, CopyFails, Deleted, Failed
  <1>9. stats' \in [{"found", "deleted", "failed"} -> Nat]
    <2>1. ASSUME NEW c, Tally(c) PROVE stats' \in [{"found", "deleted", "failed"} -> Nat]
      BY <2>1 DEF Tally, TInv, TypeOK
    <2> QED
      BY <1>8, <2>1 DEF TInv, TypeOK
  <1>10. mishaps' \in 0 .. Mishaps /\ meddling' = meddling
    BY DuplicatesAssumption
       DEF TInv, TypeOK, Item, Simulate, Skip, Take, Compare, Unlink, UnlinkFails, Link,
           LinkFails, Copy, CopyFails
  <1>11. /\ UNCHANGED <<job, todo, key, report, left, primary>>
         /\ phase' \in {"clean", "compare", "unlink", "link", "copy"}
         /\ \/ phase' = "clean" /\ order' = Tail(order)
            \/ phase' \in {"compare", "unlink", "link", "copy"} /\ order' = order
    <2> USE DEF Through, Deleted, Failed
    <2>1. CASE Simulate \/ Skip \/ Take
      BY <2>1 DEF Simulate, Skip, Take
    <2>2. CASE Compare
      BY <2>2 DEF Compare
    <2>3. CASE Unlink \/ UnlinkFails
      BY <2>3 DEF Unlink, UnlinkFails
    <2>4. CASE Link
      BY <2>4 DEF Link
    <2>5. CASE LinkFails
      BY <2>5 DEF LinkFails, Restore
    <2>6. CASE Copy
      BY <2>6 DEF Copy
    <2>7. CASE CopyFails
      BY <2>7 DEF CopyFails
    <2> QED
      BY <2>1, <2>2, <2>3, <2>4, <2>5, <2>6, <2>7 DEF Item
  <1>12. order' \in Seq(Paths)
    BY <1>1, <1>2, <1>11
  <1>13. TypeOK'
    BY <1>7, <1>9, <1>10, <1>11, <1>12 DEF TInv, TypeOK
  <1>14. /\ phase' \in {"compare", "link", "copy"} => job.action = "hardlink"
         /\ phase' = "unlink" => job.action # "dry-run"
    <2>1. job.action \in {"delete", "hardlink", "dry-run"}
      BY DuplicatesAssumption DEF TInv, TypeOK
    <2>2. CASE Take
      BY <2>1, <2>2 DEF Take, Turn
    <2>3. CASE Compare
      BY <2>3 DEF Compare, TInv, Deleted, Failed, Through
    <2>4. CASE Unlink
      BY <2>1, <2>4 DEF Unlink, TInv, Deleted, Through
    <2>5. CASE LinkFails
      BY <2>5 DEF LinkFails, Restore, TInv
    <2>6. CASE phase' = "clean"
      BY <2>6
    <2> QED
      BY <2>2, <2>3, <2>4, <2>5, <2>6
         DEF Item, Simulate, Skip, UnlinkFails, Link, Copy, CopyFails, Through, Deleted, Failed
  <1> QED
    BY <1>1, <1>11, <1>13, <1>14 DEF TInv, InItem

(* The other steps, of which one is that of another process.                 *)
LEMMA TInvRest ==
    ASSUME TInv, \/ Finish \/ Crash \/ Finished \/ UNCHANGED vars
                 \/ \E p \in Paths : Meddle(p)
    PROVE  TInv'
  <1>1. CASE Finish \/ Crash
    <2>1. UNCHANGED <<at, job, key, todo, report, left, primary, order, stats, meddling>>
          /\ phase' \in {"done", "stopped"}
      BY <1>1 DEF Finish, Crash, Mishap, searchVars, cleanVars, outside
    <2>2. mishaps' \in 0 .. Mishaps
      BY <1>1, DuplicatesAssumption DEF Finish, Crash, Mishap, outside, TInv, TypeOK
    <2>3. TypeOK'
      BY <2>1, <2>2 DEF TInv, TypeOK
    <2> QED
      BY <2>1, <2>3 DEF TInv, InItem
  <1>2. ASSUME NEW p \in Paths, Meddle(p) PROVE TInv'
    <2>1. UNCHANGED <<job, key, todo, report, left, primary, order, phase, stats, mishaps>>
      BY <1>2 DEF Meddle, searchVars, cleanVars
    <2>2. meddling' \in 0 .. Meddling
      BY <1>2, DuplicatesAssumption DEF Meddle, TInv, TypeOK
    <2>3. at' \in [Paths -> Files \cup {None}]
      <3>1. CASE at' = [at EXCEPT ![p] = None]
        BY <3>1 DEF TInv, TypeOK
      <3>2. ASSUME NEW d \in Data, NEW i \in NewIds,
                   at' = [at EXCEPT ![p] = [id |-> i, data |-> d, time |-> LastTime]]
            PROVE  at' \in [Paths -> Files \cup {None}]
        <4>1. [id |-> i, data |-> d, time |-> LastTime] \in Files
          BY DuplicatesAssumption DEF Files, NewIds
        <4> QED
          BY <3>2, <4>1 DEF TInv, TypeOK
      <3> QED
        BY <1>2, <3>1, <3>2 DEF Meddle
    <2>4. TypeOK'
      BY <2>1, <2>2, <2>3 DEF TInv, TypeOK
    <2> QED
      BY <2>1, <2>4 DEF TInv, InItem
  <1>3. CASE UNCHANGED vars
    <2>1. TypeOK'
      BY <1>3 DEF vars, searchVars, cleanVars, outside, TInv, TypeOK
    <2> QED
      BY <1>3, <2>1 DEF vars, searchVars, cleanVars, outside, TInv, InItem
  <1> QED
    BY <1>1, <1>2, <1>3 DEF Finished

(* Every step keeps the types. *)
LEMMA TInvNext == TInv /\ [Next]_vars => TInv'
  <1> SUFFICES ASSUME TInv, [Next]_vars PROVE TInv'
    OBVIOUS
  <1> QED
    BY TInvSearch, TInvBegin, TInvItem, TInvRest DEF Next, Clean, Item

(* Whatever the other processes do between the search and the cleaning and   *)
(* between two of its calls, the variables hold what the code can put there: *)
(* the path to keep is one of the directory's whenever a path is in turn.    *)
THEOREM TypeCorrectness == Spec => []TypeOK
  <1>1. TInv => TypeOK
    BY DEF TInv
  <1> QED
    BY <1>1, TInvInit, TInvNext, PTL DEF Spec

-----------------------------------------------------------------------------
(* What the search finds.                                                    *)

(* The paths a stage can read, as they were when the search began, and those *)
(* that share their content with another path.                               *)
Able(stage) == {p \in Paths : /\ was[p] # None /\ Size[was[p].data] \in Wanted
                              /\ stage # "size" => p \notin Unreadable}
Eligible    == Able("whole")
Class(p)    == {q \in Eligible : was[q].data = was[p].data}
Twins       == {p \in Eligible : \E q \in Eligible \ {p} : was[q].data = was[p].data}

(* The key of a content after each stage, and the stage before.              *)
KeyFrom(stage, d) ==
    CASE stage = "size"   -> SizeKey(d)
      [] stage = "sample" -> SampleKey(SizeKey(d), d)
      [] stage = "whole"  -> WholeKey(SampleKey(SizeKey(d), d), d)
Prior(stage) == IF stage = "whole" THEN "sample" ELSE "size"

Learnt(p, stage) == p \in Able(stage) /\ key[p] = KeyFrom(stage, was[p].data)

(* A path this stage has come to is known by what it could read, or out of   *)
(* the search; one that has a twin is never out of it.                       *)
KeysExact ==
    Searching => \A p \in Paths :
        IF p \in todo
        THEN IF phase = "size" THEN key[p] = NoKey ELSE Learnt(p, Prior(phase))
        ELSE /\ key[p] # NoKey => Learnt(p, phase)
             /\ p \in Twins => key[p] # NoKey

(* The groups are the classes of the paths that have a twin.                 *)
ReportIs == ~Searching /\ phase # "stopped" => report = {Class(p) : p \in Twins}

SInv == Undisturbed => KeysExact /\ ReportIs

(* No content has the key of a path that is out of the search, equal         *)
(* contents have equal keys, and after the last stage only they have.        *)
LEMMA KeysTell ==
    ASSUME NEW stage \in {"size", "sample", "whole"}, NEW d \in Data, NEW e \in Data
    PROVE  /\ KeyFrom(stage, d) # NoKey
           /\ KeyFrom("whole", d) = KeyFrom("whole", e) => d = e
  <1>1. Size[d] # None
    BY DuplicatesAssumption
  <1>2. KeyFrom(stage, d).size = Size[d]
    BY DEF KeyFrom, SizeKey, SampleKey, WholeKey, NoKey
  <1>3. NoKey.size = None
    BY DEF NoKey
  <1>4. KeyFrom("whole", d).whole = d /\ KeyFrom("whole", e).whole = e
    BY DEF KeyFrom, SizeKey, SampleKey, WholeKey, NoKey
  <1> QED
    BY <1>1, <1>2, <1>3, <1>4

(* What a path held when the search began was a file or none.                *)
LEMMA WasTyped ==
    ASSUME DInv, Undisturbed, NEW p \in Paths, was[p] # None
    PROVE  was[p] \in Files /\ was[p].data \in Data
  <1>1. was[p] \in Files
    BY DEF DInv, Typed
  <1> QED
    BY <1>1 DEF Files

(* What a stage reads of a path is the key of its content.                   *)
LEMMA SInvExamine ==
    ASSUME DInv, TInv, SInv, NEW p \in Paths, Examine(p)
    PROVE  SInv'
  <1> SUFFICES ASSUME Undisturbed PROVE KeysExact' /\ ReportIs'
    BY DEF SInv, Examine, outside, Undisturbed
  <1>1. Searching /\ Searching' /\ phase' = phase /\ was' = was
    BY DEF Examine, Searching, outside
  <1>2. at = was /\ KeysExact
    BY <1>1 DEF DInv, KeysTrue, SInv
  <1>3. Able("size")' = Able("size") /\ Able("sample")' = Able("sample")
           /\ Able("whole")' = Able("whole") /\ Twins' = Twins
    BY <1>1 DEF Able, Twins, Eligible
  <1>4. p \in todo /\ todo' = todo \ {p}
           /\ key' = [key EXCEPT ![p] = IF Usable(p) THEN KeyAt(p) ELSE NoKey]
    BY DEF Examine
  <1>5. key \in [Paths -> Keys]
    BY DEF TInv, TypeOK, Keys
  <1>6. \A q \in Paths \ {p} : key'[q] = key[q]
    BY <1>4, <1>5
  <1>7. key'[p] = IF Usable(p) THEN KeyAt(p) ELSE NoKey
    BY <1>4, <1>5
  <1>8. CASE phase = "size"
    <2>1. Usable(p) <=> p \in Able("size")
      BY <1>2, <1>8 DEF Usable, Able
    <2>2. KeyAt(p) = KeyFrom("size", was[p].data)
      BY <1>2, <1>8 DEF KeyAt, KeyFrom
    <2>3. key'[p] # NoKey => p \in Able("size") /\ key'[p] = KeyFrom("size", was[p].data)
      BY <1>7, <2>1, <2>2
    <2>4. p \in Twins => key'[p] # NoKey
      <3> SUFFICES ASSUME p \in Twins PROVE key'[p] # NoKey
        OBVIOUS
      <3>1. p \in Able("size") /\ was[p] # None
        BY DEF Twins, Eligible, Able
      <3> QED
        BY <1>7, <2>1, <2>2, <3>1, WasTyped, KeysTell
    <2>5. KeysExact'
      BY <1>1, <1>2, <1>3, <1>4, <1>6, <1>8, <2>3, <2>4 DEF KeysExact, Learnt
    <2> QED
      BY <1>1, <2>5 DEF ReportIs
  <1>9. CASE phase \in {"sample", "whole"}
    <2>1. Learnt(p, Prior(phase))
      BY <1>1, <1>2, <1>4, <1>9 DEF KeysExact
    <2>2. was[p] # None /\ Size[was[p].data] \in Wanted
      BY <2>1 DEF Learnt, Able
    <2>3. Usable(p) <=> p \in Able(phase)
      BY <1>2, <1>9, <2>2 DEF Usable, Able
    <2>4. KeyAt(p) = KeyFrom(phase, was[p].data)
      BY <1>2, <1>9, <2>1 DEF KeyAt, KeyFrom, Learnt, Prior
    <2>5. key'[p] # NoKey => p \in Able(phase) /\ key'[p] = KeyFrom(phase, was[p].data)
      BY <1>7, <2>3, <2>4
    <2>6. p \in Twins => key'[p] # NoKey
      <3> SUFFICES ASSUME p \in Twins PROVE key'[p] # NoKey
        OBVIOUS
      <3>1. p \in Able(phase)
        BY <1>9 DEF Twins, Eligible, Able
      <3> QED
        BY <1>7, <1>9, <2>2, <2>3, <2>4, <3>1, WasTyped, KeysTell
    <2>7. KeysExact'
      <3> SUFFICES ASSUME NEW q \in Paths
                   PROVE  IF q \in todo' THEN Learnt(q, Prior(phase))'
                          ELSE /\ key'[q] # NoKey => Learnt(q, phase)'
                               /\ q \in Twins => key'[q] # NoKey
        BY <1>1, <1>3, <1>9 DEF KeysExact
      <3>1. CASE q = p
        <4>1. (key'[p] # NoKey => Learnt(p, phase)')
          BY <1>1, <2>5 DEF Learnt, Able
        <4> QED
          BY <1>4, <2>6, <3>1, <4>1
      <3>2. CASE q # p
        <4>1. key'[q] = key[q]
          BY <1>6, <3>2
        <4>2. /\ Learnt(q, Prior(phase)) => Learnt(q, Prior(phase))'
              /\ Learnt(q, phase) => Learnt(q, phase)'
          BY <1>1, <4>1 DEF Learnt, Able, Prior
        <4> QED
          BY <1>1, <1>2, <1>4, <1>9, <3>2, <4>1, <4>2 DEF KeysExact
      <3> QED
        BY <3>1, <3>2
    <2> QED
      BY <1>1, <2>7 DEF ReportIs
  <1> QED
    BY <1>1, <1>8, <1>9 DEF Searching

(* After a stage everybody that is left in the search has been read, and two *)
(* twins are alike.                                                          *)
LEMMA StageOver ==
    ASSUME DInv, SInv, Undisturbed, Searching, todo = {}
    PROVE  /\ \A p \in Alike : p \in Paths /\ key[p] # NoKey /\ Learnt(p, phase)
           /\ Twins \subseteq Alike
  <1>1. KeysExact
    BY DEF SInv
  <1>2. \A p \in Alike : p \in Paths /\ key[p] # NoKey /\ Learnt(p, phase)
    BY <1>1 DEF Alike, KeysExact
  <1>3. ASSUME NEW p \in Twins PROVE p \in Alike
    <2>1. PICK q \in Eligible \ {p} : was[q].data = was[p].data
      BY DEF Twins
    <2>2. q \in Twins /\ p \in Paths /\ q \in Paths
      BY <2>1 DEF Twins, Eligible, Able
    <2>3. key[p] # NoKey /\ key[q] # NoKey
      BY <1>1, <2>2 DEF KeysExact
    <2>4. Learnt(p, phase) /\ Learnt(q, phase)
      BY <1>1, <2>2, <2>3 DEF KeysExact
    <2> QED
      BY <2>1, <2>2, <2>3, <2>4 DEF Learnt, Alike
  <1> QED
    BY <1>2, <1>3

(* Going on to the next stage forgets no group of equal contents.            *)
LEMMA SInvStage ==
    ASSUME DInv, TInv, SInv, NextStage
    PROVE  SInv'
  <1> SUFFICES ASSUME Undisturbed PROVE KeysExact' /\ ReportIs'
    BY DEF SInv, NextStage, outside, Undisturbed
  <1>1. /\ Searching /\ Searching' /\ was' = was /\ todo = {} /\ todo' = Alike
        /\ key' = [p \in Paths |-> IF p \in Alike THEN key[p] ELSE NoKey]
        /\ phase' \in {"sample", "whole"} /\ Prior(phase)' = phase
    BY DEF NextStage, Searching, outside, Prior
  <1>2. \A p \in Alike : p \in Paths /\ key[p] # NoKey /\ Learnt(p, phase)
    BY <1>1, StageOver
  <1>3. Twins \subseteq Alike /\ Twins' = Twins
    BY <1>1, StageOver DEF Twins, Eligible, Able
  <1>4. \A p \in Paths : key'[p] = IF p \in Alike THEN key[p] ELSE NoKey
    BY <1>1
  <1>5. ASSUME NEW p \in Alike PROVE Learnt(p, Prior(phase))'
    <2>1. Learnt(p, phase) /\ key'[p] = key[p]
      BY <1>2, <1>4
    <2>2. Able(Prior(phase))' = Able(phase)
      BY <1>1 DEF Able
    <2> QED
      BY <1>1, <2>1, <2>2 DEF Learnt
  <1>6. KeysExact'
    BY <1>1, <1>3, <1>4, <1>5 DEF KeysExact
  <1> QED
    BY <1>1, <1>6 DEF ReportIs

(* The whole content tells the paths apart, so the groups are the classes.   *)
LEMMA SInvReport ==
    ASSUME DInv, TInv, SInv, Report
    PROVE  SInv'
  <1> SUFFICES ASSUME Undisturbed PROVE KeysExact' /\ ReportIs'
    BY DEF SInv, Report, outside, Undisturbed
  <1>1. /\ Searching /\ ~Searching' /\ phase = "whole" /\ todo = {} /\ was' = was
        /\ report' = {{q \in Paths : key[q] = key[p]} : p \in Alike}
    BY DEF Report, Searching, outside
  <1>2. \A p \in Alike : p \in Paths /\ key[p] # NoKey /\ Learnt(p, "whole")
    BY <1>1, StageOver
  <1>3. Twins \subseteq Alike
    BY <1>1, StageOver
  <1>4. \A p \in Paths : key[p] # NoKey => Learnt(p, "whole")
    BY <1>1 DEF SInv, KeysExact
  <1>5. \A p \in Eligible : p \in Paths /\ was[p].data \in Data
    BY WasTyped DEF Eligible, Able
  <1>6. ASSUME NEW p \in Paths, NEW q \in Paths, key[p] # NoKey, key[q] = key[p]
        PROVE  p \in Eligible /\ q \in Eligible /\ was[q].data = was[p].data
    <2>1. Learnt(p, "whole") /\ Learnt(q, "whole")
      BY <1>4, <1>6
    <2>2. p \in Eligible /\ q \in Eligible
      BY <2>1 DEF Learnt, Eligible
    <2> QED
      BY <1>5, <1>6, <2>1, <2>2, KeysTell DEF Learnt
  <1>7. Alike = Twins
    <2>1. ASSUME NEW p \in Alike PROVE p \in Twins
      <3>1. p \in Paths /\ key[p] # NoKey
        BY <1>2
      <3>2. PICK q \in Paths \ {p} : key[q] = key[p]
        BY DEF Alike
      <3> QED
        BY <1>6, <3>1, <3>2 DEF Twins
    <2> QED
      BY <1>3, <2>1
  <1>8. ASSUME NEW p \in Twins PROVE {q \in Paths : key[q] = key[p]} = Class(p)
    <2>1. p \in Paths /\ key[p] # NoKey /\ Learnt(p, "whole") /\ p \in Eligible
      BY <1>2, <1>3 DEF Twins
    <2>2. ASSUME NEW q \in Paths, key[q] = key[p] PROVE q \in Class(p)
      BY <1>6, <2>1, <2>2 DEF Class
    <2>3. ASSUME NEW q \in Class(p) PROVE q \in Paths /\ key[q] = key[p]
      <3>1. q \in Eligible /\ was[q].data = was[p].data /\ q \in Paths
        BY <1>5 DEF Class
      <3>2. CASE q = p
        BY <2>1, <3>2
      <3>3. CASE q # p
        <4>1. q \in Twins
          BY <2>1, <3>1, <3>3 DEF Twins
        <4>2. Learnt(q, "whole")
          BY <1>2, <1>3, <4>1
        <4> QED
          BY <2>1, <3>1, <4>2 DEF Learnt
      <3> QED
        BY <3>2, <3>3
    <2> QED
      BY <2>2, <2>3
  <1>9. report' = {Class(p) : p \in Twins}
    <2> DEFINE K(p) == {q \in Paths : key[q] = key[p]}
    <2>1. report' = {K(p) : p \in Twins}
      BY <1>1, <1>7
    <2>2. \A p \in Twins : K(p) = Class(p)
      BY <1>8
    <2> HIDE DEF K
    <2> QED
      BY <2>1, <2>2
  <1>10. {Class(p) : p \in Twins}' = {Class(p) : p \in Twins}
    BY <1>1 DEF Class, Twins, Eligible, Able
  <1> QED
    BY <1>1, <1>9, <1>10 DEF KeysExact, ReportIs

(* The cleaning does not touch the report.                                   *)
LEMMA SInvNext == DInv /\ TInv /\ SInv /\ [Next]_vars => SInv'
  <1> SUFFICES ASSUME DInv, TInv, SInv, [Next]_vars PROVE SInv'
    OBVIOUS
  <1>1. ASSUME NEW p \in Paths, Examine(p) PROVE SInv'
    BY <1>1, SInvExamine
  <1>2. CASE NextStage \/ Report
    BY <1>2, SInvStage, SInvReport
  <1>3. ASSUME UNCHANGED <<report, was>>, meddling' = meddling,
               (~Searching /\ phase # "stopped") \/ phase' = "stopped",
               ~Searching'
        PROVE  SInv'
    <2> SUFFICES ASSUME Undisturbed PROVE KeysExact' /\ ReportIs'
      BY <1>3 DEF SInv, Undisturbed
    <2>1. {Class(p) : p \in Twins}' = {Class(p) : p \in Twins}
      BY <1>3 DEF Class, Twins, Eligible, Able
    <2> QED
      BY <1>3, <2>1 DEF SInv, KeysExact, ReportIs
  <1>4. ASSUME NEW g \in left, Begin(g) PROVE SInv'
    <2>1. ~Searching /\ phase # "stopped" /\ ~Searching'
      BY <1>4 DEF Begin, Searching
    <2> QED
      BY <1>3, <1>4, <2>1 DEF Begin, searchVars, outside
  <1>5. CASE Item
    <2>1. ~Searching /\ phase # "stopped"
      BY <1>5 DEF Item, Turn, Simulate, Skip, Take, Compare, Unlink, UnlinkFails, Link,
                  LinkFails, Copy, CopyFails, Searching
    <2>2. ~Searching'
      BY <1>5, ItemStep DEF Searching
    <2> QED
      BY <1>3, <1>5, <2>1, <2>2, ItemStep
  <1>6. CASE Finish \/ Crash
    BY <1>3, <1>6 DEF Finish, Crash, Mishap, searchVars, cleanVars, outside, Searching
  <1>7. ASSUME NEW p \in Paths, Meddle(p) PROVE SInv'
    BY <1>7, DuplicatesAssumption DEF Meddle, SInv, Undisturbed, TInv, TypeOK
  <1>8. CASE UNCHANGED vars
    <2>1. UNCHANGED <<todo, key, report, was, meddling, phase>>
      BY <1>8 DEF vars, searchVars, outside
    <2> QED
      BY <2>1 DEF SInv, Undisturbed, KeysExact, ReportIs, Searching, Learnt, Twins, Class,
                  Eligible, Able, Prior
  <1> QED
    BY <1>1, <1>2, <1>4, <1>5, <1>6, <1>7, <1>8 DEF Next, Clean, Item, Finished

(* Before anything was read, everything is still to be read.                 *)
LEMMA SInvInit == Init => SInv
  BY DEF Init, SInv, KeysExact, ReportIs, Searching

(* A set with two elements has more than one, and conversely.                *)
LEMMA Several ==
    ASSUME NEW S, IsFiniteSet(S)
    PROVE  Cardinality(S) > 1 <=> \E x, y \in S : x # y
  <1>1. ASSUME NEW x \in S, NEW y \in S, x # y PROVE Cardinality(S) > 1
    <2>1. Cardinality(S \ {x}) = Cardinality(S) - 1 /\ IsFiniteSet(S \ {x})
      BY FS_RemoveElement
    <2>2. Cardinality(S \ {x}) # 0 /\ Cardinality(S \ {x}) \in Nat /\ Cardinality(S) \in Nat
      BY <1>1, <2>1, FS_EmptySet, FS_CardinalityType
    <2> QED
      BY <2>1, <2>2
  <1>2. ASSUME Cardinality(S) > 1 PROVE \E x, y \in S : x # y
    <2>1. PICK x \in S : TRUE
      BY <1>2, FS_EmptySet
    <2>2. Cardinality(S \ {x}) = Cardinality(S) - 1 /\ IsFiniteSet(S \ {x})
      BY FS_RemoveElement
    <2>3. Cardinality(S) \in Nat
      BY FS_CardinalityType
    <2>4. S \ {x} # {}
      BY <1>2, <2>2, <2>3, FS_EmptySet
    <2> QED
      BY <2>4
  <1> QED
    BY <1>1, <1>2

(* The three stages find exactly the groups that comparing every pair of     *)
(* contents would find, for any sizes, samples and contents.                 *)
THEOREM SearchExact == Spec => []ReportExact
  <1>1. DInv /\ TInv /\ SInv => ReportExact
    <2> SUFFICES ASSUME DInv, TInv, SInv,
                        Undisturbed, phase = "clean", left = report, order = <<>>
                 PROVE  LET eligible == {p \in Paths \ Unreadable :
                                            at[p] # None /\ Size[at[p].data] \in Wanted}
                        IN  report = {g \in SUBSET eligible :
                                 /\ Cardinality(g) > 1
                                 /\ \A p \in g, q \in eligible :
                                        q \in g <=> DataAt(p) = DataAt(q)}
      BY DEF ReportExact
    <2>1. \A p \in Paths : at[p] = was[p]
      BY DEF DInv, Retained, Begun
    <2>2. {p \in Paths \ Unreadable : at[p] # None /\ Size[at[p].data] \in Wanted} = Eligible
      BY <2>1 DEF Eligible, Able
    <2>3. \A p \in Eligible : p \in Paths /\ DataAt(p) = was[p].data
      BY <2>1 DEF Eligible, Able, DataAt
    <2>4. report = {Class(p) : p \in Twins}
      BY DEF SInv, ReportIs, Searching
    <2>5. IsFiniteSet(Eligible)
      BY FS_Subset, DuplicatesAssumption DEF Eligible, Able
    <2>6. ASSUME NEW p \in Twins
          PROVE  /\ Class(p) \in SUBSET Eligible /\ Cardinality(Class(p)) > 1
                 /\ \A r \in Class(p), q \in Eligible : q \in Class(p) <=> DataAt(r) = DataAt(q)
      <3>1. PICK q \in Eligible \ {p} : was[q].data = was[p].data
        BY DEF Twins
      <3>2. p \in Class(p) /\ q \in Class(p) /\ p # q
        BY <3>1 DEF Class, Twins
      <3>3. Class(p) \in SUBSET Eligible
        BY DEF Class
      <3>4. IsFiniteSet(Class(p))
        BY <2>5, <3>3, FS_Subset
      <3>5. Cardinality(Class(p)) > 1
        BY <3>2, <3>4, Several
      <3>6. \A r \in Class(p), s \in Eligible : s \in Class(p) <=> DataAt(r) = DataAt(s)
        BY <2>3 DEF Class
      <3> QED
        BY <3>3, <3>5, <3>6
    <2>7. ASSUME NEW g \in SUBSET Eligible, Cardinality(g) > 1,
                 \A p \in g, q \in Eligible : q \in g <=> DataAt(p) = DataAt(q)
          PROVE  \E p \in Twins : g = Class(p)
      <3>1. IsFiniteSet(g)
        BY <2>5, FS_Subset
      <3>2. PICK p \in g, q \in g : p # q
        BY <2>7, <3>1, Several
      <3>3. p \in Twins
        BY <2>3, <2>7, <3>2 DEF Twins
      <3>4. g = Class(p)
        BY <2>3, <2>7 DEF Class
      <3> QED
        BY <3>3, <3>4
    <2>8. report = {g \in SUBSET Eligible :
                       /\ Cardinality(g) > 1
                       /\ \A p \in g, q \in Eligible : q \in g <=> DataAt(p) = DataAt(q)}
      BY <2>4, <2>6, <2>7
    <2> QED
      BY <2>2, <2>8
  <1> QED
    BY <1>1, DInvInit, DInvNext, TInvInit, TInvNext, SInvInit, SInvNext, PTL DEF Spec

-----------------------------------------------------------------------------
(* What the cleaning does to the groups.                                     *)

(* The strategy prefers q, as the two paths were when the search began.      *)
Better(q, p) ==
    \/ job.keep = "newest" /\ was[q].time > was[p].time
    \/ job.keep = "oldest" /\ was[q].time < was[p].time
    \/ q < p /\ (job.keep = "first" \/ was[q].time = was[p].time)

(* The paths that are left are different ones, the primary is better than    *)
(* each, and all but the current one are as they were.                       *)
Sorted ==
    /\ \A i, j \in 1 .. Len(order) : order[i] = order[j] => i = j
    /\ \A i \in 1 .. Len(order) :
           /\ Better(primary, order[i])
           /\ i > 1 \/ phase \notin {"link", "copy", "stopped"} => at[order[i]] = was[order[i]]
    /\ phase \in {"link", "copy"} => at[Dupe] = None

(* Paths without their content, but for the one that waits for a link or a   *)
(* copy: each cost two failures, and one more is spent when a copy is due.   *)
Lacking == {p \in Hurt : phase \in {"link", "copy"} => p # Dupe}
NamesTrue ==
    job.action # "delete" /\ phase # "stopped" =>
        /\ \A p \in Lacking : DataAt(p) \in {None, Torn}
        /\ Cardinality(Lacking) <= stats.failed
        /\ 2 * Cardinality(Lacking) + (IF phase = "copy" THEN 1 ELSE 0) <= Mishaps - mishaps

(* What is counted and what is to come make up the redundant paths.          *)
Removed == {p \in Paths : was[p] # None /\ at[p] = None}
Count ==
    phase # "stopped" =>
        /\ Searching => stats = NoStats
        /\ phase = "done" => left = {} /\ order = <<>>
        /\ stats.deleted + stats.failed + Len(order) + Cardinality(UNION left) + Cardinality(report)
               = Cardinality(UNION report) + Cardinality(left)
        /\ stats.found = stats.deleted + stats.failed + (IF InItem THEN 1 ELSE 0)
        /\ job.action = "delete" => stats.deleted = Cardinality(Removed)

CInv == Undisturbed => Sorted /\ NamesTrue /\ Count

(* Sets of paths, and of sets of paths, are finite. *)
LEMMA PathsFinite ==
    /\ \A S \in SUBSET Paths : IsFiniteSet(S) /\ Cardinality(S) \in Nat
    /\ \A G \in SUBSET SUBSET Paths : /\ IsFiniteSet(G) /\ Cardinality(G) \in Nat
                                      /\ Cardinality(UNION G) \in Nat /\ IsFiniteSet(UNION G)
  <1>1. \A S \in SUBSET Paths : IsFiniteSet(S) /\ Cardinality(S) \in Nat
    BY FS_Subset, FS_CardinalityType, DuplicatesAssumption
  <1>2. IsFiniteSet(SUBSET Paths)
    BY FS_SUBSET, DuplicatesAssumption
  <1>3. ASSUME NEW G \in SUBSET SUBSET Paths
        PROVE  /\ IsFiniteSet(G) /\ Cardinality(G) \in Nat
               /\ Cardinality(UNION G) \in Nat /\ IsFiniteSet(UNION G)
    <2>1. IsFiniteSet(G) /\ Cardinality(G) \in Nat
      BY <1>2, FS_Subset, FS_CardinalityType
    <2>2. UNION G \in SUBSET Paths
      OBVIOUS
    <2> QED
      BY <1>1, <2>1, <2>2
  <1> QED
    BY <1>1, <1>3

(* While the search runs nothing is removed and nothing counted.             *)
LEMMA CInvInit == Init => CInv
  <1> SUFFICES ASSUME Init PROVE Sorted /\ NamesTrue /\ Count
    BY DEF CInv
  <1>1. at = was /\ order = <<>> /\ report = {} /\ left = {} /\ stats = NoStats
           /\ phase = "size"
    BY DEF Init
  <1>2. Sorted
    BY <1>1 DEF Sorted
  <1>3. NamesTrue
    <2>1. Lacking = {}
      BY <1>1 DEF Lacking, Hurt, DataAt, WasAt
    <2>2. Cardinality(Lacking) = 0 /\ stats.failed = 0 /\ mishaps = Mishaps
      BY <1>1, <2>1, FS_EmptySet DEF NoStats, Init
    <2> QED
      BY <1>1, <2>1, <2>2, DuplicatesAssumption DEF NamesTrue
  <1>4. Cardinality(Removed) = 0 /\ Len(order) = 0 /\ Cardinality(report) = 0
           /\ Cardinality(UNION report) = 0
    BY <1>1, FS_EmptySet DEF Removed
  <1>5. stats.deleted = 0 /\ stats.failed = 0 /\ stats.found = 0
    BY <1>1 DEF NoStats
  <1>6. Count
    BY <1>1, <1>4, <1>5 DEF Count, InItem
  <1> QED
    BY <1>2, <1>3, <1>6

(* Until the cleaning begins there is nothing to count.                      *)
LEMMA CInvSearch ==
    ASSUME DInv, TInv, TInv', CInv, (\E p \in Paths : Examine(p)) \/ NextStage \/ Report
    PROVE  CInv'
  <1> SUFFICES ASSUME Undisturbed PROVE (Sorted /\ NamesTrue /\ Count)'
    BY DEF CInv, Examine, NextStage, Report, outside, Undisturbed
  <1>1. /\ Searching /\ UNCHANGED <<at, was, order, stats>>
        /\ phase' \in {"size", "sample", "whole", "clean"}
        /\ (report' = report /\ left' = left) \/ left' = report'
    BY DEF Examine, NextStage, Report, outside, cleanVars, Searching
  <1>2. /\ at' = was' /\ order' = <<>> /\ left' = report' /\ stats' = stats
        /\ stats = NoStats
    BY <1>1 DEF DInv, Shape, KeysTrue, CInv, Count, Searching
  <1>3. Sorted'
    BY <1>1, <1>2 DEF Sorted
  <1>4. NamesTrue'
    <2>1. Lacking' = {}
      BY <1>2 DEF Lacking, Hurt, DataAt, WasAt
    <2>2. Cardinality(Lacking') = 0 /\ stats'.failed = 0
      BY <1>2, <2>1, FS_EmptySet DEF NoStats
    <2>3. mishaps' \in Nat /\ mishaps' <= Mishaps /\ Mishaps \in Nat
      BY DuplicatesAssumption DEF TInv, TypeOK
    <2> QED
      BY <1>1, <2>1, <2>2, <2>3 DEF NamesTrue
  <1>5. Cardinality(Removed') = 0 /\ Len(order') = 0
    BY <1>2, FS_EmptySet DEF Removed
  <1>6. stats.deleted = 0 /\ stats.failed = 0 /\ stats.found = 0
    BY <1>2 DEF NoStats
  <1>7. Cardinality(UNION report') \in Nat /\ Cardinality(report') \in Nat
    BY PathsFinite DEF TInv, TypeOK
  <1>8. Count'
    <2>1. stats'.deleted + stats'.failed + Len(order') + Cardinality(UNION left')
              + Cardinality(report') = Cardinality(UNION report') + Cardinality(left')
      BY <1>2, <1>5, <1>6, <1>7
    <2> QED
      BY <1>1, <1>2, <1>5, <1>6, <2>1 DEF Count, InItem, NoStats
  <1> QED
    BY <1>3, <1>4, <1>8

(* What the sort leaves after the first path.                                *)
LEMMA RestOfOrder ==
    ASSUME NEW g \in SUBSET Paths, g # {}, NEW s \in Orders(g),
           at \in [Paths -> Files \cup {None}], job.keep \in {"first", "newest", "oldest"},
           job.keep = "first" \/ \A p \in g : at[p] # None
    PROVE  /\ Len(Tail(s)) = Cardinality(g) - 1 /\ Cardinality(g) \in Nat
           /\ \A i \in 1 .. Len(Tail(s)) : Tail(s)[i] \in g /\ Before(s[1], Tail(s)[i])
           /\ \A i, j \in 1 .. Len(Tail(s)) : Tail(s)[i] = Tail(s)[j] => i = j
  <1>1. Cardinality(g) \in Nat /\ Cardinality(g) # 0
    BY PathsFinite, FS_EmptySet
  <1>2. PICK n \in Nat : n = Cardinality(g) /\ n # 0
    BY <1>1
  <1>3. s \in [1 .. n -> g] /\ \A i, j \in 1 .. n : i < j => Before(s[i], s[j])
    BY <1>2 DEF Orders
  <1>4. s \in Seq(g) /\ Len(s) = n /\ s # <<>>
    BY <1>2, <1>3
  <1>5. /\ Len(Tail(s)) = n - 1
        /\ \A i \in 1 .. n - 1 : Tail(s)[i] = s[i + 1]
    BY <1>2, <1>4
  <1>6. \A i, j \in 1 .. n : s[i] = s[j] => i = j
    <2> SUFFICES ASSUME NEW i \in 1 .. n, NEW j \in 1 .. n, s[i] = s[j], i < j
                 PROVE  FALSE
      BY <1>2
    <2>1. Before(s[i], s[j]) /\ s[i] \in g
      BY <1>3
    <2> QED
      BY <2>1, NotBeforeItself
  <1>7. ASSUME NEW i \in 1 .. n - 1 PROVE Tail(s)[i] \in g /\ Before(s[1], Tail(s)[i])
    <2>1. i + 1 \in 1 .. n /\ 1 \in 1 .. n /\ 1 < i + 1
      BY <1>2
    <2> QED
      BY <1>3, <1>5, <2>1
  <1>8. ASSUME NEW i \in 1 .. n - 1, NEW j \in 1 .. n - 1, Tail(s)[i] = Tail(s)[j]
        PROVE  i = j
    <2>1. i + 1 \in 1 .. n /\ j + 1 \in 1 .. n
      BY <1>2
    <2>2. i + 1 = j + 1
      BY <1>5, <1>6, <1>8, <2>1
    <2> QED
      BY <2>2
  <1> QED
    BY <1>1, <1>2, <1>5, <1>7, <1>8

(* A group that is begun is untouched, and leaves the rest of the groups.    *)
LEMMA CInvBegin ==
    ASSUME DInv, TInv, CInv, NEW g \in left, Begin(g)
    PROVE  CInv'
  <1> SUFFICES ASSUME Undisturbed PROVE (Sorted /\ NamesTrue /\ Count)'
    BY DEF CInv, Begin, outside, Undisturbed
  <1>1. /\ phase = "clean" /\ order = <<>> /\ left' = left \ {g}
        /\ UNCHANGED <<at, was, job, report, stats, mishaps>>
    BY DEF Begin, outside, searchVars
  <1>2. Sorted /\ NamesTrue /\ Count
    BY DEF CInv
  <1>3. CASE phase' = "stopped" /\ order' = order
    BY <1>1, <1>3 DEF Sorted, NamesTrue, Count
  <1>4. ASSUME NEW s \in Orders(g), primary' = s[1], order' = Tail(s), phase' = phase,
               job.keep = "first" \/ \A p \in g : at[p] # None
        PROVE  (Sorted /\ NamesTrue /\ Count)'
    <2>1. g \in SUBSET Paths /\ g # {} /\ g \in report
      BY DEF TInv, TypeOK
    <2>2. at \in [Paths -> Files \cup {None}] /\ job.keep \in {"first", "newest", "oldest"}
      BY DuplicatesAssumption DEF TInv, TypeOK
    <2>3. \A p \in g : at[p] = was[p] /\ was[p] # None
      BY <2>1 DEF DInv, Retained, Pure, Begun
    <2>4. /\ Len(order') = Cardinality(g) - 1 /\ Cardinality(g) \in Nat
          /\ \A i \in 1 .. Len(order') : order'[i] \in g /\ Before(s[1], order'[i])
          /\ \A i, j \in 1 .. Len(order') : order'[i] = order'[j] => i = j
      BY <1>4, <2>1, <2>2, RestOfOrder
    <2>5. s[1] \in g
      BY <1>4, <2>1, <2>2, FirstOfOrder
    <2>6. ASSUME NEW p \in g, NEW q \in g, Before(q, p) PROVE Better(q, p)
      <3>1. p \in Nat /\ q \in Nat
        BY <2>1, DuplicatesAssumption
      <3>2. was[p].time \in Nat /\ was[q].time \in Nat
        BY <2>1, <2>2, <2>3, DuplicatesAssumption DEF Files
      <3>3. at[p] = was[p] /\ at[q] = was[q]
        BY <2>3
      <3>4. CASE job.keep = "first"
        BY <2>6, <3>4 DEF Before, Better
      <3>5. CASE job.keep = "newest"
        BY <2>6, <3>1, <3>2, <3>3, <3>5 DEF Before, Better
      <3>6. CASE job.keep = "oldest"
        BY <2>6, <3>1, <3>2, <3>3, <3>6 DEF Before, Better
      <3> QED
        BY <2>2, <3>4, <3>5, <3>6
    <2>7. Sorted'
      <3>1. \A i \in 1 .. Len(order') : Better(primary', order'[i])
        BY <1>4, <2>4, <2>5, <2>6
      <3>2. \A i \in 1 .. Len(order') : Better(primary, order[i])'
        BY <1>1, <3>1 DEF Better
      <3> QED
        BY <1>1, <1>4, <2>3, <2>4, <3>2 DEF Sorted
    <2>8. NamesTrue'
      <3>1. Lacking' = Lacking /\ Lacking \subseteq Paths
        BY <1>1, <1>4 DEF Lacking, Hurt, DataAt, WasAt
      <3> QED
        BY <1>1, <1>2, <1>4, <3>1 DEF NamesTrue, DataAt
    <2>9. Count'
      <3>1. left \in SUBSET SUBSET Paths /\ left' \in SUBSET SUBSET Paths
            /\ report \in SUBSET SUBSET Paths
        BY <1>1 DEF TInv, TypeOK
      <3>2. Cardinality(left') = Cardinality(left) - 1
        BY <1>1, <3>1, PathsFinite, FS_RemoveElement
      <3>3. UNION left = (UNION left') \cup g /\ (UNION left') \cap g = {}
        BY <1>1, <2>1 DEF DInv, Pure
      <3>4. Cardinality(UNION left) = Cardinality(UNION left') + Cardinality(g)
        <4>1. IsFiniteSet(UNION left') /\ IsFiniteSet(g)
          BY <2>1, <3>1, PathsFinite
        <4>2. Cardinality(UNION left) = Cardinality(UNION left') + Cardinality(g) - Cardinality({})
          BY <3>3, <4>1, FS_Union
        <4>3. Cardinality(UNION left') \in Nat
          BY <3>1, PathsFinite
        <4> QED
          BY <2>4, <4>2, <4>3, FS_EmptySet
      <3>5. /\ Cardinality(left) \in Nat /\ Cardinality(UNION left') \in Nat
            /\ Cardinality(report) \in Nat /\ Cardinality(UNION report) \in Nat
        BY <3>1, PathsFinite
      <3>6. stats.deleted \in Nat /\ stats.failed \in Nat
        BY DEF TInv, TypeOK
      <3>7. Len(order) = 0
        BY <1>1
      <3>8. stats.deleted + stats.failed + Len(order') + Cardinality(UNION left')
                + Cardinality(report) = Cardinality(UNION report) + Cardinality(left')
        <4>1. stats.deleted + stats.failed + Len(order) + Cardinality(UNION left)
                  + Cardinality(report) = Cardinality(UNION report) + Cardinality(left)
          BY <1>1, <1>2 DEF Count
        <4>2. PICK k \in Nat, l \in Nat, u \in Nat :
                  k = Cardinality(g) /\ l = Cardinality(left) /\ u = Cardinality(UNION left')
          BY <2>4, <3>5
        <4>3. PICK r \in Nat, v \in Nat :
                  r = Cardinality(report) /\ v = Cardinality(UNION report)
          BY <3>5
        <4>4. PICK d \in Nat, f \in Nat : d = stats.deleted /\ f = stats.failed
          BY <3>6
        <4>5. d + f + 0 + (u + k) + r = v + l
          BY <3>4, <3>7, <4>1, <4>2, <4>3, <4>4
        <4>6. d + f + (k - 1) + u + r = v + (l - 1)
          BY <4>5
        <4> QED
          BY <2>4, <3>2, <4>2, <4>3, <4>4, <4>6
      <3> QED
        BY <1>1, <1>2, <1>4, <3>8 DEF Count, InItem, Searching, Removed
    <2> QED
      BY <2>7, <2>8, <2>9
  <1> QED
    BY <1>3, <1>4 DEF Begin

(* The path in turn is the first of those that are left; its content is the  *)
(* primary's, which is as it was.                                            *)
LEMMA TurnFacts ==
    ASSUME DInv, TInv, CInv, Undisturbed, order # <<>>
    PROVE  /\ Dupe = order[1] /\ Dupe \in Paths /\ primary \in Paths /\ Dupe # primary
           /\ Len(order) \in Nat /\ Len(order) >= 1 /\ Len(Tail(order)) = Len(order) - 1
           /\ \A i \in 1 .. Len(order) - 1 : Tail(order)[i] = order[i + 1] /\ i + 1 \in 1 .. Len(order)
           /\ \A i \in 2 .. Len(order) : order[i] # Dupe /\ order[i] \in Paths
           /\ was[Dupe] # None /\ at[primary] = was[primary] /\ was[primary] # None
           /\ was[primary].data = was[Dupe].data
  <1>1. order \in Seq(Paths) /\ primary \in Paths
    BY DEF TInv, TypeOK
  <1>2. Dupe = order[1]
    BY DEF Dupe
  <1>3. Len(order) \in Nat /\ Len(order) >= 1
    BY <1>1, EmptySeq
  <1>4. Len(Tail(order)) = Len(order) - 1
           /\ \A i \in 1 .. Len(Tail(order)) : Tail(order)[i] = order[i + 1]
    BY <1>1, HeadTailProperties
  <1>5. \A i \in 1 .. Len(order) - 1 : Tail(order)[i] = order[i + 1] /\ i + 1 \in 1 .. Len(order)
    BY <1>3, <1>4
  <1>6. \A i \in 2 .. Len(order) : order[i] # Dupe /\ order[i] \in Paths
    BY <1>1, <1>2, <1>3 DEF CInv, Sorted
  <1>7. PICK g \in Begun : Dupe \in g /\ primary \in g /\ Dupe # primary /\ at[primary] = was[primary]
    BY InTurn
  <1>8. was[Dupe] # None /\ was[primary] # None /\ was[primary].data = was[Dupe].data
    BY <1>7 DEF DInv, Pure, Begun
  <1> QED
    BY <1>1, <1>2, <1>3, <1>4, <1>5, <1>6, <1>7, <1>8, InTurn

(* What the steps on a path have in common.                                  *)
LEMMA ItemFacts ==
    ASSUME DInv, TInv, CInv, Undisturbed, Item
    PROVE  /\ order # <<>> /\ phase \in {"clean", "compare", "unlink", "link", "copy"}
           /\ at \in [Paths -> Files \cup {None}]
           /\ \A p \in Paths \ {Dupe} : at'[p] = at[p]
           /\ UNCHANGED <<job, report, left, primary, was>>
           /\ \/ phase' = "clean" /\ order' = Tail(order)
              \/ phase' \in {"compare", "unlink", "link", "copy"} /\ order' = order
  <1>1. phase \in {"clean", "compare", "unlink", "link", "copy"}
    BY DEF Item, Turn, Simulate, Skip, Take, Compare, Unlink, UnlinkFails, Link, LinkFails,
           Copy, CopyFails
  <1>2. at \in [Paths -> Files \cup {None}]
    BY DEF TInv, TypeOK
  <1>3. \A p \in Paths \ {Dupe} : at'[p] = at[p]
    BY <1>2, ItemStep DEF Put
  <1> QED
    BY <1>1, <1>2, <1>3, ItemStep

(* The path in turn is the only one that changes.                            *)
LEMMA SortedItem ==
    ASSUME DInv, TInv, CInv, Undisturbed, Item
    PROVE  Sorted'
  <1>1. /\ order # <<>> /\ phase \in {"clean", "compare", "unlink", "link", "copy"}
        /\ \A p \in Paths \ {Dupe} : at'[p] = at[p]
        /\ UNCHANGED <<job, report, left, primary, was>>
    BY ItemFacts
  <1>2. /\ Dupe = order[1] /\ Len(order) \in Nat /\ Len(order) >= 1
        /\ Len(Tail(order)) = Len(order) - 1
        /\ \A i \in 1 .. Len(order) - 1 : Tail(order)[i] = order[i + 1] /\ i + 1 \in 1 .. Len(order)
        /\ \A i \in 2 .. Len(order) : order[i] # Dupe /\ order[i] \in Paths
    BY <1>1, TurnFacts
  <1>3. Sorted
    BY DEF CInv
  <1>4. \A p \in Paths : Better(primary, p)' <=> Better(primary, p)
    BY <1>1 DEF Better
  <1>5. \A i \in 2 .. Len(order) : at'[order[i]] = was[order[i]]
    BY <1>1, <1>2, <1>3 DEF Sorted
  <1>6. \A i \in 1 .. Len(order) : Better(primary, order[i])
    BY <1>3 DEF Sorted
  <1>7. \A i, j \in 1 .. Len(order) : order[i] = order[j] => i = j
    BY <1>3 DEF Sorted
  <1>8. CASE phase' = "clean" /\ order' = Tail(order)
    <2>1. \A i \in 1 .. Len(order') : i + 1 \in 2 .. Len(order) /\ i + 1 \in 1 .. Len(order)
                                         /\ order'[i] = order[i + 1]
      BY <1>2, <1>8
    <2>2. ASSUME NEW i \in 1 .. Len(order'), NEW j \in 1 .. Len(order'), order'[i] = order'[j]
          PROVE  i = j
      <3>1. i + 1 = j + 1
        BY <1>7, <2>1, <2>2
      <3> QED
        BY <1>2, <1>8, <3>1
    <2>3. \A i \in 1 .. Len(order') : Better(primary, order[i])'
      BY <1>1, <1>6, <2>1 DEF Better
    <2>4. \A i \in 1 .. Len(order') : at'[order'[i]] = was'[order'[i]]
      BY <1>1, <1>5, <2>1
    <2> QED
      BY <1>8, <2>2, <2>3, <2>4 DEF Sorted
  <1>9. CASE phase' \in {"compare", "unlink", "link", "copy"} /\ order' = order
    <2>1. \A i \in 1 .. Len(order') : Better(primary, order[i])'
      BY <1>1, <1>6, <1>9 DEF Better
    <2>2. \A i \in 2 .. Len(order') : at'[order'[i]] = was'[order'[i]]
      BY <1>1, <1>5, <1>9
    <2>3. CASE Unlink
      <3>1. at'[Dupe] = None
        BY <1>1, <2>3, TurnFacts, ItemFacts DEF Unlink, Put
      <3>2. phase' = "link"
        BY <1>9, <2>3 DEF Unlink, Deleted, Through
      <3>3. Dupe' = Dupe
        BY <1>9 DEF Dupe
      <3> QED
        BY <1>2, <1>7, <1>9, <2>1, <2>2, <3>1, <3>2, <3>3 DEF Sorted
    <2>4. CASE LinkFails
      <3>1. at'[Dupe] = None /\ phase' = "copy"
        BY <1>3, <2>4 DEF LinkFails, Restore, Sorted
      <3>2. Dupe' = Dupe
        BY <1>9 DEF Dupe
      <3> QED
        BY <1>2, <1>7, <1>9, <2>1, <2>2, <3>1, <3>2 DEF Sorted
    <2>5. CASE ~Unlink /\ ~LinkFails
      <3>1. Take \/ Compare
        BY <1>9, <2>5 DEF Item, Simulate, Skip, UnlinkFails, Link, Copy, CopyFails, Through,
                          Deleted, Failed
      <3>2. at' = at /\ phase \in {"clean", "compare"} /\ phase' \in {"compare", "unlink"}
        BY <1>9, <3>1 DEF Take, Compare, Turn, Deleted, Failed, Through
      <3>3. at'[order[1]] = was[order[1]]
        BY <1>2, <1>3, <3>2 DEF Sorted
      <3>4. \A i \in 1 .. Len(order') : at'[order'[i]] = was'[order'[i]]
        BY <1>1, <1>2, <1>9, <2>2, <3>3
      <3> QED
        BY <1>7, <1>9, <2>1, <3>2, <3>4 DEF Sorted
    <2> QED
      BY <2>3, <2>4, <2>5
  <1> QED
    BY <1>8, <1>9, ItemFacts

(* A copy is written to an inode.                                            *)
LEMMA TargetIds ==
    ASSUME at \in [Paths -> Files \cup {None}], Dupe \in Paths
    PROVE  Target \subseteq Ids
  BY DEF Target, NewIds, Files

(* A link and a copy give the path in turn the content it had; it goes       *)
(* without only when both have failed.                                       *)
LEMMA NamesItem ==
    ASSUME DInv, TInv, TInv', CInv, Undisturbed, Item
    PROVE  NamesTrue'
  <1>1. /\ order # <<>> /\ phase \in {"clean", "compare", "unlink", "link", "copy"}
        /\ at \in [Paths -> Files \cup {None}]
        /\ \A p \in Paths \ {Dupe} : at'[p] = at[p]
        /\ UNCHANGED <<job, report, left, primary, was>>
    BY ItemFacts
  <1>2. /\ Dupe \in Paths /\ at[primary] \in Files /\ primary \in Paths /\ was[Dupe] # None
        /\ at[primary].data = was[Dupe].data
        /\ phase \in {"link", "copy"} => at[Dupe] = None
    BY <1>1, TurnFacts DEF CInv, Sorted
  <1>3. PICK f \in Nat, m \in Nat, f1 \in Nat, m1 \in Nat :
            f = stats.failed /\ m = mishaps /\ f1 = stats'.failed /\ m1 = mishaps'
    <2>1. stats.failed \in Nat /\ stats'.failed \in Nat /\ mishaps \in Nat /\ mishaps' \in Nat
      BY DEF TInv, TypeOK
    <2> QED
      BY <2>1
  <1>4. PICK x \in Paths : x = Dupe
    BY <1>2
  <1>5. \A p \in Paths : /\ p # x => DataAt(p)' = DataAt(p) /\ (p \in Hurt' <=> p \in Hurt)
                         /\ at' = at => DataAt(p)' = DataAt(p) /\ (p \in Hurt' <=> p \in Hurt)
    <2> SUFFICES ASSUME NEW p \in Paths, p # x \/ at' = at
                 PROVE  DataAt(p)' = DataAt(p) /\ (p \in Hurt' <=> p \in Hurt)
      OBVIOUS
    <2>1. at'[p] = at[p] /\ was' = was
      BY <1>1, <1>4
    <2> QED
      BY <2>1 DEF Hurt, DataAt, WasAt
  <1>6. /\ Lacking \subseteq Paths /\ Lacking' \subseteq Paths
        /\ order' = order => Dupe' = x
    BY <1>4 DEF Lacking, Hurt, Dupe
  <1>7. PICK h \in Nat, h1 \in Nat : h = Cardinality(Lacking) /\ h1 = Cardinality(Lacking')
    BY <1>6, PathsFinite
  <1> SUFFICES ASSUME job.action # "delete"
               PROVE  /\ \A p \in Lacking' : DataAt(p)' \in {None, Torn}
                      /\ h1 <= f1
                      /\ 2 * h1 + (IF phase' = "copy" THEN 1 ELSE 0) <= Mishaps - m1
    BY <1>1, <1>3, <1>7 DEF NamesTrue
  <1>8. /\ \A p \in Lacking : DataAt(p) \in {None, Torn}
        /\ h <= f
        /\ 2 * h + (IF phase = "copy" THEN 1 ELSE 0) <= Mishaps - m
        /\ Mishaps \in Nat
    BY <1>1, <1>3, <1>7, DuplicatesAssumption DEF CInv, NamesTrue
  <1>9. /\ m1 = m \/ m1 = m - 1
        /\ f1 = f \/ f1 = f + 1
        /\ Failed => f1 = f + 1
        /\ Mishap => m1 = m - 1
    <2>1. ASSUME NEW c, Tally(c) PROVE f1 = f + (IF "failed" \in c THEN 1 ELSE 0)
      BY <1>3, <2>1 DEF Tally, TInv, TypeOK
    <2>2. f1 = f \/ f1 = f + 1
      <3>1. stats' = stats \/ \E c : Tally(c)
        BY DEF Item, Simulate, Skip, Take, Compare, Unlink, UnlinkFails, Link, LinkFails,
               Restore, Copy, CopyFails, Deleted, Failed
      <3> QED
        BY <1>3, <2>1, <3>1
    <2>3. m1 = m \/ m1 = m - 1
      BY <1>3 DEF Item, Simulate, Skip, Take, Compare, Unlink, UnlinkFails, Link, LinkFails,
                  Copy, CopyFails, Mishap, Calm, outside
    <2> QED
      BY <1>3, <2>1, <2>2, <2>3 DEF Failed, Mishap
  (* No path loses its content for good, and no copy is due.                  *)
  <1>10. ASSUME Lacking' \subseteq Lacking, Dupe \notin Lacking' \/ at' = at,
                phase' # "copy"
         PROVE  /\ \A p \in Lacking' : DataAt(p)' \in {None, Torn}
                /\ h1 <= f1
                /\ 2 * h1 + (IF phase' = "copy" THEN 1 ELSE 0) <= Mishaps - m1
    <2>1. h1 <= h
      BY <1>6, <1>7, <1>10, PathsFinite, FS_Subset
    <2>2. \A p \in Lacking' : DataAt(p)' \in {None, Torn}
      BY <1>4, <1>5, <1>6, <1>8, <1>10
    <2> QED
      BY <1>8, <1>9, <1>10, <2>1, <2>2
  <1>11. CASE Simulate \/ Skip \/ Take \/ Compare \/ UnlinkFails
    <2>1. at' = at /\ phase \notin {"link", "copy"} /\ phase' \notin {"link", "copy"}
      BY <1>11 DEF Simulate, Skip, Take, Compare, UnlinkFails, Turn, Through, Deleted, Failed
    <2> QED
      BY <1>4, <1>5, <1>6, <1>10, <2>1 DEF Lacking
  <1>12. CASE Unlink
    <2>1. phase = "unlink" /\ phase' = "link" /\ order' = order
      BY <1>12 DEF Unlink
    <2>2. Dupe \notin Lacking' /\ Lacking' \subseteq Lacking
      BY <1>4, <1>5, <1>6, <2>1 DEF Lacking
    <2> QED
      BY <1>10, <2>1, <2>2
  <1>13. ASSUME phase \in {"link", "copy"}, phase' = "clean", at'[Dupe] \in Files,
                at'[Dupe].data = was[Dupe].data
         PROVE  Lacking' \subseteq Lacking /\ Dupe \notin Lacking'
    <2>1. Dupe \notin Hurt'
      BY <1>1, <1>2, <1>13, DuplicatesAssumption DEF Hurt, DataAt, WasAt
    <2> QED
      BY <1>4, <1>5, <1>6, <1>13, <2>1 DEF Lacking
  <1>14. CASE Link
    <2>1. phase = "link" /\ phase' = "clean" /\ at'[Dupe] = at[primary]
      BY <1>1, <1>2, <1>14 DEF Link, Put, Deleted, Through
    <2> QED
      BY <1>2, <1>10, <1>13, <2>1
  <1>15. CASE LinkFails
    <2>1. phase = "link" /\ phase' = "copy" /\ order' = order /\ at' = at
      BY <1>15 DEF LinkFails, Restore
    <2>2. m1 = m - 1
      BY <1>2, <1>9, <1>15, DuplicatesAssumption DEF LinkFails
    <2>3. Lacking' \subseteq Lacking /\ h1 <= h
      BY <1>4, <1>5, <1>6, <1>7, <2>1, PathsFinite, FS_Subset DEF Lacking
    <2>4. \A p \in Lacking' : DataAt(p)' \in {None, Torn}
      BY <1>4, <1>5, <1>6, <1>8, <2>1, <2>3
    <2> QED
      BY <1>8, <1>9, <2>1, <2>2, <2>3, <2>4
  <1>16. CASE Copy
    <2>1. PICK i \in Target : Put([at[primary] EXCEPT !.id = i])
      BY <1>16 DEF Copy
    <2>2. at'[Dupe] = [at[primary] EXCEPT !.id = i] /\ i \in Ids
      BY <1>1, <1>2, <2>1, TargetIds DEF Put
    <2>3. at'[Dupe] \in Files /\ at'[Dupe].data = was[Dupe].data
      BY <1>2, <2>2 DEF Files
    <2>4. phase = "copy" /\ phase' = "clean"
      BY <1>16 DEF Copy, Failed, Through
    <2> QED
      BY <1>10, <1>13, <2>3, <2>4
  <1>17. CASE CopyFails
    <2>1. /\ phase = "copy" /\ phase' = "clean" /\ f1 = f + 1 /\ m1 = m - 1 /\ LeaveCopy
      BY <1>2, <1>9, <1>17, DuplicatesAssumption DEF CopyFails, Failed, Through, Files
    <2>2. Lacking' \subseteq Lacking \cup {Dupe} /\ Dupe \notin Lacking
      BY <1>4, <1>5, <1>6, <2>1 DEF Lacking
    <2>3. h1 <= h + 1
      <3>1. IsFiniteSet(Lacking) /\ Lacking \cup {Dupe} \in SUBSET Paths
        BY <1>2, <1>6, PathsFinite
      <3>2. Cardinality(Lacking \cup {Dupe}) = h + 1 /\ IsFiniteSet(Lacking \cup {Dupe})
        BY <1>7, <2>2, <3>1, PathsFinite, FS_AddElement
      <3> QED
        BY <1>7, <2>2, <3>2, FS_Subset
    <2>4. \/ DataAt(x)' \in {None, Torn}
          \/ at'[Dupe] \in Files /\ at'[Dupe].data = was[Dupe].data
      <3>1. CASE at' = at
        BY <1>2, <1>4, <2>1, <3>1 DEF DataAt
      <3>2. ASSUME NEW i \in Target, NEW d \in {Torn, at[primary].data},
                   Put([id |-> i, data |-> d, time |-> LastTime])
            PROVE  \/ DataAt(x)' \in {None, Torn}
                   \/ at'[Dupe] \in Files /\ at'[Dupe].data = was[Dupe].data
        <4>1. at'[Dupe] = [id |-> i, data |-> d, time |-> LastTime] /\ i \in Ids
          BY <1>1, <1>2, <3>2, TargetIds DEF Put
        <4>2. at'[Dupe] \in Files /\ at'[Dupe].data = d
          BY <1>2, <4>1, DuplicatesAssumption DEF Files
        <4> QED
          BY <1>2, <1>4, <4>2, DuplicatesAssumption DEF DataAt
      <3> QED
        BY <2>1, <3>1, <3>2 DEF LeaveCopy
    <2>5. x \in Lacking' => DataAt(x)' \in {None, Torn}
      BY <1>4, <1>13, <2>1, <2>4
    <2>6. \A p \in Lacking' : DataAt(p)' \in {None, Torn}
      BY <1>4, <1>5, <1>6, <1>8, <2>2, <2>5
    <2> QED
      BY <1>8, <2>1, <2>3, <2>6
  <1> QED
    BY <1>11, <1>12, <1>14, <1>15, <1>16, <1>17 DEF Item

(* Every step counts the path it is through with, once.                      *)
LEMMA CountItem ==
    ASSUME DInv, TInv, CInv, Undisturbed, Item
    PROVE  Count'
  <1>1. /\ order # <<>> /\ phase \in {"clean", "compare", "unlink", "link", "copy"}
        /\ at \in [Paths -> Files \cup {None}]
        /\ \A p \in Paths \ {Dupe} : at'[p] = at[p]
        /\ UNCHANGED <<job, report, left, primary, was>>
    BY ItemFacts
  <1>2. /\ stats.deleted + stats.failed + Len(order) + Cardinality(UNION left)
               + Cardinality(report) = Cardinality(UNION report) + Cardinality(left)
        /\ stats.found = stats.deleted + stats.failed + (IF InItem THEN 1 ELSE 0)
        /\ job.action = "delete" => stats.deleted = Cardinality(Removed)
    BY <1>1 DEF CInv, Count
  <1>3. PICK d \in Nat, f \in Nat, n \in Nat :
            d = stats.deleted /\ f = stats.failed /\ n = stats.found
    BY DEF TInv, TypeOK
  <1>4. PICK k \in Nat, l \in Nat, u \in Nat :
            /\ k = Len(order) /\ l = Cardinality(left) /\ u = Cardinality(UNION left)
    BY <1>1, TurnFacts, PathsFinite DEF TInv, TypeOK
  <1>5. PICK r \in Nat, v \in Nat : r = Cardinality(report) /\ v = Cardinality(UNION report)
    BY PathsFinite DEF TInv, TypeOK
  <1>6. d + f + k + u + r = v + l /\ n = d + f + (IF InItem THEN 1 ELSE 0) /\ k >= 1
           /\ Len(Tail(order)) = k - 1
    BY <1>1, <1>2, <1>3, <1>4, <1>5, TurnFacts
  <1>7. /\ stats'.deleted \in Nat /\ stats'.failed \in Nat /\ stats'.found \in Nat
        /\ DOMAIN stats = {"found", "deleted", "failed"}
    BY TInvItem DEF TInv, TypeOK
  <1>8. ASSUME NEW c, Tally(c)
        PROVE  /\ stats'.deleted = d + (IF "deleted" \in c THEN 1 ELSE 0)
               /\ stats'.failed = f + (IF "failed" \in c THEN 1 ELSE 0)
               /\ stats'.found = n + (IF "found" \in c THEN 1 ELSE 0)
    BY <1>3, <1>7, <1>8 DEF Tally
  <1>9. ~Searching' /\ phase' # "done"
    BY ItemFacts DEF Searching
  (* A path that is through is counted as deleted or as failed.              *)
  <1>10. ASSUME phase' = "clean", order' = Tail(order),
                stats'.deleted + stats'.failed = d + f + 1,
                stats'.found = d + f + 1,
                job.action = "delete" => stats'.deleted = Cardinality(Removed')
         PROVE  Count'
    <2>1. PICK d1 \in Nat, f1 \in Nat : d1 = stats'.deleted /\ f1 = stats'.failed
      BY <1>7
    <2>2. d1 + f1 = d + f + 1 /\ d1 + f1 + (k - 1) + u + r = v + l
      <3>1. d1 + f1 = d + f + 1
        BY <1>10, <2>1
      <3>2. d + f + k + u + r = v + l
        BY <1>6
      <3> QED
        BY <3>1, <3>2
    <2>3. stats'.deleted + stats'.failed + Len(order') + Cardinality(UNION left')
              + Cardinality(report') = Cardinality(UNION report') + Cardinality(left')
      BY <1>1, <1>4, <1>5, <1>6, <1>10, <2>1, <2>2
    <2>4. ~InItem' /\ stats'.found = stats'.deleted + stats'.failed + 0
      BY <1>10, <2>1, <2>2 DEF InItem
    <2> QED
      BY <1>1, <1>9, <1>10, <2>3, <2>4 DEF Count
  (* One that is not has only been found.                                    *)
  <1>11. ASSUME phase' \in {"compare", "unlink", "link", "copy"}, order' = order,
                stats'.deleted = d, stats'.failed = f, stats'.found = d + f + 1,
                job.action = "delete" => stats'.deleted = Cardinality(Removed')
         PROVE  Count'
    <2>1. stats'.deleted + stats'.failed + Len(order') + Cardinality(UNION left')
              + Cardinality(report') = Cardinality(UNION report') + Cardinality(left')
      BY <1>1, <1>4, <1>5, <1>6, <1>11
    <2>2. InItem' /\ stats'.found = stats'.deleted + stats'.failed + 1
      BY <1>11 DEF InItem
    <2> QED
      BY <1>1, <1>9, <1>11, <2>1, <2>2 DEF Count
  <1>12. at' = at => Removed' = Removed
    BY <1>1 DEF Removed
  <1>13. phase = "clean" => n = d + f /\ at[Dupe] # None
    <2> SUFFICES ASSUME phase = "clean" PROVE n = d + f /\ at[Dupe] # None
      OBVIOUS
    <2>1. n = d + f
      BY <1>6 DEF InItem
    <2>2. Dupe = order[1] /\ 1 \in 1 .. Len(order) /\ was[Dupe] # None
      BY <1>1, TurnFacts
    <2> QED
      BY <2>1, <2>2 DEF CInv, Sorted
  <1>14. phase \in {"compare", "unlink", "link", "copy"} => n = d + f + 1
    BY <1>6 DEF InItem
  <1>15. CASE Simulate
    <2>1. /\ Tally({"found", "deleted"}) /\ phase = "clean" /\ job.action # "delete"
          /\ phase' = "clean" /\ order' = Tail(order)
      BY <1>15 DEF Simulate, Turn, Through
    <2>2. stats'.deleted = d + 1 /\ stats'.failed = f /\ stats'.found = n + 1
      BY <1>3, <1>8, <2>1
    <2> QED
      BY <1>3, <1>10, <1>13, <2>1, <2>2
  <1>16. ~Skip
    BY <1>13 DEF Skip, Turn
  <1>17. CASE Take
    <2>1. /\ Tally({"found"}) /\ phase = "clean" /\ at' = at /\ order' = order
          /\ phase' \in {"compare", "unlink"}
      BY <1>17 DEF Take, Turn
    <2>2. stats'.deleted = d /\ stats'.failed = f /\ stats'.found = n + 1
      BY <1>3, <1>8, <2>1
    <2>3. job.action = "delete" => stats'.deleted = Cardinality(Removed')
      BY <1>2, <1>3, <1>12, <2>1, <2>2
    <2> QED
      BY <1>3, <1>11, <1>13, <2>1, <2>2, <2>3
  <1>18. ASSUME phase \in {"compare", "unlink", "link", "copy"},
                Failed, at' = at \/ job.action # "delete"
         PROVE  Count'
    <2>1. phase' = "clean" /\ order' = Tail(order) /\ Tally({"failed"})
      BY <1>18 DEF Failed, Through
    <2>2. stats'.deleted = d /\ stats'.failed = f + 1 /\ stats'.found = n
      BY <1>3, <1>8, <2>1
    <2>3. job.action = "delete" => stats'.deleted = Cardinality(Removed')
      BY <1>2, <1>3, <1>12, <1>18, <2>2
    <2> QED
      BY <1>3, <1>10, <1>14, <1>18, <2>1, <2>2, <2>3
  <1>19. ASSUME phase \in {"compare", "unlink", "link", "copy"}, Deleted,
                job.action = "delete" => Cardinality(Removed') = Cardinality(Removed) + 1
         PROVE  Count'
    <2>1. phase' = "clean" /\ order' = Tail(order) /\ Tally({"deleted"})
      BY <1>19 DEF Deleted, Through
    <2>2. stats'.deleted = d + 1 /\ stats'.failed = f /\ stats'.found = n
      BY <1>3, <1>8, <2>1
    <2>3. job.action = "delete" => stats'.deleted = Cardinality(Removed')
      BY <1>2, <1>3, <1>19, <2>2
    <2> QED
      BY <1>3, <1>10, <1>14, <1>19, <2>1, <2>2, <2>3
  <1>20. ASSUME phase \in {"compare", "unlink", "link", "copy"},
                phase' \in {"compare", "unlink", "link", "copy"}, order' = order,
                stats' = stats, at' = at \/ job.action # "delete"
         PROVE  Count'
    <2>1. job.action = "delete" => stats'.deleted = Cardinality(Removed')
      BY <1>2, <1>12, <1>20
    <2> QED
      BY <1>3, <1>11, <1>14, <1>20, <2>1
  <1>21. CASE Compare
    <2>1. phase = "compare" /\ at' = at /\ job.action = "hardlink"
      BY <1>21 DEF Compare, TInv
    <2>2. Failed \/ Deleted \/ (phase' = "unlink" /\ order' = order /\ stats' = stats)
      BY <1>21 DEF Compare
    <2> QED
      BY <1>18, <1>19, <1>20, <2>1, <2>2
  <1>22. CASE Unlink
    <2>1. phase = "unlink" /\ at[Dupe] # None /\ Put(None)
      BY <1>22 DEF Unlink
    <2>2. CASE job.action = "delete"
      <3>1. Dupe \in Paths /\ was[Dupe] # None
        BY <1>1, TurnFacts
      <3>2. at'[Dupe] = None
        BY <1>1, <2>1, <3>1 DEF Put
      <3>3. Removed' = Removed \cup {Dupe} /\ Dupe \notin Removed
        BY <1>1, <2>1, <3>1, <3>2 DEF Removed
      <3>4. IsFiniteSet(Removed)
        BY PathsFinite DEF Removed
      <3>5. Cardinality(Removed') = Cardinality(Removed) + 1
        BY <3>3, <3>4, FS_AddElement
      <3> QED
        BY <1>19, <1>22, <2>1, <2>2, <3>5 DEF Unlink
    <2>3. CASE job.action # "delete"
      BY <1>20, <1>22, <2>1, <2>3 DEF Unlink
    <2> QED
      BY <2>2, <2>3
  <1>23. CASE UnlinkFails
    BY <1>18, <1>23 DEF UnlinkFails
  <1>24. CASE Link
    BY <1>19, <1>24 DEF Link, TInv
  <1>25. CASE LinkFails
    BY <1>20, <1>25 DEF LinkFails, Restore
  <1>26. CASE Copy
    BY <1>18, <1>26 DEF Copy, TInv
  <1>27. CASE CopyFails
    BY <1>18, <1>27 DEF CopyFails, TInv
  <1> QED
    BY <1>15, <1>16, <1>17, <1>21, <1>22, <1>23, <1>24, <1>25, <1>26, <1>27 DEF Item

(* The end, and the death of the process, change nothing but the phase.      *)
LEMMA CInvRest ==
    ASSUME DInv, TInv, CInv, \/ Finish \/ Crash \/ Finished \/ UNCHANGED vars
                             \/ \E p \in Paths : Meddle(p)
    PROVE  CInv'
  <1>1. CASE Finish
    <2>1. /\ UNCHANGED <<at, job, report, left, primary, order, stats, meddling, mishaps, was>>
          /\ phase = "clean" /\ phase' = "done" /\ order = <<>> /\ left = {}
      BY <1>1 DEF Finish, searchVars, cleanVars, outside
    <2> QED
      BY <2>1 DEF CInv, Undisturbed, Sorted, Better, NamesTrue, Lacking, Hurt, DataAt, WasAt,
                  Count, InItem, Searching, Removed
  <1>2. CASE Crash
    <2>1. /\ UNCHANGED <<at, job, report, left, primary, order, stats, meddling, was>>
          /\ phase' = "stopped"
      BY <1>2 DEF Crash, Mishap, searchVars, cleanVars
    <2> QED
      BY <2>1 DEF CInv, Undisturbed, Sorted, Better, NamesTrue, Count
  <1>3. ASSUME NEW p \in Paths, Meddle(p) PROVE CInv'
    BY <1>3, DuplicatesAssumption DEF Meddle, CInv, Undisturbed, TInv, TypeOK
  <1>4. CASE UNCHANGED vars
    <2>1. UNCHANGED <<at, job, report, left, primary, order, stats, meddling, mishaps, was, phase>>
      BY <1>4 DEF vars, searchVars, cleanVars, outside
    <2> QED
      BY <2>1 DEF CInv, Undisturbed, Sorted, Better, NamesTrue, Lacking, Hurt, DataAt, WasAt,
                  Count, InItem, Searching, Removed, Dupe
  <1> QED
    BY <1>1, <1>2, <1>3, <1>4 DEF Finished

(* Every step keeps CInv.                                                    *)
LEMMA CInvNext == DInv /\ TInv /\ TInv' /\ CInv /\ [Next]_vars => CInv'
  <1> SUFFICES ASSUME DInv, TInv, TInv', CInv, [Next]_vars PROVE CInv'
    OBVIOUS
  <1>1. CASE Item
    <2>1. Undisturbed' => Undisturbed
      BY <1>1, ItemStep DEF Undisturbed
    <2> QED
      BY <1>1, <2>1, SortedItem, NamesItem, CountItem DEF CInv
  <1> QED
    BY <1>1, CInvSearch, CInvBegin, CInvRest DEF Next, Clean, Item

(* Linking, and a dry run, leave every path with its content, also when the  *)
(* link fails; a path without it cost two failures, and counts as failed.    *)
THEOREM NamesSafe == Spec => []NamesKept
  <1>1. CInv => NamesKept
    <2> SUFFICES ASSUME NamesTrue, phase = "done", job.action # "delete"
                 PROVE  /\ \A p \in Hurt : DataAt(p) \in {None, Torn}
                        /\ Cardinality(Hurt) <= stats.failed
                        /\ 2 * Cardinality(Hurt) <= Mishaps - mishaps
      BY DEF CInv, NamesKept
    <2>1. Lacking = Hurt /\ Hurt \subseteq Paths
      BY DEF Lacking, Hurt
    <2>2. Cardinality(Hurt) \in Nat
      BY <2>1, PathsFinite
    <2> QED
      BY <2>1, <2>2 DEF NamesTrue
  <1> QED
    BY <1>1, DInvInit, DInvNext, TInvInit, TInvNext, CInvInit, CInvNext, PTL DEF Spec

(* Every redundant path of the report ends in files_deleted or in failed,    *)
(* and a deletion has removed as many files as files_deleted says.           *)
THEOREM StatsTrue == Spec => []StatsExact
  <1>1. TInv /\ CInv => StatsExact
    <2> SUFFICES ASSUME TInv, CInv, Undisturbed, phase = "done"
                 PROVE  /\ stats.deleted + stats.failed =
                               Cardinality(UNION report) - Cardinality(report)
                        /\ stats.found = stats.deleted + stats.failed
                        /\ job.action = "delete" => stats.deleted =
                               Cardinality({p \in Paths : was[p] # None /\ at[p] = None})
      BY DEF StatsExact
    <2>1. Count /\ left = {} /\ order = <<>> /\ ~InItem
      BY DEF CInv, Count, InItem
    <2>2. Cardinality(UNION left) = 0 /\ Cardinality(left) = 0 /\ Len(order) = 0
      BY <2>1, FS_EmptySet
    <2>3. PICK d \in Nat, f \in Nat, r \in Nat, v \in Nat :
              /\ d = stats.deleted /\ f = stats.failed
              /\ r = Cardinality(report) /\ v = Cardinality(UNION report)
      BY PathsFinite DEF TInv, TypeOK
    <2>4. d + f + 0 + 0 + r = v + 0 /\ stats.found = d + f + 0
      BY <2>1, <2>2, <2>3 DEF Count
    <2>5. d + f = v - r
      BY <2>4
    <2>6. job.action = "delete" => stats.deleted = Cardinality(Removed)
      BY <2>1 DEF Count
    <2> QED
      BY <2>3, <2>4, <2>5, <2>6 DEF Removed
  <1> QED
    BY <1>1, DInvInit, DInvNext, TInvInit, TInvNext, CInvInit, CInvNext, PTL DEF Spec

(* keep_strategy decides which path survives: whenever a path is removed, a  *)
(* file of the same content stays that the strategy puts before it, and of   *)
(* paths it does not tell apart the first one in the report stays.           *)
THEOREM BetterKept == Spec => KeepsBetter
  <1> DEFINE
        Kept ==
          \A p \in Paths : Undisturbed' /\ at[p] # None /\ at'[p] = None =>
             \E q \in Paths \ {p} :
                 /\ at'[q] # None
                 /\ at'[q].data = at[p].data
                 /\ \/ job.keep = "newest" /\ at'[q].time > at[p].time
                    \/ job.keep = "oldest" /\ at'[q].time < at[p].time
                    \/ q < p /\ (job.keep = "first" \/ at'[q].time = at[p].time)
  <1>1. DInv /\ TInv /\ CInv /\ [Next]_vars => [Kept]_vars
    <2> SUFFICES ASSUME DInv, TInv, CInv, [Next]_vars,
                        NEW p \in Paths, Undisturbed', at[p] # None, at'[p] = None
                 PROVE  \E q \in Paths \ {p} :
                           /\ at'[q] # None
                           /\ at'[q].data = at[p].data
                           /\ \/ job.keep = "newest" /\ at'[q].time > at[p].time
                              \/ job.keep = "oldest" /\ at'[q].time < at[p].time
                              \/ q < p /\ (job.keep = "first" \/ at'[q].time = at[p].time)
      OBVIOUS
    <2>1. at' # at
      OBVIOUS
    <2>2. Item
      <3>1. ~\E q \in Paths : Meddle(q)
        BY DuplicatesAssumption DEF Meddle, Undisturbed, TInv, TypeOK
      <3> QED
        BY <2>1, <3>1 DEF Next, Clean, Item, Examine, NextStage, Report, Begin, Finish, Crash,
                          Finished, vars
    <2>3. Undisturbed
      BY <2>2, ItemStep DEF Undisturbed
    <2>4. /\ order # <<>> /\ at \in [Paths -> Files \cup {None}]
          /\ \A q \in Paths \ {Dupe} : at'[q] = at[q]
      BY <2>2, <2>3, ItemFacts
    <2>5. /\ Dupe = order[1] /\ Len(order) >= 1 /\ Len(order) \in Nat
          /\ primary \in Paths /\ Dupe # primary
          /\ was[Dupe] # None /\ at[primary] = was[primary] /\ was[primary] # None
          /\ was[primary].data = was[Dupe].data
      BY <2>3, <2>4, TurnFacts
    <2>6. p = Dupe
      BY <2>4
    <2>7. phase \notin {"link", "copy", "stopped"}
      BY <2>2, <2>3, <2>6, ItemFacts DEF CInv, Sorted
    <2>8. at[Dupe] = was[Dupe] /\ Better(primary, Dupe)
      BY <2>3, <2>5, <2>7 DEF CInv, Sorted
    <2>9. at'[primary] = was[primary]
      BY <2>4, <2>5
    <2> QED
      BY <2>5, <2>6, <2>8, <2>9 DEF Better
  <1> HIDE DEF Kept
  <1>2. Spec => [][Kept]_vars
    BY <1>1, DInvInit, DInvNext, TInvInit, TInvNext, CInvInit, CInvNext, PTL DEF Spec
  <1> QED
    BY <1>2 DEF Kept, KeepsBetter
===============================================================================
