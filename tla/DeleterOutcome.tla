--------------------------- MODULE DeleterOutcome ----------------------------
(* What the counters of DeletionStats mean, and what a deletion leaves       *)
(* behind, for every tree, every filter and every number of workers: no item *)
(* is lost or counted twice, the counts are the entries removed, and nothing *)
(* removable survives a deletion nobody interferes with.  It rests on the    *)
(* scanner giving every name once, and on every file it gave being in one    *)
(* place at a time: in the partial batch, in one submitted batch, or in one  *)
(* thread's hands.                                                           *)
EXTENDS DeleterProofs, TreeProofs, FiniteSetTheorems

USE DEF disk, scanVars, poolVars

-----------------------------------------------------------------------------
(* The invariants.                                                           *)

(* Where the main thread has an item in its hand it has not yet counted or   *)
(* passed on.                                                                *)
Holding == {"got", "drain", "dir", "rmdir", "rmdir_retry"}

(* The scanner gives a name once, and never before its directory.            *)
ScanOnce ==
    /\ \A n \in given : n # Root /\ Parent[n] \in given \cup {Root}
    /\ unread \cap (given \cup {Root}) = {}
    /\ pc \in {"start", "open"} => given = {} /\ unread = {} /\ stack = <<>> /\ yielded = 0
    /\ IsInjective(stack) /\ Range(stack) \subseteq given \cup {Root}
    /\ pc \in Holding /\ item.action = "DIR_POST" =>
           item.node \in (given \cup {Root}) \ Range(stack)

(* A file is in one place at a time.                                         *)
Piles ==
    /\ IsInjective(batch)
    /\ \A i \in DOMAIN queue : IsInjective(queue[i]) /\ Range(queue[i]) \cap Range(batch) = {}
    /\ \A i, j \in DOMAIN queue : i # j => Range(queue[i]) \cap Range(queue[j]) = {}
    /\ \A a \in Actors : IsInjective(hand[a]) /\ Range(hand[a]) \cap Range(batch) = {}
    /\ \A a, b \in Actors : a # b => Range(hand[a]) \cap Range(hand[b]) = {}
    /\ \A a \in Actors, i \in DOMAIN queue : Range(hand[a]) \cap Range(queue[i]) = {}

(* What waits was given, and the file in the main thread's hand is not       *)
(* waiting yet.                                                              *)
Waits ==
    /\ Waiting \subseteq given
    /\ pc = "got" /\ item.action = "FILE" => item.node \in given \ Waiting

(* Every item is counted, or waiting, or in the main thread's hand, unless   *)
(* an abort has dropped it.                                                  *)
InHand == IF pc \in Holding THEN 1 ELSE 0
Due    == Counted + Cardinality(Waiting) + InHand

Tally ==
    IF pc = "done" THEN /\ Counted <= yielded + (IF yielded = 0 THEN 1 ELSE 0)
                        /\ ~abort /\ yielded > 0 => Counted = yielded
                   ELSE Due <= yielded /\ (~abort => Due = yielded)

(* The files discovered and not yet counted as removed or failed are those a *)
(* thread is unlinking.                                                      *)
Underway == {a \in Actors : step[a] \in {"unlink", "retry"}}

Discovery ==
    /\ IsFiniteSet(Underway)
    /\ stats.files + Cardinality(Underway) <= stats.discovered
    /\ stats.discovered <= stats.files + stats.failed + Cardinality(Underway)

(* While nobody interferes, what is still to be dealt with exists ...        *)
Calm ==
    Undisturbed =>
        /\ Waiting \cup unread \cup Range(stack) \subseteq present
        /\ pc \in Holding /\ item.action \in {"FILE", "DIR_POST"} => item.node \in present

CInv == ScanOnce /\ Piles /\ Waits /\ Tally /\ Discovery

(* ... and so every count is a removal.                                      *)
RInv == Calm /\ CountsAreRemovals

-----------------------------------------------------------------------------
(* Sequences without repetition.                                             *)

(* Taking the head off such a sequence takes that element out of it.         *)
LEMMA TailDrops ==
    ASSUME NEW S, NEW s \in Seq(S), s # <<>>, IsInjective(s)
    PROVE  /\ IsInjective(Tail(s))
           /\ Head(s) \in Range(s)
           /\ Range(Tail(s)) = Range(s) \ {Head(s)}
  <1>1. /\ Len(s) \in Nat \ {0} /\ DOMAIN s = 1 .. Len(s) /\ Head(s) = s[1]
        /\ DOMAIN Tail(s) = 1 .. Len(s) - 1
        /\ \A i \in 1 .. Len(s) - 1 : Tail(s)[i] = s[i + 1]
    OBVIOUS
  <1>2. \A i, j \in DOMAIN s : s[i] = s[j] => i = j
    BY DEF IsInjective
  <1>3. IsInjective(Tail(s))
    BY <1>1, <1>2 DEF IsInjective
  <1>4. Head(s) \in Range(s)
    BY <1>1 DEF Range
  <1>5. ASSUME NEW x \in Range(Tail(s)) PROVE x \in Range(s) \ {Head(s)}
    <2>1. PICK i \in 1 .. Len(s) - 1 : x = s[i + 1]
      BY <1>1, <1>5 DEF Range
    <2>2. i + 1 \in DOMAIN s /\ 1 \in DOMAIN s /\ i + 1 # 1
      BY <1>1
    <2> QED
      BY <1>1, <1>2, <2>1, <2>2 DEF Range
  <1>6. ASSUME NEW x \in Range(s) \ {Head(s)} PROVE x \in Range(Tail(s))
    <2>1. PICK i \in 1 .. Len(s) : x = s[i]
      BY <1>1 DEF Range
    <2>2. i # 1
      BY <1>1, <2>1
    <2>3. i - 1 \in 1 .. Len(s) - 1 /\ Tail(s)[i - 1] = x
      BY <1>1, <2>1, <2>2
    <2> QED
      BY <1>1, <2>3 DEF Range
  <1> QED
    BY <1>3, <1>4, <1>5, <1>6

(* A new element at the end is one element more.                             *)
LEMMA AppendAdds ==
    ASSUME NEW S, NEW s \in Seq(S), NEW x \in S
    PROVE  /\ Range(Append(s, x)) = Range(s) \cup {x}
           /\ IsInjective(s) /\ x \notin Range(s) => IsInjective(Append(s, x))
  <1> DEFINE t == Append(s, x)
  <1>1. /\ Len(s) \in Nat /\ DOMAIN s = 1 .. Len(s) /\ DOMAIN t = 1 .. Len(s) + 1
        /\ \A i \in 1 .. Len(s) : t[i] = s[i]
        /\ t[Len(s) + 1] = x
    OBVIOUS
  <1>2. Range(t) = Range(s) \cup {x}
    <2>1. ASSUME NEW y \in Range(t) PROVE y \in Range(s) \cup {x}
      <3>1. PICK i \in 1 .. Len(s) + 1 : y = t[i]
        BY <1>1 DEF Range
      <3> QED
        BY <1>1, <3>1 DEF Range
    <2>2. ASSUME NEW y \in Range(s) PROVE y \in Range(t)
      <3>1. PICK i \in 1 .. Len(s) : y = s[i]
        BY <1>1 DEF Range
      <3>2. i \in DOMAIN t /\ y = t[i]
        BY <1>1, <3>1
      <3> QED
        BY <3>2 DEF Range
    <2>3. x \in Range(t)
      <3>1. Len(s) + 1 \in DOMAIN t
        BY <1>1
      <3> QED
        BY <1>1, <3>1 DEF Range
    <2> QED
      BY <2>1, <2>2, <2>3
  <1>3. ASSUME IsInjective(s), x \notin Range(s) PROVE IsInjective(t)
    <2>1. \A i, j \in 1 .. Len(s) : s[i] = s[j] => i = j
      BY <1>1, <1>3 DEF IsInjective
    <2>2. \A i \in 1 .. Len(s) : s[i] # x
      BY <1>1, <1>3 DEF Range
    <2>3. \A i, j \in 1 .. Len(s) + 1 : t[i] = t[j] => i = j
      BY <1>1, <2>1, <2>2
    <2> QED
      BY <1>1, <2>3 DEF IsInjective
  <1> QED
    BY <1>2, <1>3

(* The range of a prefix of such a sequence without its last element.        *)
LEMMA FrontDrops ==
    ASSUME NEW S, NEW s \in Seq(S), s # <<>>, IsInjective(s)
    PROVE  LET t == SubSeq(s, 1, Len(s) - 1)
           IN  /\ IsInjective(t)
               /\ s[Len(s)] \in Range(s)
               /\ Range(t) = Range(s) \ {s[Len(s)]}
  <1> DEFINE t == SubSeq(s, 1, Len(s) - 1)
  <1>1. /\ Len(s) \in Nat \ {0} /\ DOMAIN s = 1 .. Len(s)
        /\ DOMAIN t = 1 .. Len(s) - 1
        /\ \A i \in 1 .. Len(s) - 1 : t[i] = s[i]
    OBVIOUS
  <1>2. \A i, j \in 1 .. Len(s) : s[i] = s[j] => i = j
    BY <1>1 DEF IsInjective
  <1>0. /\ Len(s) \in 1 .. Len(s)
        /\ \A i \in 1 .. Len(s) - 1 : i \in 1 .. Len(s) /\ i # Len(s)
    <2>1. Len(s) \in Nat /\ Len(s) >= 1
      BY <1>1
    <2> QED
      BY ONLY <2>1
  <1> HIDE DEF t
  <1>3. IsInjective(t)
    BY <1>1, <1>2 DEF IsInjective
  <1>4. s[Len(s)] \in Range(s)
    <2>1. Len(s) \in DOMAIN s
      BY <1>1
    <2> QED
      BY <2>1 DEF Range
  <1>5. ASSUME NEW x \in Range(t) PROVE x \in Range(s) \ {s[Len(s)]}
    <2>1. PICK i \in 1 .. Len(s) - 1 : x = s[i]
      BY <1>1 DEF Range
    <2>2. i \in 1 .. Len(s) /\ Len(s) \in 1 .. Len(s) /\ i # Len(s)
      BY ONLY <1>0, <2>1
    <2> QED
      BY <1>1, <1>2, <2>1, <2>2 DEF Range
  <1>6. ASSUME NEW x \in Range(s) \ {s[Len(s)]} PROVE x \in Range(t)
    <2>1. PICK i \in 1 .. Len(s) : x = s[i]
      BY <1>1 DEF Range
    <2>2. i \in 1 .. Len(s) - 1 /\ t[i] = x
      BY <1>1, <2>1
    <2> QED
      BY <1>1, <2>2 DEF Range
  <1>7. /\ IsInjective(t) /\ s[Len(s)] \in Range(s) /\ Range(t) = Range(s) \ {s[Len(s)]}
    BY <1>3, <1>4, <1>5, <1>6
  <1> QED
    BY <1>7 DEF t

-----------------------------------------------------------------------------
(* The scanner.                                                              *)

(* It has given nothing when run() starts.                                   *)
LEMMA ScanOnceInit == Init => ScanOnce
  <1>1. IsInjective(<<>>) /\ Range(<<>>) = {}
    BY DEF IsInjective, Range
  <1> QED
    BY <1>1 DEF Init, ScanOnce, Holding

(* A step that leaves the scanner alone and puts nothing in the main         *)
(* thread's hand.                                                            *)
LEMMA ScanKept ==
    ASSUME ScanOnce, UNCHANGED <<item, scanVars>>,
           pc' \in Holding => pc \in Holding,
           pc' \in {"start", "open"} => pc' = pc
    PROVE  ScanOnce'
  BY DEF ScanOnce

(* A name the innermost iterator returns was not given before, and its       *)
(* directory was.                                                            *)
LEMMA ScanNew ==
    ASSUME Types, ScanOnce, NEW n \in Nodes, ScanStep(n)
    PROVE  /\ n \notin given /\ n # Root /\ Parent[n] = Top /\ Top \in given \cup {Root}
           /\ Top \in Range(stack) /\ n \notin Range(stack)
           /\ \A m \in Children(n) : m \notin given /\ m # n /\ m # Root
  <1> USE TreeAssumption
  <1>1. Top \in Dirs /\ Parent[n] = Top
    BY StackTop DEF ScanStep, Listed, Children
  <1>2. n # Root
    BY <1>1
  <1>3. n \notin given
    BY DEF ScanStep, Listed, ScanOnce
  <1>4. Top \in Range(stack)
    BY FrontDrops DEF Types, TypeOK, ScanOnce, Top, ScanStep
  <1>5. ASSUME NEW m \in Children(n) PROVE m \notin given /\ m # n /\ m # Root
    <2>1. m \in Nodes /\ Parent[m] = n
      BY DEF Children
    <2>2. m # Root
      BY <2>1
    <2>3. m \notin given
      BY <1>2, <1>3, <2>1 DEF ScanOnce
    <2>4. m # n
      <3>1. Depth[m] = Depth[n] + 1 /\ Depth[n] \in Nat
        BY <2>1, <2>2
      <3> QED
        BY <3>1
    <2> QED
      BY <2>2, <2>3, <2>4
  <1> QED
    BY <1>1, <1>2, <1>3, <1>4, <1>5 DEF ScanOnce

(* The directory the scanner comes back from is not on its stack any more.   *)
LEMMA ScanPop ==
    ASSUME Types, ScanOnce, stack # <<>>, Pop
    PROVE  /\ IsInjective(stack') /\ Range(stack') \subseteq given' \cup {Root}
           /\ Top \in Range(stack) \ Range(stack') /\ Top \in given' \cup {Root}
           /\ Range(stack') = Range(stack) \ {Top} /\ Len(stack') = Len(stack) - 1
           /\ unread' = unread \ Children(Top) /\ given' = given
  <1>1. stack' = SubSeq(stack, 1, Len(stack) - 1)
    BY DEF Pop, Below
  <1>2. stack \in Seq(Dirs) /\ IsInjective(stack) /\ Range(stack) \subseteq given \cup {Root}
    BY DEF Types, TypeOK, ScanOnce
  <1>3. /\ IsInjective(stack') /\ stack[Len(stack)] \in Range(stack)
        /\ Range(stack') = Range(stack) \ {stack[Len(stack)]}
    BY <1>1, <1>2, FrontDrops
  <1>4. Len(stack') = Len(stack) - 1
    <2>1. Len(stack) \in Nat \ {0}
      BY <1>2
    <2>2. \A k \in Nat \ {0} : Len(SubSeq(stack, 1, k - 1)) = k - 1
      BY <1>2
    <2> QED
      BY <1>1, <2>1, <2>2
  <1> QED
    BY <1>2, <1>3, <1>4 DEF Top, Pop

(* No step makes the scanner give a name twice.                              *)
LEMMA ScanOnceNext == ASSUME Types, ScanOnce, [Next]_vars PROVE ScanOnce'
  <1>1. ASSUME NEW a \in Actors, FileStep(a) PROVE ScanOnce'
    BY <1>1, ScanKept DEF FileStep, FileAbort, FileDryRun, FileEnter, Unlink, UnlinkGone,
                          UnlinkForce, UnlinkError
  <1>2. ASSUME NEW w \in Workers, TakeBatch(w) PROVE ScanOnce'
    BY <1>2, ScanKept DEF TakeBatch
  <1>3. CASE DirStep
    <2>1. UNCHANGED <<item, scanVars>> /\ pc \in Holding /\ pc' \notin {"start", "open"}
      BY <1>3 DEF DirStep, DirAbort, RootChanged, DirDryRun, DirEnter, Rmdir, RmdirGone,
                  RmdirNotEmpty, RmdirForce, RmdirError, Holding
    <2> QED
      BY <2>1, ScanKept
  <1>4. CASE Looping
    <2>1. /\ UNCHANGED <<item, scanVars>> /\ pc' \notin {"start", "open"}
          /\ pc' \in Holding => pc \in Holding
      BY <1>4 DEF Looping, LoopAbort, StreamFile, StreamReturn, BatchFile, PostDir, Drain,
                  SkipItem, ScanError, Flush, Join, Got, AfterLoop, Holding
    <2> QED
      BY <2>1, ScanKept
  <1>5. CASE Meddling
    BY <1>5, ScanKept DEF Meddling, RequestAbort, Meddle
  <1>6. CASE UNCHANGED vars
    BY <1>6, ScanKept DEF vars
  <1>7. CASE Inspect \/ ScanDone
    <2>1. /\ UNCHANGED <<item, scanVars>> /\ pc' \notin Holding
          /\ pc' \in {"start", "open"} => pc = "start"
      BY <1>7 DEF Inspect, ScanDone, AfterLoop, Holding
    <2> QED
      BY <2>1 DEF ScanOnce
  <1>8. CASE OpenRoot
    <2>1. given = {} /\ unread = {} /\ stack = <<>> /\ given' = {}
      BY <1>8 DEF OpenRoot, ScanOnce
    <2>2. Root \notin Children(Root)
      BY TreeAssumption DEF Children
    <2>3. /\ IsInjective(<<>>) /\ Range(<<>>) = {}
          /\ IsInjective(<<Root>>) /\ Range(<<Root>>) = {Root}
      BY DEF IsInjective, Range
    <2>4. /\ \/ stack' = <<>> /\ unread' = {}
             \/ stack' = <<Root>> /\ unread' \subseteq Children(Root)
          /\ pc' \in {"next", "got"}
          /\ pc' = "got" => item'.action # "DIR_POST"
      BY <1>8, <2>1 DEF OpenRoot, Yield, Item
    <2> QED
      BY <2>1, <2>2, <2>3, <2>4 DEF ScanOnce, Holding
  <1>9. ASSUME NEW n \in Nodes, ScanFile(n) PROVE ScanOnce'
    <2>1. /\ ScanStep(n) /\ given' = given \cup {n} /\ unread' = unread \ {n} /\ stack' = stack
          /\ pc' = "got" /\ item'.action # "DIR_POST"
      BY <1>9 DEF ScanFile, ScanStep, Yield, Item
    <2> QED
      BY <2>1, ScanNew DEF ScanOnce
  <1>10. ASSUME NEW n \in Nodes, ScanDir(n) PROVE ScanOnce'
    <2>1. /\ ScanStep(n) /\ given' = given \cup {n}
          /\ pc' \in {"got", "next"}
          /\ pc' = "got" => item'.action # "DIR_POST"
          /\ \/ /\ unread' = unread \ {n} /\ stack' = stack
             \/ /\ unread' \subseteq (unread \ {n}) \cup Children(n)
                /\ stack' = Append(stack, n) /\ n \in Dirs
      BY <1>10 DEF ScanDir, ScanStep, Yield, Item
    <2>2. IsInjective(stack') /\ Range(stack') \subseteq given' \cup {Root}
      <3>1. CASE stack' = stack
        BY <2>1, <3>1 DEF ScanOnce
      <3>2. CASE stack' = Append(stack, n) /\ n \in Dirs
        BY <2>1, <3>2, ScanNew, AppendAdds DEF ScanOnce, Types, TypeOK
      <3> QED
        BY <2>1, <3>1, <3>2
    <2>3. unread' \cap (given' \cup {Root}) = {}
      BY <2>1, ScanNew DEF ScanOnce
    <2>4. \A m \in given' : m # Root /\ Parent[m] \in given' \cup {Root}
      BY <2>1, ScanNew DEF ScanOnce
    <2> QED
      BY <2>1, <2>2, <2>3, <2>4 DEF ScanOnce, Holding
  <1>11. CASE ScanEnd
    <2>1. /\ stack # <<>> /\ Pop /\ pc' \in {"got", "next"}
          /\ pc' = "got" /\ item'.action = "DIR_POST" => item'.node = Top
      BY <1>11 DEF ScanEnd, Yield, Item
    <2> QED
      BY <2>1, ScanPop DEF ScanOnce, Holding
  <1>12. CASE ScanFail
    <2>1. /\ stack # <<>> /\ Pop /\ pc' = "got" /\ item'.action # "DIR_POST"
      BY <1>12 DEF ScanFail, Yield, Item
    <2> QED
      BY <2>1, ScanPop DEF ScanOnce, Holding
  <1> QED
    BY <1>1, <1>2, <1>3, <1>4, <1>5, <1>6, <1>7, <1>8, <1>9, <1>10, <1>11, <1>12, Steps
       DEF Scanning

-----------------------------------------------------------------------------
(* The piles of files.                                                       *)

(* What waits is in the partial batch, in the queue or in somebody's hands.  *)
LEMMA WaitingIs ==
    /\ \A x : x \in Waiting <=> \/ x \in Range(batch)
                                \/ \E i \in DOMAIN queue : x \in Range(queue[i])
                                \/ \E a \in Actors : x \in Range(hand[a])
    /\ \A x : x \in Waiting' <=> \/ x \in Range(batch')
                                 \/ \E i \in DOMAIN queue' : x \in Range(queue'[i])
                                 \/ \E a \in Actors : x \in Range(hand'[a])
  <1>1. /\ \A x : (\E b \in Range(queue) : x \in Range(b))
                      <=> \E i \in DOMAIN queue : x \in Range(queue[i])
        /\ \A x : (\E b \in Range(queue') : x \in Range(b))
                      <=> \E i \in DOMAIN queue' : x \in Range(queue'[i])
    BY DEF Range
  <1>2. /\ \A x : x \in Waiting <=> \/ x \in Range(batch)
                                    \/ \E b \in Range(queue) : x \in Range(b)
                                    \/ \E a \in Actors : x \in Range(hand[a])
        /\ \A x : x \in Waiting' <=> \/ x \in Range(batch')
                                     \/ \E b \in Range(queue') : x \in Range(b)
                                     \/ \E a \in Actors : x \in Range(hand'[a])
    BY DEF Waiting
  <1> QED
    BY <1>1, <1>2

(* Nothing in an empty pile. *)
LEMMA EmptyPile == IsInjective(<<>>) /\ Range(<<>>) = {}
  BY DEF IsInjective, Range

(* A thread whose pile shrinks keeps the piles apart.                        *)
LEMMA PilesShrink ==
    ASSUME Types, Piles, NEW a \in Actors, NEW s, IsInjective(s), Range(s) \subseteq Range(hand[a]),
           hand' = [hand EXCEPT ![a] = s], UNCHANGED <<batch, queue>>
    PROVE  /\ Piles'
           /\ \A x : x \in Waiting' <=> x \in Waiting /\ (x \in Range(hand[a]) => x \in Range(s))
  <1>1. hand'[a] = s /\ \A b \in Actors \ {a} : hand'[b] = hand[b]
    BY DEF Types, TypeOK
  <1>2. Piles'
    BY <1>1 DEF Piles
  <1>3. ASSUME NEW x
        PROVE  x \in Waiting' <=> x \in Waiting /\ (x \in Range(hand[a]) => x \in Range(s))
    <2>1. CASE x \in Range(hand[a])
      <3>1. /\ x \notin Range(batch) /\ \A i \in DOMAIN queue : x \notin Range(queue[i])
            /\ \A b \in Actors \ {a} : x \notin Range(hand[b])
        BY <2>1 DEF Piles
      <3> QED
        BY <1>1, <2>1, <3>1, WaitingIs
    <2>2. CASE x \notin Range(hand[a])
      BY <1>1, <2>2, WaitingIs
    <2> QED
      BY <2>1, <2>2
  <1> QED
    BY <1>2, <1>3

(* A thread that is through with its file takes it out of what waits.        *)
LEMMA PilesAdvance ==
    ASSUME Types, Piles, NEW a \in Actors, step[a] # "idle", Advance(a), UNCHANGED <<batch, queue>>
    PROVE  Piles' /\ Current(a) \in Waiting /\ Waiting' = Waiting \ {Current(a)}
  <1>1. hand[a] # <<>> /\ hand[a] \in Seq(Files) /\ IsInjective(hand[a])
    BY DEF Types, TypeOK, HandsBusy, Piles
  <1>2. /\ IsInjective(Tail(hand[a])) /\ Current(a) \in Range(hand[a])
        /\ Range(Tail(hand[a])) = Range(hand[a]) \ {Current(a)}
    BY <1>1, TailDrops DEF Current
  <1>3. hand' = [hand EXCEPT ![a] = Tail(hand[a])]
    BY DEF Advance
  <1>4. /\ Piles'
        /\ \A x : x \in Waiting' <=> x \in Waiting
                                       /\ (x \in Range(hand[a]) => x \in Range(Tail(hand[a])))
    BY <1>2, <1>3, PilesShrink
  <1>5. Current(a) \in Waiting
    BY <1>2, WaitingIs
  <1> QED
    BY <1>2, <1>4, <1>5

(* A worker that takes a batch changes nothing of what waits.                *)
LEMMA PilesTake ==
    ASSUME Types, Piles, NEW w \in Workers, TakeBatch(w)
    PROVE  Piles' /\ Waiting' = Waiting
  <1>1. w \in Actors /\ hand[w] = <<>>
    BY DEF Types, HandsBusy, TakeBatch, Actors
  <1>2. /\ hand'[w] = queue[1] /\ \A b \in Actors \ {w} : hand'[b] = hand[b]
        /\ batch' = batch
    <2>1. queue # <<>> /\ queue \in Seq(Seq(Files)) /\ hand \in [Actors -> Seq(Files)]
      BY DEF Types, TypeOK, TakeBatch
    <2>2. Head(queue) = queue[1]
      BY <2>1
    <2> QED
      BY <1>1, <2>1, <2>2 DEF TakeBatch
  <1>3. /\ 1 \in DOMAIN queue
        /\ \A i \in DOMAIN queue' : i + 1 \in DOMAIN queue /\ queue'[i] = queue[i + 1] /\ i + 1 # 1
        /\ \A i \in DOMAIN queue : i # 1 => i - 1 \in DOMAIN queue' /\ queue'[i - 1] = queue[i]
        /\ \A i, j \in DOMAIN queue' : i # j => i + 1 # j + 1
    <2>1. /\ Len(queue) \in Nat \ {0} /\ DOMAIN queue = 1 .. Len(queue)
          /\ DOMAIN queue' = 1 .. Len(queue) - 1
          /\ \A i \in 1 .. Len(queue) - 1 : queue'[i] = queue[i + 1]
      BY DEF Types, TypeOK, TakeBatch
    <2> QED
      BY <2>1
  <1>4. Piles'
    <2>1. /\ IsInjective(batch')
          /\ \A i \in DOMAIN queue' : IsInjective(queue'[i]) /\ Range(queue'[i]) \cap Range(batch') = {}
          /\ \A i, j \in DOMAIN queue' : i # j => Range(queue'[i]) \cap Range(queue'[j]) = {}
      BY <1>2, <1>3 DEF Piles
    <2>2. ASSUME NEW b \in Actors
          PROVE  /\ IsInjective(hand'[b]) /\ Range(hand'[b]) \cap Range(batch') = {}
                 /\ \A i \in DOMAIN queue' : Range(hand'[b]) \cap Range(queue'[i]) = {}
      BY <1>2, <1>3 DEF Piles
    <2>3. ASSUME NEW b \in Actors, NEW c \in Actors, b # c
          PROVE  Range(hand'[b]) \cap Range(hand'[c]) = {}
      BY <1>2, <1>3, <2>3 DEF Piles
    <2> QED
      BY <2>1, <2>2, <2>3 DEF Piles
  <1>5. ASSUME NEW x PROVE x \in Waiting' <=> x \in Waiting
    <2>1. (\E i \in DOMAIN queue : x \in Range(queue[i]))
             <=> \/ x \in Range(queue[1])
                 \/ \E i \in DOMAIN queue' : x \in Range(queue'[i])
      BY <1>3
    <2>2. (\E b \in Actors : x \in Range(hand'[b]))
             <=> \/ x \in Range(queue[1])
                 \/ \E b \in Actors : x \in Range(hand[b])
      BY <1>1, <1>2, EmptyPile
    <2> QED
      BY <1>2, <2>1, <2>2, WaitingIs
  <1> QED
    BY <1>4, <1>5

(* A file that is nowhere yet joins the partial batch.                       *)
LEMMA PilesJoin ==
    ASSUME Types, Piles, NEW n \in Files \ Waiting, batch' = Append(batch, n),
           UNCHANGED <<queue, hand>>
    PROVE  Piles' /\ Waiting' = Waiting \cup {n}
  <1>1. /\ n \notin Range(batch) /\ \A i \in DOMAIN queue : n \notin Range(queue[i])
        /\ \A a \in Actors : n \notin Range(hand[a])
    BY WaitingIs
  <1>2. Range(batch') = Range(batch) \cup {n} /\ IsInjective(batch')
    BY <1>1, AppendAdds DEF Types, TypeOK, Piles
  <1>3. Piles'
    BY <1>1, <1>2 DEF Piles
  <1> QED
    BY <1>2, <1>3, WaitingIs

(* A batch that holds the partial one, and what is nowhere yet, is submitted.*)
LEMMA PilesSubmit ==
    ASSUME Types, Piles, NEW b \in Seq(Files), IsInjective(b), Range(batch) \subseteq Range(b),
           \A i \in DOMAIN queue : Range(b) \cap Range(queue[i]) = {},
           \A a \in Actors : Range(b) \cap Range(hand[a]) = {},
           Submit(b), hand' = hand
    PROVE  Piles' /\ Waiting' = Waiting \cup Range(b)
  <1>1. PICK k \in Nat :
           /\ DOMAIN queue = 1 .. k /\ DOMAIN queue' = 1 .. k + 1
           /\ \A i \in 1 .. k : queue'[i] = queue[i]
           /\ queue'[k + 1] = b
    <2>1. /\ Len(queue) \in Nat /\ DOMAIN queue = 1 .. Len(queue)
          /\ DOMAIN queue' = 1 .. Len(queue) + 1
          /\ \A i \in 1 .. Len(queue) : queue'[i] = queue[i]
          /\ queue'[Len(queue) + 1] = b
      <3>1. queue \in Seq(Seq(Files)) /\ queue' = Append(queue, b)
        BY DEF Types, TypeOK, Submit
      <3> QED
        BY <3>1
    <2> QED
      BY <2>1
  <1>2. /\ \A i \in DOMAIN queue' : i = k + 1 \/ (i \in DOMAIN queue /\ i # k + 1)
        /\ \A i \in DOMAIN queue : i \in DOMAIN queue'
        /\ k + 1 \in DOMAIN queue'
    BY <1>1
  <1>3. batch' = <<>>
    BY DEF Submit
  <1>4. ASSUME NEW i \in DOMAIN queue'
        PROVE  /\ IsInjective(queue'[i]) /\ Range(queue'[i]) \cap Range(batch') = {}
               /\ \A j \in DOMAIN queue' : i # j => Range(queue'[i]) \cap Range(queue'[j]) = {}
               /\ \A a \in Actors : Range(hand'[a]) \cap Range(queue'[i]) = {}
    <2>1. CASE i = k + 1
      BY <1>1, <1>2, <1>3, <2>1, EmptyPile DEF Piles
    <2>2. CASE i \in DOMAIN queue
      BY <1>1, <1>2, <1>3, <2>2, EmptyPile DEF Piles
    <2> QED
      BY <1>2, <2>1, <2>2
  <1>5. Piles'
    BY <1>3, <1>4, EmptyPile DEF Piles
  <1>6. ASSUME NEW x PROVE (\E i \in DOMAIN queue' : x \in Range(queue'[i]))
                              <=> \/ x \in Range(b)
                                  \/ \E i \in DOMAIN queue : x \in Range(queue[i])
    BY <1>1, <1>2
  <1>7. ASSUME NEW x PROVE x \in Waiting' <=> x \in Waiting \cup Range(b)
    BY <1>3, <1>6, EmptyPile, WaitingIs
  <1> QED
    BY <1>5, <1>7

(* A file that is nowhere yet goes into the empty hands of a thread.         *)
LEMMA PilesHand ==
    ASSUME Types, Piles, NEW a \in Actors, hand[a] = <<>>, NEW n \in Files \ Waiting,
           hand' = [hand EXCEPT ![a] = <<n>>], UNCHANGED <<batch, queue>>
    PROVE  Piles' /\ Waiting' = Waiting \cup {n}
  <1>1. /\ n \notin Range(batch) /\ \A i \in DOMAIN queue : n \notin Range(queue[i])
        /\ \A b \in Actors : n \notin Range(hand[b])
    BY WaitingIs
  <1>2. IsInjective(<<n>>) /\ Range(<<n>>) = {n}
    BY DEF IsInjective, Range
  <1>3. hand'[a] = <<n>> /\ \A b \in Actors \ {a} : hand'[b] = hand[b]
    BY DEF Types, TypeOK
  <1>4. Piles'
    <2>1. ASSUME NEW b \in Actors
          PROVE  /\ IsInjective(hand'[b]) /\ Range(hand'[b]) \cap Range(batch) = {}
                 /\ \A i \in DOMAIN queue : Range(hand'[b]) \cap Range(queue[i]) = {}
      BY <1>1, <1>2, <1>3 DEF Piles
    <2>2. ASSUME NEW b \in Actors, NEW c \in Actors, b # c
          PROVE  Range(hand'[b]) \cap Range(hand'[c]) = {}
      BY <1>1, <1>2, <1>3, <2>2 DEF Piles
    <2> QED
      BY <2>1, <2>2 DEF Piles
  <1>5. \A x : (\E b \in Actors : x \in Range(hand'[b]))
                  <=> x = n \/ \E b \in Actors : x \in Range(hand[b])
    BY <1>2, <1>3, EmptyPile
  <1> QED
    BY <1>4, <1>5, WaitingIs

-----------------------------------------------------------------------------
(* What waits, and where the next file is.                                   *)

(* What waits is a finite set of files.                                      *)
LEMMA WaitingFiles ==
    /\ Types  => Waiting \subseteq Files /\ IsFiniteSet(Waiting) /\ Cardinality(Waiting) \in Nat
    /\ Types' => /\ Waiting' \subseteq Files /\ IsFiniteSet(Waiting')
                 /\ Cardinality(Waiting') \in Nat
  <1>1. \A S : S \subseteq Files => IsFiniteSet(S) /\ Cardinality(S) \in Nat
    BY TreeAssumption, FS_Subset, FS_CardinalityType DEF Files
  <1>2. \A s \in Seq(Files) : Range(s) \subseteq Files
    BY DEF Range
  <1>3. Types => Waiting \subseteq Files
    <2> SUFFICES ASSUME Types, NEW x \in Waiting PROVE x \in Files
      OBVIOUS
    <2>1. batch \in Seq(Files) /\ \A a \in Actors : hand[a] \in Seq(Files)
      BY DEF Types, TypeOK
    <2>2. \A i \in DOMAIN queue : queue[i] \in Seq(Files)
      BY DEF Types, TypeOK
    <2> QED
      BY <1>2, <2>1, <2>2, WaitingIs
  <1>4. Types' => Waiting' \subseteq Files
    <2> SUFFICES ASSUME Types', NEW x \in Waiting' PROVE x \in Files
      OBVIOUS
    <2>1. batch' \in Seq(Files) /\ \A a \in Actors : hand'[a] \in Seq(Files)
      BY DEF Types, TypeOK
    <2>2. \A i \in DOMAIN queue' : queue'[i] \in Seq(Files)
      BY DEF Types, TypeOK
    <2> QED
      BY <1>2, <2>1, <2>2, WaitingIs
  <1> QED
    BY <1>1, <1>3, <1>4


(* A step of delete_file_entry leaves the piles apart, and takes nothing     *)
(* but the thread's own files out of them.                                   *)
LEMMA PilesFile ==
    ASSUME Types, Piles, NEW a \in Actors, FileStep(a)
    PROVE  Piles' /\ Waiting' \subseteq Waiting
  <1>1. CASE FileAbort(a)
    <2>1. hand' = [hand EXCEPT ![a] = <<>>] /\ UNCHANGED <<batch, queue>>
      BY <1>1 DEF FileAbort
    <2>2. IsInjective(<<>>) /\ Range(<<>>) \subseteq Range(hand[a])
      BY EmptyPile
    <2> QED
      BY <2>1, <2>2, PilesShrink
  <1>2. CASE FileDryRun(a) \/ Unlink(a) \/ UnlinkGone(a) \/ UnlinkError(a)
    <2>1. step[a] # "idle" /\ Advance(a) /\ UNCHANGED <<batch, queue>>
      BY <1>2 DEF FileDryRun, Unlink, UnlinkGone, UnlinkError
    <2> QED
      BY <2>1, PilesAdvance
  <1>3. CASE FileEnter(a) \/ UnlinkForce(a)
    <2>1. UNCHANGED <<batch, queue, hand>>
      BY <1>3 DEF FileEnter, UnlinkForce, Goto
    <2> QED
      BY <2>1 DEF Piles, Waiting
  <1> QED
    BY <1>1, <1>2, <1>3 DEF FileStep

(* The pool gets the partial batch: nothing waits that did not.              *)
LEMMA PilesRest ==
    ASSUME Types, Piles, SubmitRest, hand' = hand
    PROVE  Piles' /\ Waiting' = Waiting
  <1>1. CASE batch # <<>>
    <2>1. /\ batch \in Seq(Files) /\ IsInjective(batch) /\ Submit(batch)
          /\ \A i \in DOMAIN queue : Range(batch) \cap Range(queue[i]) = {}
          /\ \A a \in Actors : Range(batch) \cap Range(hand[a]) = {}
      BY <1>1 DEF Types, TypeOK, Piles, SubmitRest
    <2>2. Piles' /\ Waiting' = Waiting \cup Range(batch)
      BY <2>1, PilesSubmit
    <2> QED
      BY <2>2, WaitingIs
  <1>2. CASE batch = <<>>
    BY <1>2 DEF SubmitRest, Piles, Waiting
  <1> QED
    BY <1>1, <1>2

(* A file joins the batch, and a full batch goes to the pool.                *)
LEMMA PilesBatch ==
    ASSUME Types, Piles, item.node \in Files \ Waiting, BatchFile
    PROVE  Piles' /\ Waiting' = Waiting \cup {item.node}
  <1> DEFINE n == item.node
             b == Append(batch, n)
  <1>1. batch \in Seq(Files) /\ n \in Files /\ IsInjective(batch)
    BY DEF Types, TypeOK, Piles
  <1>2. /\ n \notin Range(batch) /\ \A i \in DOMAIN queue : n \notin Range(queue[i])
        /\ \A a \in Actors : n \notin Range(hand[a])
    BY WaitingIs
  <1>3. b \in Seq(Files) /\ IsInjective(b) /\ Range(b) = Range(batch) \cup {n}
    BY <1>1, <1>2, AppendAdds
  <1>4. CASE Submit(b) /\ hand' = hand
    <2>1. /\ \A i \in DOMAIN queue : Range(b) \cap Range(queue[i]) = {}
          /\ \A a \in Actors : Range(b) \cap Range(hand[a]) = {}
      BY <1>2, <1>3 DEF Piles
    <2>2. Piles' /\ Waiting' = Waiting \cup Range(b)
      BY <1>3, <1>4, <2>1, PilesSubmit
    <2> QED
      BY <1>3, <2>2, WaitingIs
  <1>5. CASE batch' = b /\ UNCHANGED <<queue, hand>>
    BY <1>5, PilesJoin
  <1>6. \/ Submit(b) /\ hand' = hand
        \/ batch' = b /\ UNCHANGED <<queue, hand>>
    BY DEF BatchFile
  <1> QED
    BY <1>4, <1>5, <1>6

(* The file in the main thread's hand is one, and waits nowhere.             *)
LEMMA FileInHand ==
    ASSUME IInv, Waits, Got({"FILE"})
    PROVE  item.node \in Files \ Waiting /\ item.node \in given
  BY JobAssumption DEF IInv, Asked, Matched, Waits, Got

(* A step of the loop moves the file in hand, if there is one, to a pile.    *)
LEMMA PilesLoop ==
    ASSUME IInv, Piles, Waits, Looping
    PROVE  /\ Piles' /\ UNCHANGED <<given, yielded, abort>> /\ pc # "done" /\ pc' # "got"
           /\ \/ Waiting' = Waiting /\ ~BatchFile /\ ~StreamFile
              \/ /\ BatchFile \/ StreamFile
                 /\ item.node \in given \ Waiting /\ Waiting' = Waiting \cup {item.node}
  <1>1. UNCHANGED <<given, yielded, abort>> /\ pc # "done" /\ pc' # "got"
    BY DEF Looping, LoopAbort, StreamFile, StreamReturn, BatchFile, PostDir, Drain,
                  SkipItem, ScanError, Flush, Join, Got, AfterLoop
  <1>2. CASE BatchFile
    <2>1. item.node \in Files \ Waiting /\ item.node \in given
      BY <1>2, FileInHand DEF BatchFile
    <2> QED
      BY <1>1, <1>2, <2>1, PilesBatch DEF IInv
  <1>3. CASE StreamFile
    <2>1. item.node \in Files \ Waiting /\ item.node \in given
      BY <1>3, FileInHand DEF StreamFile
    <2>2. Main \in Actors /\ hand[Main] = <<>>
      BY <1>3 DEF StreamFile, Got, IInv, Drains, Types, HandsBusy, Actors
    <2>3. hand' = [hand EXCEPT ![Main] = <<item.node>>] /\ UNCHANGED <<batch, queue>>
      BY <1>3 DEF StreamFile
    <2>4. Piles' /\ Waiting' = Waiting \cup {item.node}
      BY <2>1, <2>2, <2>3, PilesHand DEF IInv
    <2> QED
      BY <1>1, <1>3, <2>1, <2>4
  <1>4. CASE ~BatchFile /\ ~StreamFile
    <2>1. hand' = hand /\ (SubmitRest \/ UNCHANGED <<batch, queue>>)
      BY <1>4 DEF Looping, LoopAbort, StreamReturn, PostDir, Drain, SkipItem, ScanError, Flush,
                  Join
    <2>2. Piles' /\ Waiting' = Waiting
      <3>1. CASE SubmitRest
        BY <2>1, <3>1, PilesRest DEF IInv
      <3>2. CASE UNCHANGED <<batch, queue>>
        BY <2>1, <3>2 DEF Piles, Waiting
      <3> QED
        BY <2>1, <3>1, <3>2
    <2> QED
      BY <1>1, <1>4, <2>2
  <1> QED
    BY <1>2, <1>3, <1>4

(* No step puts a file in two places, or hands over one the scanner did not  *)
(* give.                                                                     *)
LEMMA PilesNext == ASSUME IInv, ScanOnce, Piles, Waits, [Next]_vars PROVE Piles' /\ Waits'
  <1>0. Types
    BY DEF IInv
  <1>1. ASSUME NEW a \in Actors, FileStep(a) PROVE Piles' /\ Waits'
    <2>1. Piles' /\ Waiting' \subseteq Waiting
      BY <1>0, <1>1, PilesFile
    <2>2. UNCHANGED <<given, pc, item>>
      BY <1>1 DEF FileStep, FileAbort, FileDryRun, FileEnter, Unlink, UnlinkGone, UnlinkForce,
                  UnlinkError
    <2> QED
      BY <2>1, <2>2 DEF Waits
  <1>2. ASSUME NEW w \in Workers, TakeBatch(w) PROVE Piles' /\ Waits'
    <2>1. Piles' /\ Waiting' = Waiting /\ UNCHANGED <<given, pc, item>>
      BY <1>0, <1>2, PilesTake DEF TakeBatch
    <2> QED
      BY <2>1 DEF Waits
  <1>3. CASE Looping
    <2>1. Piles' /\ given' = given /\ pc' # "got" /\ Waiting' \subseteq given
      BY <1>3, PilesLoop DEF Waits
    <2> QED
      BY <2>1 DEF Waits
  <1>4. ASSUME UNCHANGED <<batch, queue, hand>>, given \subseteq given',
               pc' = "got" /\ item'.action = "FILE" => item'.node \in given' \ Waiting
        PROVE  Piles' /\ Waits'
    <2>1. Piles' /\ Waiting' = Waiting
      BY <1>4 DEF Piles, Waiting
    <2> QED
      BY <1>4, <2>1 DEF Waits
  <1>5. CASE DirStep
    <2>1. UNCHANGED <<batch, queue, hand, given>> /\ pc' # "got"
      BY <1>5 DEF DirStep, DirAbort, RootChanged, DirDryRun, DirEnter, Rmdir, RmdirGone,
                  RmdirNotEmpty, RmdirForce, RmdirError
    <2> QED
      BY <1>4, <2>1
  <1>6. CASE Meddling \/ UNCHANGED vars
    <2>1. UNCHANGED <<batch, queue, hand, given, pc, item>>
      BY <1>6 DEF Meddling, RequestAbort, Meddle, vars
    <2> QED
      BY <1>4, <2>1 DEF Waits
  <1>7. CASE Scanning
    <2>1. UNCHANGED <<batch, queue, hand>> /\ given \subseteq given'
      BY <1>7 DEF Scanning, Inspect, OpenRoot, ScanEnd, ScanDone, ScanFail, ScanFile, ScanDir,
                  ScanStep, Pop
    <2>2. pc' = "got" /\ item'.action = "FILE" => item'.node \in given' \ Waiting
      <3>1. ASSUME NEW n \in Nodes, ScanFile(n) PROVE item'.node \in given' \ Waiting
        <4>1. n \notin given /\ n \in given' /\ item'.node = n
          BY <1>0, <3>1, ScanNew DEF ScanFile, ScanStep, Yield, Item
        <4> QED
          BY <4>1 DEF Waits
      <3>2. CASE ~\E n \in Nodes : ScanFile(n)
        BY <1>7, <3>2 DEF Scanning, Inspect, OpenRoot, ScanEnd, ScanDone, ScanFail, ScanDir,
                          ScanStep, Yield, Item, AfterLoop
      <3> QED
        BY <3>1, <3>2
    <2> QED
      BY <1>4, <2>1, <2>2
  <1> QED
    BY <1>1, <1>2, <1>3, <1>5, <1>6, <1>7, Steps

-----------------------------------------------------------------------------
(* Every item is counted once.                                               *)

(* The sum of the counters an item can end in is a number, and grows by one  *)
(* with each of them.                                                        *)
LEMMA CountedIs ==
    ASSUME Types
    PROVE  /\ Counted \in Nat /\ yielded \in Nat
           /\ stats.files \in Nat /\ stats.discovered \in Nat /\ stats.failed \in Nat
           /\ \A f \in {"files", "dirs", "failed", "skipped"} : Count(f) => Counted' = Counted + 1
           /\ Count("discovered") => Counted' = Counted
           /\ stats' = [stats EXCEPT !.discovered = @ + 1, !.files = @ + 1]
                 => Counted' = Counted + 1
           /\ stats' = stats => Counted' = Counted
  <1>1. stats \in [Counters -> Nat] /\ yielded \in Nat
    BY DEF Types, TypeOK
  <1>2. DOMAIN stats = {"discovered", "files", "dirs", "failed", "skipped"}
    BY <1>1 DEF Counters
  <1>3. /\ stats.files \in Nat /\ stats.dirs \in Nat /\ stats.failed \in Nat
        /\ stats.skipped \in Nat /\ stats.discovered \in Nat
    BY <1>1 DEF Counters
  <1>4. \A f \in {"files", "dirs", "failed", "skipped"} : Count(f) => Counted' = Counted + 1
    <2>1. Count("files") => Counted' = Counted + 1
      BY <1>2, <1>3 DEF Counted, Count
    <2>2. Count("dirs") => Counted' = Counted + 1
      BY <1>2, <1>3 DEF Counted, Count
    <2>3. Count("failed") => Counted' = Counted + 1
      BY <1>2, <1>3 DEF Counted, Count
    <2>4. Count("skipped") => Counted' = Counted + 1
      BY <1>2, <1>3 DEF Counted, Count
    <2> QED
      BY <2>1, <2>2, <2>3, <2>4
  <1>5. Count("discovered") => Counted' = Counted
    BY <1>2, <1>3 DEF Counted, Count
  <1>6. stats' = [stats EXCEPT !.discovered = @ + 1, !.files = @ + 1] => Counted' = Counted + 1
    BY <1>2, <1>3 DEF Counted
  <1>7. stats' = stats => Counted' = Counted
    BY DEF Counted
  <1> QED
    BY <1>1, <1>3, <1>4, <1>5, <1>6, <1>7 DEF Counted

(* What is owed and what was yielded grow together.                          *)
LEMMA Together ==
    ASSUME NEW k \in Nat, NEW n \in Nat, NEW u \in Nat, NEW y \in Nat,
           NEW c \in Int, NEW w \in Int, NEW h \in Int, NEW d \in Int
    PROVE  /\ (k + n + u <= y /\ c + w + h <= d) => (k + c) + (n + w) + (u + h) <= y + d
           /\ (k + n + u = y /\ c + w + h = d) => (k + c) + (n + w) + (u + h) = y + d
  OBVIOUS

(* At the end nothing is owed but what was counted.                          *)
LEMMA AtTheEnd ==
    ASSUME NEW k \in Nat, NEW n, NEW u, NEW y \in Nat, n = 0, u = 0
    PROVE  k + n + u <= y => k <= y + (IF y = 0 THEN 1 ELSE 0)
  OBVIOUS

(* A step that adds c to what is counted, w to what waits, h to what is in   *)
(* the main thread's hand and y to what was yielded.                         *)
LEMMA TallyKept ==
    ASSUME Types, Types', Tally, pc # "done", pc' = "done" => Waiting' = {},
           NEW c \in Int, NEW w \in Int, NEW h \in Int, NEW y \in Int,
           Counted' = Counted + c, Cardinality(Waiting') = Cardinality(Waiting) + w,
           InHand' = InHand + h, yielded' = yielded + y,
           c + w + h <= y, ~abort' => ~abort /\ c + w + h = y
    PROVE  Tally'
  <1>1. /\ Counted \in Nat /\ yielded \in Nat /\ Cardinality(Waiting) \in Nat /\ InHand \in Nat
        /\ Due = Counted + Cardinality(Waiting) + InHand
    BY WaitingFiles, CountedIs DEF Due, InHand
  <1>2. Counted' \in Nat /\ yielded' \in Nat /\ Cardinality(Waiting') \in Nat
    <2>1. stats' \in [Counters -> Nat] /\ yielded' \in Nat
      BY DEF Types, TypeOK
    <2> QED
      BY <2>1, WaitingFiles DEF Counted, Counters
  <1>3. Due' = (Counted + c) + (Cardinality(Waiting) + w) + (InHand + h)
    BY DEF Due
  <1>4. Due <= yielded /\ (~abort => Due = yielded)
    BY DEF Tally
  <1>5. Due' <= yielded'
    <2>1. Counted + Cardinality(Waiting) + InHand <= yielded /\ c + w + h <= y
      BY <1>1, <1>4
    <2>2. (Counted + c) + (Cardinality(Waiting) + w) + (InHand + h) <= yielded + y
      BY ONLY <1>1, <2>1, Together
    <2> QED
      BY <1>3, <2>2
  <1>6. ASSUME ~abort' PROVE Due' = yielded'
    <2>1. Counted + Cardinality(Waiting) + InHand = yielded /\ c + w + h = y
      BY <1>1, <1>4, <1>6
    <2>2. (Counted + c) + (Cardinality(Waiting) + w) + (InHand + h) = yielded + y
      BY ONLY <1>1, <2>1, Together
    <2> QED
      BY <1>3, <2>2
  <1>7. CASE pc' = "done"
    <2>1. Cardinality(Waiting') = 0 /\ InHand' = 0
      BY <1>7, FS_EmptySet DEF Holding, InHand
    <2>2. Due' = Counted' + Cardinality(Waiting') + InHand'
      BY DEF Due
    <2>3. Counted' + Cardinality(Waiting') + InHand' <= yielded'
      BY <1>5, <2>2
    <2>4. Counted' <= yielded' + (IF yielded' = 0 THEN 1 ELSE 0)
      BY ONLY <1>2, <2>1, <2>3, AtTheEnd
    <2>5. ASSUME ~abort' PROVE Counted' = yielded'
      <3>1. Due' = yielded'
        BY <1>6, <2>5
      <3>2. Counted' + Cardinality(Waiting') + InHand' = yielded'
        BY ONLY <2>2, <3>1
      <3>3. PICK k \in Nat, y1 \in Nat : k = Counted' /\ y1 = yielded'
        BY <1>2
      <3>4. k + 0 + 0 = y1
        BY ONLY <2>1, <3>2, <3>3
      <3>5. k = y1
        BY ONLY <3>4
      <3> QED
        BY <3>3, <3>5
    <2> QED
      BY <1>7, <2>4, <2>5 DEF Tally
  <1>8. CASE pc' # "done"
    BY <1>5, <1>6, <1>8 DEF Tally
  <1> QED
    BY <1>7, <1>8

(* What goes in and out of the set of files that wait.                       *)
LEMMA WaitingSize ==
    ASSUME Types, Types', NEW n
    PROVE  /\ n \in Waiting /\ Waiting' = Waiting \ {n}
                 => Cardinality(Waiting') = Cardinality(Waiting) + (-1)
           /\ n \notin Waiting /\ Waiting' = Waiting \cup {n}
                 => Cardinality(Waiting') = Cardinality(Waiting) + 1
           /\ Waiting' = Waiting => Cardinality(Waiting') = Cardinality(Waiting) + 0
           /\ Waiting' \subseteq Waiting
                 => \E w \in Int : w <= 0 /\ Cardinality(Waiting') = Cardinality(Waiting) + w
  <1>1. /\ IsFiniteSet(Waiting) /\ Cardinality(Waiting) \in Nat /\ Cardinality(Waiting') \in Nat
    BY WaitingFiles
  <1>2. n \in Waiting /\ Waiting' = Waiting \ {n}
           => Cardinality(Waiting') = Cardinality(Waiting) + (-1)
    BY <1>1, FS_RemoveElement
  <1>3. n \notin Waiting /\ Waiting' = Waiting \cup {n}
           => Cardinality(Waiting') = Cardinality(Waiting) + 1
    BY <1>1, FS_AddElement
  <1>4. Waiting' = Waiting => Cardinality(Waiting') = Cardinality(Waiting) + 0
    BY <1>1
  <1>5. ASSUME Waiting' \subseteq Waiting
        PROVE  \E w \in Int : w <= 0 /\ Cardinality(Waiting') = Cardinality(Waiting) + w
    <2>1. Cardinality(Waiting') <= Cardinality(Waiting)
      BY <1>1, <1>5, FS_Subset
    <2>2. \A m, k \in Nat : m <= k => m - k \in Int /\ m - k <= 0 /\ m = k + (m - k)
      OBVIOUS
    <2> QED
      BY ONLY <1>1, <2>1, <2>2
  <1> QED
    BY <1>2, <1>3, <1>4, <1>5

(* No step loses an item or counts one twice.                                *)
LEMMA TallyNext ==
    ASSUME IInv, IInv', PostOrder', ScanOnce, Piles, Waits, Tally, [Next]_vars
    PROVE  Tally'
  <1>0. /\ Types /\ Types' /\ 0 \in Int /\ 1 \in Int /\ -1 \in Int
        /\ pc' = "done" => Waiting' = {}
        /\ InHand = 0 \/ InHand = 1
    BY DEF IInv, PostOrder, InHand
  <1>1. CASE UNCHANGED vars
    <2>1. Waiting' = Waiting /\ Counted' = Counted /\ UNCHANGED <<pc, abort, yielded>>
      BY <1>1 DEF vars, Waiting, Counted
    <2> QED
      BY <2>1 DEF Tally, Due, InHand
  <1>2. ASSUME NEW a \in Actors, FileStep(a) PROVE Tally'
    <2>1. step[a] # "idle" /\ UNCHANGED <<pc, abort, yielded>>
      BY <1>2 DEF FileStep, FileAbort, FileDryRun, FileEnter, Unlink, UnlinkGone, UnlinkForce,
                  UnlinkError
    <2>2. pc # "done"
      BY <2>1 DEF IInv, Drains, PoolEmpty, Drained, Actors
    <2>3. InHand' = InHand + 0 /\ yielded' = yielded + 0
      BY <1>0, <2>1 DEF InHand, Types, TypeOK
    <2>4. CASE FileAbort(a)
      <3>1. abort' /\ Counted' = Counted + 0
        BY <1>0, <2>1, <2>4, CountedIs DEF FileAbort
      <3>2. Waiting' \subseteq Waiting
        BY <1>0, <1>2, PilesFile
      <3>3. PICK w \in Int : w <= 0 /\ Cardinality(Waiting') = Cardinality(Waiting) + w
        BY <1>0, <3>2, WaitingSize
      <3>4. 0 + w + 0 <= 0
        BY <3>3
      <3> QED
        BY <1>0, <2>2, <2>3, <3>1, <3>3, <3>4, TallyKept
    <2>5. CASE FileEnter(a) \/ UnlinkForce(a)
      <3>1. Counted' = Counted + 0
        BY <1>0, <2>5, CountedIs DEF FileEnter, UnlinkForce
      <3>2. Waiting' = Waiting
        BY <2>5 DEF FileEnter, UnlinkForce, Goto, Waiting
      <3>3. Cardinality(Waiting') = Cardinality(Waiting) + 0
        BY <1>0, <3>2, WaitingSize
      <3> QED
        BY <1>0, <2>1, <2>2, <2>3, <3>1, <3>3, TallyKept
    <2>6. CASE FileDryRun(a) \/ Unlink(a) \/ UnlinkGone(a) \/ UnlinkError(a)
      <3>1. Counted' = Counted + 1
        BY <1>0, <2>6, CountedIs DEF FileDryRun, Unlink, UnlinkGone, UnlinkError
      <3>2. Advance(a) /\ UNCHANGED <<batch, queue>>
        BY <2>6 DEF FileDryRun, Unlink, UnlinkGone, UnlinkError
      <3>3. Cardinality(Waiting') = Cardinality(Waiting) + (-1)
        BY <1>0, <2>1, <3>2, PilesAdvance, WaitingSize
      <3>4. 1 + (-1) + 0 = 0
        OBVIOUS
      <3> QED
        BY <1>0, <2>1, <2>2, <2>3, <3>1, <3>3, <3>4, TallyKept
    <2> QED
      BY <1>2, <2>4, <2>5, <2>6 DEF FileStep
  <1>3. ASSUME NEW w \in Workers, TakeBatch(w) PROVE Tally'
    <2>1. UNCHANGED <<pc, abort, yielded, stats>> /\ Waiting' = Waiting
      BY <1>0, <1>3, PilesTake DEF TakeBatch
    <2>2. Counted' = Counted
      BY <2>1 DEF Counted
    <2> QED
      BY <2>1, <2>2 DEF Tally, Due, InHand
  <1>4. CASE Meddling
    <2>1. /\ UNCHANGED <<pc, yielded>> /\ Waiting' = Waiting /\ Counted' = Counted
          /\ ~abort' => ~abort
          /\ pc # "done"
      BY <1>4 DEF Meddling, RequestAbort, Meddle, Waiting, Counted
    <2>2. Due' = Due
      BY <2>1 DEF Due, InHand
    <2>3. Due <= yielded /\ (~abort => Due = yielded)
      BY <2>1 DEF Tally
    <2> QED
      BY <2>1, <2>2, <2>3 DEF Tally
  <1>5. CASE DirStep
    <2>1. /\ UNCHANGED <<poolVars, yielded, abort>> /\ pc \in Holding /\ pc # "done"
          /\ pc' # "done"
      BY <1>5 DEF DirStep, DirAbort, RootChanged, DirDryRun, DirEnter, Rmdir, RmdirGone,
                  RmdirNotEmpty, RmdirForce, RmdirError, Holding
    <2>2. /\ yielded' = yielded + 0 /\ Cardinality(Waiting') = Cardinality(Waiting) + 0
          /\ InHand = 1
      <3>1. Waiting' = Waiting
        BY <2>1 DEF Waiting
      <3> QED
        BY <1>0, <2>1, <3>1, WaitingSize DEF InHand, Types, TypeOK
    <2>3. CASE DirAbort
      <3>1. abort' /\ Counted' = Counted + 0 /\ InHand' = InHand + (-1)
        BY <1>0, <2>1, <2>2, <2>3, CountedIs DEF DirAbort, InHand, Holding
      <3>2. 0 + 0 + (-1) <= 0
        OBVIOUS
      <3> QED
        BY <1>0, <2>1, <2>2, <3>1, <3>2, TallyKept
    <2>4. CASE DirEnter \/ RmdirForce
      <3>1. Counted' = Counted + 0 /\ InHand' = InHand + 0
        BY <1>0, <2>2, <2>4, CountedIs DEF DirEnter, RmdirForce, InHand, Holding
      <3> QED
        BY <1>0, <2>1, <2>2, <3>1, TallyKept
    <2>5. CASE RootChanged \/ DirDryRun \/ Rmdir \/ RmdirGone \/ RmdirNotEmpty \/ RmdirError
      <3>1. Counted' = Counted + 1
        BY <1>0, <2>5, CountedIs
           DEF RootChanged, DirDryRun, Rmdir, RmdirGone, RmdirNotEmpty, RmdirError
      <3>2. pc' = "next"
        BY <2>5 DEF RootChanged, DirDryRun, Rmdir, RmdirGone, RmdirNotEmpty, RmdirError
      <3>3. InHand' = InHand + (-1)
        BY <2>2, <3>2 DEF InHand, Holding
      <3>4. 1 + 0 + (-1) = 0
        OBVIOUS
      <3> QED
        BY <1>0, <2>1, <2>2, <3>1, <3>3, <3>4, TallyKept
    <2> QED
      BY <1>5, <2>3, <2>4, <2>5 DEF DirStep
  <1>6. CASE Looping
    <2>1. /\ UNCHANGED <<yielded, abort>> /\ pc # "done" /\ yielded' = yielded + 0
      BY <1>0, <1>6, PilesLoop DEF IInv, Types, TypeOK
    <2>2. CASE BatchFile \/ StreamFile
      <3>1. item.node \notin Waiting /\ Waiting' = Waiting \cup {item.node}
        BY <1>6, <2>2, PilesLoop
      <3>2. Cardinality(Waiting') = Cardinality(Waiting) + 1
        BY <1>0, <3>1, WaitingSize
      <3>3. Counted' = Counted + 0 /\ InHand' = InHand + (-1)
        BY <1>0, <2>2, CountedIs DEF BatchFile, StreamFile, Got, InHand, Holding
      <3>4. 0 + 1 + (-1) = 0
        OBVIOUS
      <3> QED
        BY <1>0, <2>1, <3>2, <3>3, <3>4, TallyKept
    <2>3. ASSUME ~BatchFile /\ ~StreamFile
          PROVE  Cardinality(Waiting') = Cardinality(Waiting) + 0
      <3>1. Waiting' = Waiting
        BY <1>6, <2>3, PilesLoop
      <3> QED
        BY <1>0, <3>1, WaitingSize
    <2>4. CASE LoopAbort
      <3>1. ~BatchFile /\ ~StreamFile /\ abort'
        BY <2>4 DEF LoopAbort, BatchFile, StreamFile, Got
      <3>2. Counted' = Counted + 0 /\ InHand' = InHand + (-1)
        BY <1>0, <2>4, CountedIs DEF LoopAbort, AfterLoop, InHand, Holding
      <3>3. 0 + 0 + (-1) <= 0
        OBVIOUS
      <3> QED
        BY <1>0, <2>1, <2>3, <3>1, <3>2, <3>3, TallyKept
    <2>5. CASE StreamReturn \/ Flush \/ Join \/ PostDir \/ Drain
      <3>1. ~BatchFile /\ ~StreamFile
        BY <2>5 DEF StreamReturn, Flush, Join, PostDir, Drain, BatchFile, StreamFile, Got
      <3>2. Counted' = Counted + 0 /\ InHand' = InHand + 0
        <4>1. UNCHANGED stats /\ (pc' \in Holding <=> pc \in Holding)
          BY <2>5 DEF StreamReturn, Flush, Join, PostDir, Drain, Got, Holding
        <4> QED
          BY <1>0, <4>1, CountedIs DEF InHand
      <3> QED
        BY <1>0, <2>1, <2>3, <3>1, <3>2, TallyKept
    <2>6. CASE SkipItem \/ ScanError
      <3>1. ~BatchFile /\ ~StreamFile
        BY <2>6 DEF SkipItem, ScanError, BatchFile, StreamFile, Got
      <3>2. Counted' = Counted + 1 /\ InHand' = InHand + (-1)
        BY <1>0, <2>6, CountedIs DEF SkipItem, ScanError, Got, InHand, Holding
      <3>3. 1 + 0 + (-1) = 0
        OBVIOUS
      <3> QED
        BY <1>0, <2>1, <2>3, <3>1, <3>2, <3>3, TallyKept
    <2> QED
      BY <1>6, <2>2, <2>4, <2>5, <2>6 DEF Looping
  <1>7. CASE Scanning
    <2>1. UNCHANGED <<poolVars, abort>> /\ pc # "done"
      BY <1>7 DEF Scanning, Inspect, OpenRoot, ScanEnd, ScanDone, ScanFail, ScanFile, ScanDir,
                  ScanStep
    <2>2. Waiting' = Waiting /\ Cardinality(Waiting') = Cardinality(Waiting) + 0
      <3>1. Waiting' = Waiting
        BY <2>1 DEF Waiting
      <3> QED
        BY <1>0, <3>1, WaitingSize
    <2>3. CASE Inspect /\ Root \notin present
      <3>1. /\ pc = "start" /\ pc' = "done" /\ Count("failed") /\ yielded' = yielded
            /\ yielded = 0
        BY <2>3 DEF Inspect, ScanOnce
      <3>2. Counted' = Counted + 1 /\ Counted \in Nat
        BY <1>0, <3>1, CountedIs
      <3>3. Counted = 0
        <4>1. Counted + Cardinality(Waiting) + InHand <= 0
          BY <3>1 DEF Tally, Due
        <4> QED
          BY <1>0, <3>2, <4>1, WaitingFiles DEF InHand
      <3> QED
        BY <3>1, <3>2, <3>3 DEF Tally
    <2>4. ASSUME stats' = stats, yielded' = yielded, pc \notin Holding, pc' \notin Holding
          PROVE  Tally'
      <3>1. Counted' = Counted + 0 /\ InHand' = InHand + 0 /\ yielded' = yielded + 0
        BY <1>0, <2>4, CountedIs DEF InHand, Types, TypeOK
      <3> QED
        BY <1>0, <2>1, <2>2, <3>1, TallyKept
    <2>5. ASSUME stats' = stats, yielded' = yielded + 1, pc \notin Holding, pc' = "got"
          PROVE  Tally'
      <3>1. Counted' = Counted + 0 /\ InHand' = InHand + 1
        BY <1>0, <2>5, CountedIs DEF InHand, Holding
      <3>2. 0 + 0 + 1 = 1
        OBVIOUS
      <3> QED
        BY <1>0, <2>1, <2>2, <2>5, <3>1, <3>2, TallyKept
    <2>6. CASE ~(Inspect /\ Root \notin present)
      <3>1. /\ stats' = stats /\ pc \notin Holding
            /\ \/ yielded' = yielded /\ pc' \notin Holding
               \/ yielded' = yielded + 1 /\ pc' = "got"
        BY <1>7, <2>6 DEF Scanning, Inspect, OpenRoot, ScanEnd, ScanDone, ScanFail, ScanFile,
                          ScanDir, ScanStep, Yield, AfterLoop, Holding
      <3> QED
        BY <2>4, <2>5, <3>1
    <2> QED
      BY <2>3, <2>6
  <1> QED
    BY <1>1, <1>2, <1>3, <1>4, <1>5, <1>6, <1>7, Steps

-----------------------------------------------------------------------------
(* Every file discovered is removed, failed or being unlinked.               *)

(* The bounds of Discovery, where each number grows by some amount.          *)
LEMMA Between ==
    ASSUME NEW f \in Nat, NEW k \in Nat, NEW d \in Nat, NEW e \in Nat,
           NEW df \in Int, NEW dk \in Int, NEW dd \in Int, NEW de \in Int,
           f + k <= d, d <= f + e + k, df + dk <= dd, dd <= df + de + dk
    PROVE  /\ (f + df) + (k + dk) <= d + dd
           /\ d + dd <= (f + df) + (e + de) + (k + dk)
  OBVIOUS

(* A step that adds df, dd and de to three counters and dk to the threads    *)
(* that unlink.                                                              *)
LEMMA DiscoveryKept ==
    ASSUME Types, Discovery, IsFiniteSet(Underway'),
           NEW df \in Int, NEW dk \in Int, NEW dd \in Int, NEW de \in Int,
           stats'.files = stats.files + df,
           stats'.discovered = stats.discovered + dd,
           stats'.failed = stats.failed + de,
           Cardinality(Underway') = Cardinality(Underway) + dk,
           df + dk <= dd, dd <= df + de + dk
    PROVE  Discovery'
  <1>1. /\ stats.files \in Nat /\ stats.discovered \in Nat /\ stats.failed \in Nat
        /\ Cardinality(Underway) \in Nat
    BY CountedIs, FS_CardinalityType DEF Discovery
  <1>2. PICK f \in Nat, k \in Nat, d \in Nat, e \in Nat :
           f = stats.files /\ k = Cardinality(Underway) /\ d = stats.discovered /\ e = stats.failed
    BY <1>1
  <1>3. f + k <= d /\ d <= f + e + k
    BY <1>2 DEF Discovery
  <1>4. df + dk <= dd /\ dd <= df + de + dk
    OBVIOUS
  <1>5. /\ (f + df) + (k + dk) <= d + dd
        /\ d + dd <= (f + df) + (e + de) + (k + dk)
    BY ONLY <1>3, <1>4, Between
  <1> QED
    BY <1>2, <1>5 DEF Discovery

(* What a step counts of files.                                              *)
LEMMA FileCounters ==
    ASSUME Types
    PROVE  /\ stats' = stats \/ Count("dirs") \/ Count("skipped") =>
                 /\ stats'.files = stats.files + 0
                 /\ stats'.discovered = stats.discovered + 0
                 /\ stats'.failed = stats.failed + 0
           /\ Count("files") =>
                 /\ stats'.files = stats.files + 1
                 /\ stats'.discovered = stats.discovered + 0
                 /\ stats'.failed = stats.failed + 0
           /\ Count("failed") =>
                 /\ stats'.files = stats.files + 0
                 /\ stats'.discovered = stats.discovered + 0
                 /\ stats'.failed = stats.failed + 1
           /\ Count("discovered") =>
                 /\ stats'.files = stats.files + 0
                 /\ stats'.discovered = stats.discovered + 1
                 /\ stats'.failed = stats.failed + 0
           /\ stats' = [stats EXCEPT !.discovered = @ + 1, !.files = @ + 1] =>
                 /\ stats'.files = stats.files + 1
                 /\ stats'.discovered = stats.discovered + 1
                 /\ stats'.failed = stats.failed + 0
  <1>1. DOMAIN stats = {"discovered", "files", "dirs", "failed", "skipped"}
    BY DEF Types, TypeOK, Counters
  <1>2. stats.files \in Nat /\ stats.discovered \in Nat /\ stats.failed \in Nat
    BY CountedIs
  <1>3. stats' = stats \/ Count("dirs") \/ Count("skipped") =>
           /\ stats'.files = stats.files + 0
           /\ stats'.discovered = stats.discovered + 0
           /\ stats'.failed = stats.failed + 0
    BY <1>1, <1>2 DEF Count
  <1>4. Count("files") =>
           /\ stats'.files = stats.files + 1
           /\ stats'.discovered = stats.discovered + 0
           /\ stats'.failed = stats.failed + 0
    BY <1>1, <1>2 DEF Count
  <1>5. Count("failed") =>
           /\ stats'.files = stats.files + 0
           /\ stats'.discovered = stats.discovered + 0
           /\ stats'.failed = stats.failed + 1
    BY <1>1, <1>2 DEF Count
  <1>6. Count("discovered") =>
           /\ stats'.files = stats.files + 0
           /\ stats'.discovered = stats.discovered + 1
           /\ stats'.failed = stats.failed + 0
    BY <1>1, <1>2 DEF Count
  <1>7. stats' = [stats EXCEPT !.discovered = @ + 1, !.files = @ + 1] =>
           /\ stats'.files = stats.files + 1
           /\ stats'.discovered = stats.discovered + 1
           /\ stats'.failed = stats.failed + 0
    BY <1>1, <1>2
  <1> QED
    BY <1>3, <1>4, <1>5, <1>6, <1>7

(* No step breaks the bounds.                                                *)
LEMMA DiscoveryNext == ASSUME IInv, Discovery, [Next]_vars PROVE Discovery'
  <1>0. /\ Types /\ 0 \in Int /\ 1 \in Int /\ -1 \in Int
        /\ IsFiniteSet(Underway) /\ Cardinality(Underway) \in Nat
    BY FS_CardinalityType DEF IInv, Discovery
  <1>1. ASSUME Underway' = Underway, stats' = stats \/ \E f \in {"dirs", "skipped", "failed"} : Count(f)
        PROVE  Discovery'
    <2>1. Cardinality(Underway') = Cardinality(Underway) + 0 /\ IsFiniteSet(Underway')
      BY <1>0, <1>1
    <2>2. CASE stats' = stats \/ Count("dirs") \/ Count("skipped")
      <3>1. 0 + 0 <= 0 /\ 0 <= 0 + 0 + 0
        OBVIOUS
      <3> QED
        BY <1>0, <2>1, <2>2, <3>1, FileCounters, DiscoveryKept
    <2>3. CASE Count("failed")
      <3>1. 0 + 0 <= 0 /\ 0 <= 0 + 1 + 0
        OBVIOUS
      <3> QED
        BY <1>0, <2>1, <2>3, <3>1, FileCounters, DiscoveryKept
    <2> QED
      BY <1>1, <2>2, <2>3
  <1>2. ASSUME NEW a \in Actors, FileStep(a) PROVE Discovery'
    <2>1. CASE FileAbort(a) \/ FileDryRun(a)
      <3>1. Underway' = Underway
        BY <1>0, <2>1 DEF FileAbort, FileDryRun, Advance, Underway, Types, TypeOK
      <3>2. CASE FileAbort(a)
        BY <1>1, <3>1, <3>2 DEF FileAbort
      <3>3. CASE FileDryRun(a)
        <4>1. stats' = [stats EXCEPT !.discovered = @ + 1, !.files = @ + 1]
          BY <3>3 DEF FileDryRun
        <4>2. Cardinality(Underway') = Cardinality(Underway) + 0 /\ IsFiniteSet(Underway')
          BY <1>0, <3>1
        <4>3. 1 + 0 <= 1 /\ 1 <= 1 + 0 + 0
          OBVIOUS
        <4> QED
          BY <1>0, <4>1, <4>2, <4>3, FileCounters, DiscoveryKept
      <3> QED
        BY <2>1, <3>2, <3>3
    <2>2. CASE FileEnter(a)
      <3>1. a \notin Underway /\ Underway' = Underway \cup {a}
        BY <1>0, <2>2 DEF FileEnter, Goto, Underway, Types, TypeOK
      <3>2. IsFiniteSet(Underway') /\ Cardinality(Underway') = Cardinality(Underway) + 1
        BY <1>0, <3>1, FS_AddElement
      <3>3. 0 + 1 <= 1 /\ 1 <= 0 + 0 + 1
        OBVIOUS
      <3>4. Count("discovered")
        BY <2>2 DEF FileEnter
      <3> QED
        BY <1>0, <3>2, <3>3, <3>4, FileCounters, DiscoveryKept
    <2>3. CASE UnlinkForce(a)
      <3>1. Underway' = Underway /\ stats' = stats
        BY <1>0, <2>3 DEF UnlinkForce, Goto, Underway, Types, TypeOK
      <3> QED
        BY <1>1, <3>1
    <2>4. CASE Unlink(a) \/ UnlinkGone(a) \/ UnlinkError(a)
      <3>1. a \in Underway /\ Underway' = Underway \ {a}
        BY <1>0, <2>4 DEF Unlink, UnlinkGone, UnlinkError, Advance, Underway, Types, TypeOK
      <3>2. IsFiniteSet(Underway') /\ Cardinality(Underway') = Cardinality(Underway) + (-1)
        BY <1>0, <3>1, FS_RemoveElement
      <3>3. CASE Count("files")
        <4>1. 1 + (-1) <= 0 /\ 0 <= 1 + 0 + (-1)
          OBVIOUS
        <4> QED
          BY <1>0, <3>2, <3>3, <4>1, FileCounters, DiscoveryKept
      <3>4. CASE Count("failed")
        <4>1. 0 + (-1) <= 0 /\ 0 <= 0 + 1 + (-1)
          OBVIOUS
        <4> QED
          BY <1>0, <3>2, <3>4, <4>1, FileCounters, DiscoveryKept
      <3> QED
        BY <2>4, <3>3, <3>4 DEF Unlink, UnlinkGone, UnlinkError
    <2> QED
      BY <1>2, <2>1, <2>2, <2>3, <2>4 DEF FileStep
  <1>3. ASSUME NEW w \in Workers, TakeBatch(w) PROVE Discovery'
    <2>1. Underway' = Underway /\ stats' = stats
      BY <1>0, <1>3 DEF TakeBatch, Underway, Types, TypeOK
    <2> QED
      BY <1>1, <2>1
  <1>4. CASE DirStep
    <2>1. Underway' = Underway /\ (stats' = stats \/ Count("dirs") \/ Count("skipped") \/ Count("failed"))
      BY <1>4 DEF DirStep, DirAbort, RootChanged, DirDryRun, DirEnter, Rmdir, RmdirGone,
                  RmdirNotEmpty, RmdirForce, RmdirError, Underway
    <2> QED
      BY <1>1, <2>1
  <1>5. CASE Scanning
    <2>1. Underway' = Underway /\ (stats' = stats \/ Count("failed"))
      BY <1>5 DEF Scanning, Inspect, OpenRoot, ScanEnd, ScanDone, ScanFail, ScanFile, ScanDir,
                  Underway
    <2> QED
      BY <1>1, <2>1
  <1>6. CASE Looping
    <2>1. Underway' = Underway
      <3>1. CASE StreamFile
        BY <1>0, <3>1 DEF StreamFile, Got, IInv, Drains, Underway, Types, TypeOK
      <3>2. CASE ~StreamFile
        BY <1>6, <3>2 DEF Looping, LoopAbort, StreamReturn, BatchFile, PostDir, Drain, SkipItem,
                          ScanError, Flush, Join, Underway
      <3> QED
        BY <3>1, <3>2
    <2>2. stats' = stats \/ Count("skipped") \/ Count("failed")
      BY <1>6 DEF Looping, LoopAbort, StreamFile, StreamReturn, BatchFile, PostDir, Drain,
                  SkipItem, ScanError, Flush, Join
    <2> QED
      BY <1>1, <2>1, <2>2
  <1>7. CASE Meddling \/ UNCHANGED vars
    <2>1. Underway' = Underway /\ stats' = stats
      BY <1>7 DEF Meddling, RequestAbort, Meddle, vars, Underway
    <2> QED
      BY <1>1, <2>1
  <1> QED
    BY <1>2, <1>3, <1>4, <1>5, <1>6, <1>7, Steps

-----------------------------------------------------------------------------
(* The counters of DeletionStats add up.                                     *)

(* Nothing is counted or waits when run() starts.                            *)
LEMMA CInvInit == Init => CInv
  <1> SUFFICES ASSUME Init PROVE CInv
    OBVIOUS
  <1>1. ScanOnce
    BY ScanOnceInit
  <1>2. batch = <<>> /\ queue = <<>> /\ \A a \in Actors : hand[a] = <<>>
    BY DEF Init
  <1>3. Piles
    BY <1>2, EmptyPile DEF Piles
  <1>4. Waiting = {}
    BY <1>2, EmptyPile, WaitingIs
  <1>5. Waits
    BY <1>4 DEF Waits, Init
  <1>6. Cardinality(Waiting) = 0
    BY <1>4, FS_EmptySet
  <1>7. Counted = 0 /\ stats.files = 0 /\ stats.discovered = 0 /\ stats.failed = 0
    BY DEF Init, Counted, Counters
  <1>8. Tally
    BY <1>6, <1>7 DEF Init, Tally, Due, InHand, Holding
  <1>9. Discovery
    <2>1. Underway = {}
      BY DEF Init, Underway
    <2> QED
      BY <1>7, <2>1, FS_EmptySet DEF Discovery
  <1> QED
    BY <1>1, <1>3, <1>5, <1>8, <1>9 DEF CInv

(* CInv is an invariant of Deleter.                                          *)
THEOREM CountInvariance == Spec => []CInv
  <1>1. Init => CInv
    BY CInvInit
  <1>2. IInv /\ IInv' /\ PostOrder' /\ CInv /\ [Next]_vars => CInv'
    <2> SUFFICES ASSUME IInv, IInv', PostOrder', CInv, [Next]_vars PROVE CInv'
      OBVIOUS
    <2>1. ScanOnce'
      BY ScanOnceNext DEF IInv, CInv
    <2>2. Piles' /\ Waits'
      BY PilesNext DEF CInv
    <2>3. Tally'
      BY TallyNext DEF CInv
    <2>4. Discovery'
      BY DiscoveryNext DEF CInv
    <2> QED
      BY <2>1, <2>2, <2>3, <2>4 DEF CInv
  <1> QED
    BY <1>1, <1>2, Invariance, PostOrderRemoval, PTL DEF Spec

(* Every item the scanner yields ends in exactly one counter, whichever      *)
(* thread dealt with it, however many threads and batches there are: none is *)
(* counted twice, and none is lost but by an abort.                          *)
THEOREM NoItemLost == Spec => []ItemsAccounted
  <1>1. IInv /\ CInv => ItemsAccounted
    <2> SUFFICES ASSUME IInv, CInv PROVE ItemsAccounted
      OBVIOUS
    <2>1. Types /\ Tally /\ Discovery
      BY DEF IInv, CInv
    <2>2. /\ Counted \in Nat /\ yielded \in Nat /\ Cardinality(Waiting) \in Nat
          /\ stats.files \in Nat /\ stats.discovered \in Nat /\ stats.failed \in Nat
          /\ IsFiniteSet(Underway) /\ Cardinality(Underway) \in Nat
      BY <2>1, CountedIs, WaitingFiles, FS_CardinalityType DEF Discovery
    <2>3. PICK f \in Nat, d \in Nat, e \in Nat, k \in Nat, c \in Nat, y \in Nat, w \in Nat :
             /\ f = stats.files /\ d = stats.discovered /\ e = stats.failed
             /\ k = Cardinality(Underway)
             /\ c = Counted /\ y = yielded /\ w = Cardinality(Waiting)
      BY <2>2
    <2>4. c <= y + (IF pc = "done" /\ y = 0 THEN 1 ELSE 0)
      <3>1. CASE pc = "done"
        BY <2>1, <2>3, <3>1 DEF Tally
      <3>2. CASE pc # "done"
        <4>1. PICK h \in Nat : h = InHand
          BY DEF InHand
        <4>2. c + w + h <= y
          BY <2>1, <2>3, <3>2, <4>1 DEF Tally, Due
        <4> QED
          BY <3>2, <4>2
      <3> QED
        BY <3>1, <3>2
    <2>5. pc = "done" /\ ~abort /\ y > 0 => c = y
      BY <2>1, <2>3 DEF Tally
    <2>6. f + k <= d /\ d <= f + e + k
      BY <2>1, <2>3 DEF Discovery
    <2>7. f <= d
      BY <2>6
    <2>8. pc = "done" => d - f <= e
      <3> SUFFICES ASSUME pc = "done" PROVE d - f <= e
        OBVIOUS
      <3>1. Underway = {}
        BY DEF IInv, Drains, PoolEmpty, Drained, Actors, Underway
      <3>2. k = 0
        BY <2>3, <3>1, FS_EmptySet
      <3> QED
        BY <2>6, <3>2
    <2> QED
      BY <2>3, <2>4, <2>5, <2>7, <2>8 DEF ItemsAccounted
  <1> QED
    BY <1>1, Invariance, CountInvariance, PTL

-----------------------------------------------------------------------------
(* While nobody interferes, the counts are the entries removed.              *)

(* The options stay what they are.                                           *)
LEMMA SameJob == ASSUME [Next]_vars PROVE job' = job
  BY DEF Next, MainStep, WorkerStep, Environment, Finished, vars, Inspect, OpenRoot, ScanEnd,
         ScanDone, ScanFail, ScanFile, ScanDir, LoopAbort, StreamFile, StreamReturn, BatchFile,
         PostDir, Drain, SkipItem, ScanError, Flush, Join, DirStep, DirAbort, RootChanged,
         DirDryRun, DirEnter, Rmdir, RmdirGone, RmdirNotEmpty, RmdirForce, RmdirError, FileStep,
         FileAbort, FileDryRun, FileEnter, Unlink, UnlinkGone, UnlinkForce, UnlinkError,
         TakeBatch, RequestAbort, Meddle

(* A step nobody else takes part in leaves the budget of interference alone. *)
LEMMA OwnStep ==
    ASSUME Types, [Next]_vars, Undisturbed'
    PROVE  Undisturbed /\ ~ScanFail /\ ~Meddle
  <1>1. env \in 0 .. EnvBudget /\ EnvBudget \in Nat
    BY DiskAssumption DEF Types, TypeOK
  <1>2. ~Interfere
    BY <1>1 DEF Interfere, Undisturbed
  <1>3. ~ScanFail /\ ~Meddle
    BY <1>2 DEF ScanFail, Misfortune, Meddle, Others, Vanish, Appear, Protect, ReplaceRoot
  <1>4. env' = env
    <2>1. ASSUME NEW a \in Actors, FileStep(a) PROVE env' = env
      BY <2>1 DEF FileStep, FileAbort, FileDryRun, FileEnter, Unlink, UnlinkGone, UnlinkForce,
                  UnlinkError, EraseBy, Erase, Chmod
    <2>2. ASSUME NEW w \in Workers, TakeBatch(w) PROVE env' = env
      BY <2>2 DEF TakeBatch
    <2>3. CASE DirStep
      BY <2>3 DEF DirStep, DirAbort, RootChanged, DirDryRun, DirEnter, Rmdir, RmdirGone,
                  RmdirNotEmpty, RmdirForce, RmdirError, EraseBy, Erase, Chmod
    <2>4. CASE Scanning
      BY <1>3, <2>4 DEF Scanning, Inspect, OpenRoot, ScanEnd, ScanDone, ScanFile, ScanDir
    <2>5. CASE Looping
      BY <2>5 DEF Looping, LoopAbort, StreamFile, StreamReturn, BatchFile, PostDir, Drain,
                  SkipItem, ScanError, Flush, Join
    <2>6. CASE Meddling \/ UNCHANGED vars
      BY <1>3, <2>6 DEF Meddling, RequestAbort, vars
    <2> QED
      BY <2>1, <2>2, <2>3, <2>4, <2>5, <2>6, Steps
  <1> QED
    BY <1>3, <1>4 DEF Undisturbed

(* The file a thread works on waits.                                         *)
LEMMA CurrentWaits ==
    ASSUME Types, NEW a \in Actors, step[a] # "idle"
    PROVE  Current(a) \in Waiting /\ Current(a) \in Files
  <1>1. hand[a] # <<>> /\ hand[a] \in Seq(Files)
    BY DEF Types, TypeOK, HandsBusy
  <1>2. Head(hand[a]) \in Range(hand[a])
    <2>1. 1 \in DOMAIN hand[a] /\ Head(hand[a]) = hand[a][1]
      BY <1>1
    <2> QED
      BY <2>1 DEF Range
  <1> QED
    BY <1>1, <1>2, TailIsSeq, WaitingIs DEF Current

(* What is in the main thread's hand for removal is a file or a directory.   *)
LEMMA HandKinds ==
    ASSUME IInv
    PROVE  /\ item.action = "FILE" => item.node \in Files
           /\ item.action = "DIR_POST" => item.node \in Dirs
           /\ Range(stack) \subseteq Dirs
           /\ Files \cap Dirs = {}
  <1>1. Files \cap Dirs = {}
    BY DEF Files
  <1>2. Range(stack) \subseteq Dirs
    BY DEF IInv, Types, TypeOK, Range
  <1> QED
    BY <1>1, <1>2, JobAssumption DEF IInv, Asked, Matched, Emitted, Removable

(* Nothing is removed that is still to be dealt with.                        *)
LEMMA CalmNext == ASSUME IInv, CInv, Calm, [Next]_vars PROVE Calm'
  <1> SUFFICES ASSUME Undisturbed' PROVE Calm'
    BY DEF Calm
  <1>0. /\ Types /\ Piles /\ Waits /\ ScanOnce /\ ~ScanFail /\ ~Meddle
        /\ Waiting \cup unread \cup Range(stack) \subseteq present
        /\ pc \in Holding /\ item.action \in {"FILE", "DIR_POST"} => item.node \in present
    BY OwnStep DEF IInv, CInv, Calm
  <1>1. ASSUME NEW a \in Actors, FileStep(a) PROVE Calm'
    <2>1. Piles' /\ Waiting' \subseteq Waiting
      BY <1>0, <1>1, PilesFile
    <2>2. step[a] # "idle" /\ UNCHANGED <<unread, stack, pc, item>>
      BY <1>1 DEF FileStep, FileAbort, FileDryRun, FileEnter, Unlink, UnlinkGone, UnlinkForce,
                  UnlinkError
    <2>3. CASE Unlink(a)
      <3> DEFINE n == Current(a)
      <3>1. n \in Waiting /\ n \in Files /\ n \in given
        BY <1>0, <2>2, CurrentWaits DEF Waits
      <3>2. Waiting' = Waiting \ {n} /\ present' = present \ {n}
        BY <1>0, <2>2, <2>3, PilesAdvance DEF Unlink, EraseBy, Erase
      <3>3. n \notin unread /\ n \notin Range(stack)
        BY <1>0, <3>1, HandKinds DEF ScanOnce
      <3>4. pc \in Holding /\ item.action \in {"FILE", "DIR_POST"} => item.node # n
        <4>1. item.action = "DIR_POST" => item.node # n
          BY <3>1, HandKinds
        <4>2. pc \in Holding /\ item.action = "FILE" => pc = "got"
          BY DEF Holding, IInv, Asked
        <4> QED
          BY <1>0, <3>1, <4>1, <4>2 DEF Waits
      <3> HIDE DEF n
      <3> QED
        BY <1>0, <2>2, <3>2, <3>3, <3>4 DEF Calm
    <2>4. CASE ~Unlink(a)
      <3>1. present' = present
        BY <1>1, <2>4 DEF FileStep, FileAbort, FileDryRun, FileEnter, UnlinkGone, UnlinkForce,
                          UnlinkError, Chmod
      <3> QED
        BY <1>0, <2>1, <2>2, <3>1 DEF Calm
    <2> QED
      BY <2>3, <2>4
  <1>2. ASSUME NEW w \in Workers, TakeBatch(w) PROVE Calm'
    <2>1. Waiting' = Waiting /\ UNCHANGED <<present, unread, stack, pc, item>>
      BY <1>0, <1>2, PilesTake DEF TakeBatch
    <2> QED
      BY <1>0, <2>1 DEF Calm
  <1>3. CASE DirStep
    <2>1. UNCHANGED <<poolVars, unread, stack, item>> /\ pc \in Holding \ {"got"}
      BY <1>3 DEF DirStep, DirAbort, RootChanged, DirDryRun, DirEnter, Rmdir, RmdirGone,
                  RmdirNotEmpty, RmdirForce, RmdirError, Holding
    <2>2. Waiting' = Waiting
      BY <2>1 DEF Waiting
    <2>3. CASE Rmdir
      <3> DEFINE n == item.node
      <3>1. present' = present \ {n} /\ pc' = "next"
        BY <2>3 DEF Rmdir, EraseBy, Erase
      <3>2. item.action = "DIR_POST"
        BY <2>3 DEF Rmdir, IInv, Asked
      <3>3. n \notin Waiting /\ n \notin unread /\ n \notin Range(stack)
        BY <1>0, <2>1, <3>2, HandKinds, WaitingFiles DEF ScanOnce
      <3> HIDE DEF n
      <3> QED
        BY <1>0, <2>1, <2>2, <3>1, <3>3 DEF Calm, Holding
    <2>4. CASE ~Rmdir
      <3>1. present' = present
        BY <1>3, <2>4 DEF DirStep, DirAbort, RootChanged, DirDryRun, DirEnter, RmdirGone,
                          RmdirNotEmpty, RmdirForce, RmdirError, Chmod
      <3> QED
        BY <1>0, <2>1, <2>2, <3>1 DEF Calm
    <2> QED
      BY <2>3, <2>4
  <1>4. CASE Looping
    <2>1. /\ Waiting' \subseteq Waiting \cup {item.node}
          /\ Waiting' # Waiting => pc = "got" /\ item.action = "FILE"
      BY <1>0, <1>4, PilesLoop DEF BatchFile, StreamFile, Got
    <2>2. UNCHANGED <<present, unread, stack, item>> /\ (pc' \in Holding => pc \in Holding)
      BY <1>4 DEF Looping, LoopAbort, StreamFile, StreamReturn, BatchFile, PostDir, Drain,
                  SkipItem, ScanError, Flush, Join, Got, AfterLoop, Holding
    <2> QED
      BY <1>0, <2>1, <2>2 DEF Calm, Holding
  <1>5. CASE Meddling \/ UNCHANGED vars
    <2>1. UNCHANGED <<present, unread, stack, pc, item, batch, queue, hand>>
      BY <1>0, <1>5 DEF Meddling, RequestAbort, vars
    <2>2. Waiting' = Waiting
      BY <2>1 DEF Waiting
    <2> QED
      BY <1>0, <2>1, <2>2 DEF Calm
  <1>6. CASE Scanning
    <2>1. UNCHANGED <<present, batch, queue, hand>>
      BY <1>0, <1>6 DEF Scanning, Inspect, OpenRoot, ScanEnd, ScanDone, ScanFile, ScanDir
    <2>2. Waiting' = Waiting
      BY <2>1 DEF Waiting
    <2>3. CASE Inspect \/ ScanDone
      <3>1. UNCHANGED <<unread, stack>> /\ pc' \notin Holding
        BY <2>3 DEF Inspect, ScanDone, AfterLoop, Holding
      <3> QED
        BY <1>0, <2>1, <2>2, <3>1 DEF Calm
    <2>4. CASE OpenRoot
      <3>1. Range(<<Root>>) = {Root}
        BY DEF Range
      <3> QED
        BY <1>0, <2>1, <2>2, <2>4, <3>1 DEF Calm, OpenRoot, Openable, Yield, Item, Holding
    <2>5. ASSUME NEW n \in Nodes, ScanFile(n) \/ ScanDir(n) PROVE Calm'
      <3>1. n \in present
        BY <1>0, <2>5 DEF ScanFile, ScanDir, ScanStep, Listed
      <3>2. unread' \subseteq present
        BY <1>0, <2>5 DEF ScanFile, ScanDir
      <3>3. Range(stack') \subseteq present
        <4>1. stack' = stack \/ (stack' = Append(stack, n) /\ n \in Dirs)
          BY <2>5 DEF ScanFile, ScanDir
        <4>2. n \in Dirs => Range(Append(stack, n)) = Range(stack) \cup {n}
          BY <1>0, AppendAdds DEF Types, TypeOK
        <4> QED
          BY <1>0, <3>1, <4>1, <4>2
      <3>4. pc' \in Holding => item'.node = n
        BY <2>5 DEF ScanFile, ScanDir, ScanStep, Yield, Item, Holding
      <3> QED
        BY <1>0, <2>1, <2>2, <3>1, <3>2, <3>3, <3>4 DEF Calm
    <2>6. CASE ScanEnd
      <3>1. stack # <<>> /\ Pop /\ (pc' \in Holding => item'.node = Top)
        BY <2>6 DEF ScanEnd, Yield, Item, Holding
      <3>2. /\ Top \in Range(stack) /\ Range(stack') \subseteq Range(stack)
            /\ unread' \subseteq unread
        BY <1>0, <3>1, ScanPop
      <3> QED
        BY <1>0, <2>1, <2>2, <3>1, <3>2 DEF Calm
    <2> QED
      BY <1>0, <1>6, <2>3, <2>4, <2>5, <2>6 DEF Scanning
  <1> QED
    BY <1>1, <1>2, <1>3, <1>4, <1>5, <1>6, Steps

(* One more entry removed is one more file or one more directory removed.    *)
LEMMA OneMore ==
    ASSUME Types, NamesOnce, NEW a \in Actors, NEW n \in present, EraseBy(a, n)
    PROVE  /\ n \in Files =>
                 /\ Cardinality(removed' \cap Files) = Cardinality(removed \cap Files) + 1
                 /\ removed' \cap Dirs = removed \cap Dirs
           /\ n \in Dirs =>
                 /\ Cardinality(removed' \cap Dirs) = Cardinality(removed \cap Dirs) + 1
                 /\ removed' \cap Files = removed \cap Files
  <1>1. n \notin removed /\ removed' = removed \cup {n} /\ removed \subseteq Nodes
    BY DEF NamesOnce, EraseBy, Erase, Types, TypeOK
  <1>2. IsFiniteSet(removed \cap Files) /\ IsFiniteSet(removed \cap Dirs)
    BY <1>1, TreeAssumption, FS_Subset
  <1>3. n \in Files => /\ removed' \cap Files = (removed \cap Files) \cup {n}
                       /\ removed' \cap Dirs = removed \cap Dirs
    BY <1>1 DEF Files
  <1>4. n \in Dirs => /\ removed' \cap Dirs = (removed \cap Dirs) \cup {n}
                      /\ removed' \cap Files = removed \cap Files
    BY <1>1 DEF Files
  <1> QED
    BY <1>1, <1>2, <1>3, <1>4, FS_AddElement

(* No step counts a removal that was none, or misses one.                    *)
LEMMA RemovalsNext ==
    ASSUME IInv, CInv, Calm, CountsAreRemovals, [Next]_vars
    PROVE  CountsAreRemovals'
  <1>0. Types /\ Piles /\ Waits /\ NamesOnce /\ Main \in Actors
    BY DEF IInv, CInv, Actors
  <1> SUFFICES ASSUME Undisturbed', ~job'.dryRun PROVE CountsAreRemovals'
    BY DEF CountsAreRemovals
  <1>1. /\ Undisturbed /\ ~ScanFail /\ ~Meddle
        /\ Waiting \subseteq present
        /\ pc \in Holding /\ item.action \in {"FILE", "DIR_POST"} => item.node \in present
    BY <1>0, OwnStep DEF Calm
  <1>2. job' = job
    BY SameJob
  <1>3. /\ ~job.dryRun
        /\ stats.files = Cardinality(removed \cap Files)
        /\ stats.dirs = Cardinality(removed \cap Dirs)
    BY <1>1, <1>2 DEF CountsAreRemovals
  <1>4. ASSUME removed' = removed, stats'.files = stats.files, stats'.dirs = stats.dirs
        PROVE  CountsAreRemovals'
    BY <1>3, <1>4 DEF CountsAreRemovals
  <1>5. /\ \A f \in {"failed", "skipped", "discovered"} : Count(f) =>
              stats'.files = stats.files /\ stats'.dirs = stats.dirs
        /\ Count("files") => stats'.files = stats.files + 1 /\ stats'.dirs = stats.dirs
        /\ Count("dirs") => stats'.dirs = stats.dirs + 1 /\ stats'.files = stats.files
    BY <1>0 DEF Types, TypeOK, Counters, Count
  <1>6. ASSUME NEW a \in Actors, FileStep(a) PROVE CountsAreRemovals'
    <2>1. step[a] # "idle"
      BY <1>6 DEF FileStep, FileAbort, FileDryRun, FileEnter, Unlink, UnlinkGone, UnlinkForce,
                  UnlinkError
    <2>2. Current(a) \in present /\ Current(a) \in Files
      BY <1>0, <1>1, <2>1, CurrentWaits
    <2>3. CASE Unlink(a)
      <3>1. EraseBy(a, Current(a)) /\ Count("files")
        BY <2>3 DEF Unlink
      <3>2. /\ Cardinality(removed' \cap Files) = Cardinality(removed \cap Files) + 1
            /\ removed' \cap Dirs = removed \cap Dirs
        BY <1>0, <2>2, <3>1, OneMore
      <3> QED
        BY <1>3, <1>5, <3>1, <3>2 DEF CountsAreRemovals
    <2>4. CASE FileAbort(a) \/ FileEnter(a) \/ UnlinkForce(a) \/ UnlinkError(a)
      BY <1>4, <1>5, <2>4 DEF FileAbort, FileEnter, UnlinkForce, UnlinkError, Chmod
    <2>5. ~FileDryRun(a) /\ ~UnlinkGone(a)
      BY <1>3, <2>2 DEF FileDryRun, UnlinkGone
    <2> QED
      BY <1>6, <2>3, <2>4, <2>5 DEF FileStep
  <1>7. CASE DirStep
    <2>1. pc \in Holding \ {"got"}
      BY <1>7 DEF DirStep, DirAbort, RootChanged, DirDryRun, DirEnter, Rmdir, RmdirGone,
                  RmdirNotEmpty, RmdirForce, RmdirError, Holding
    <2>2. item.action = "DIR_POST"
      BY <2>1 DEF IInv, Asked, Holding
    <2>3. item.node \in present /\ item.node \in Dirs
      BY <1>1, <2>1, <2>2, HandKinds
    <2>4. CASE Rmdir
      <3>1. EraseBy(Main, item.node) /\ Count("dirs")
        BY <2>4 DEF Rmdir
      <3>2. /\ Cardinality(removed' \cap Dirs) = Cardinality(removed \cap Dirs) + 1
            /\ removed' \cap Files = removed \cap Files
        BY <1>0, <2>3, <3>1, OneMore
      <3> QED
        BY <1>3, <1>5, <3>1, <3>2 DEF CountsAreRemovals
    <2>5. CASE DirAbort \/ RootChanged \/ DirEnter \/ RmdirNotEmpty \/ RmdirForce \/ RmdirError
      BY <1>4, <1>5, <2>5 DEF DirAbort, RootChanged, DirEnter, RmdirNotEmpty, RmdirForce, Chmod,
                             RmdirError
    <2>6. ~DirDryRun /\ ~RmdirGone
      BY <1>3, <2>3 DEF DirDryRun, RmdirGone
    <2> QED
      BY <1>7, <2>4, <2>5, <2>6 DEF DirStep
  <1>8. ASSUME NEW w \in Workers, TakeBatch(w) PROVE CountsAreRemovals'
    BY <1>4, <1>8 DEF TakeBatch
  <1>9. CASE Scanning
    BY <1>1, <1>4, <1>5, <1>9 DEF Scanning, Inspect, OpenRoot, ScanEnd, ScanDone, ScanFile, ScanDir
  <1>10. CASE Looping
    BY <1>4, <1>5, <1>10 DEF Looping, LoopAbort, StreamFile, StreamReturn, BatchFile, PostDir,
                             Drain, SkipItem, ScanError, Flush, Join
  <1>11. CASE Meddling \/ UNCHANGED vars
    BY <1>1, <1>4, <1>11 DEF Meddling, RequestAbort, vars
  <1> QED
    BY <1>6, <1>7, <1>8, <1>9, <1>10, <1>11, Steps

(* While nobody interferes, what is to be dealt with is there, so a count is *)
(* a removal.                                                                *)
LEMMA RemovalInvariance == Spec => []RInv
  <1>1. Init => RInv
    <2> SUFFICES ASSUME Init PROVE RInv
      OBVIOUS
    <2>1. batch = <<>> /\ queue = <<>> /\ \A a \in Actors : hand[a] = <<>>
      BY DEF Init
    <2>2. Waiting = {}
      BY <2>1, EmptyPile, WaitingIs
    <2>3. Calm
      BY <2>2, EmptyPile DEF Init, Calm, Holding
    <2>4. removed \cap Files = {} /\ removed \cap Dirs = {} /\ stats.files = 0 /\ stats.dirs = 0
      BY DEF Init, DiskInit, Counters
    <2> QED
      BY <2>3, <2>4, FS_EmptySet DEF RInv, CountsAreRemovals
  <1>2. IInv /\ CInv /\ RInv /\ [Next]_vars => RInv'
    BY CalmNext, RemovalsNext DEF RInv
  <1> QED
    BY <1>1, <1>2, Invariance, CountInvariance, PTL DEF Spec

(* While no other process interferes, files_deleted and directories_deleted  *)
(* are the numbers of files and directories this deletion has removed: no    *)
(* thread ever finds an entry gone, so counting one as deleted that somebody *)
(* else removed needs that somebody.                                         *)
THEOREM CountsTrue == Spec => []CountsAreRemovals
  <1>1. RInv => CountsAreRemovals
    BY DEF RInv
  <1> QED
    BY <1>1, RemovalInvariance, PTL

-----------------------------------------------------------------------------
(* What a deletion nobody interferes with leaves behind.                     *)

Quiet == Undisturbed /\ ~abort /\ ~job.dryRun

(* A directory the scanner does not read. *)
Unopened(d) == d \in Unreadable \/ d \notin Traversed(job) \cup {Root}

(* The entry in the main thread's hand that is still to be removed.          *)
Pending(n) == pc \in Holding /\ item.action \in {"FILE", "DIR_POST"} /\ item.node = n

(* An entry the deletion has come past and will not come back to.            *)
Away == {n \in given \cup {Root} : /\ pc \notin {"start", "open"}
                                   /\ n \notin Waiting \cup Range(stack)
                                   /\ ~Pending(n)}

(* Why it may still exist. *)
Stuck(n) ==
    \/ n \notin Allowed(job)
    \/ n \in Busy
    \/ Parent[n] \in ReadOnly /\ (job.force => Parent[n] \notin Owned)
    \/ n \in Dirs /\ Unopened(n)
    \/ \E c \in present \cap Away : Parent[c] = n

(* The open directories are those above the innermost one.                   *)
StackShape ==
    /\ \A i \in DOMAIN stack : Depth[stack[i]] = i - 1
    /\ pc \in Holding /\ item.action = "DIR_POST" => Depth[item.node] = Len(stack)
    /\ \A n \in unread : Parent[n] \in Range(stack)
    /\ \A d \in Range(stack) : ~Unopened(d)
    /\ pc \in Holding /\ item.action = "DIR_POST" => ~Unopened(item.node)
    /\ ~abort /\ pc \in {"flush", "join", "done"} => stack = <<>>

(* The tree is in one piece, and no mode stands in the way that did not at   *)
(* first or that force has changed.                                          *)
Whole ==
    /\ \A n \in present \ {Root} : Parent[n] \in present
    /\ pc \in {"start", "open"} => Root \in present
    /\ sameRoot
    /\ mode \subseteq ReadOnly
    /\ \A a \in Actors : step[a] = "retry" => Parent[Current(a)] \notin mode \cap Owned
    /\ pc = "rmdir_retry" => Parent[item.node] \notin mode \cap Owned

(* Every entry of a directory that was read was given, or will be.           *)
AllRead ==
    \A n \in present \ {Root} :
        Parent[n] \in given \cup {Root} /\ ~Unopened(Parent[n]) /\ pc \notin {"start", "open"}
            => n \in given \cup unread

Settled == \A n \in present \cap Away : Stuck(n)

Thorough == Quiet => Whole /\ AllRead /\ Settled

(* A step that leaves the scanner alone keeps the shape of its stack.        *)
LEMMA ShapeKept ==
    ASSUME StackShape, UNCHANGED <<job, item, stack, unread>>,
           pc' \in Holding => pc \in Holding,
           ~abort' /\ pc' \in {"flush", "join", "done"} =>
               ~abort /\ pc \in {"flush", "join", "done"}
    PROVE  StackShape'
  <1>1. \A x : Unopened(x)' <=> Unopened(x)
    BY DEF Unopened
  <1> QED
    BY <1>1 DEF StackShape

(* The innermost directory is as deep as the stack is high.                  *)
LEMMA TopDepth ==
    ASSUME Types, StackShape, stack # <<>>
    PROVE  Depth[Top] = Len(stack) - 1 /\ Len(stack) \in Nat \ {0}
  BY DEF Types, TypeOK, StackShape, Top

(* What it holds is one level deeper.                                        *)
LEMMA NextDepth ==
    ASSUME Types, ScanOnce, StackShape, NEW n \in Nodes, ScanStep(n)
    PROVE  Depth[n] = Len(stack)
  <1>1. Parent[n] = Top /\ n # Root
    BY ScanNew
  <1>2. Depth[n] = Depth[Top] + 1
    BY <1>1, TreeAssumption
  <1>3. PICK k \in Nat \ {0} : k = Len(stack) /\ Depth[Top] = k - 1
    BY TopDepth DEF ScanStep
  <1> QED
    BY <1>2, <1>3

(* No step breaks the shape.                                                 *)
LEMMA ShapeNext == ASSUME IInv, CInv, StackShape, [Next]_vars PROVE StackShape'
  <1>0. Types /\ ScanOnce /\ job' = job
    BY SameJob DEF IInv, CInv
  <1>1. \A x : Unopened(x)' <=> Unopened(x)
    BY <1>0 DEF Unopened
  <1>2. ASSUME NEW a \in Actors, FileStep(a) PROVE StackShape'
    BY <1>2, ShapeKept DEF FileStep, FileAbort, FileDryRun, FileEnter, Unlink, UnlinkGone,
                           UnlinkForce, UnlinkError
  <1>3. ASSUME NEW w \in Workers, TakeBatch(w) PROVE StackShape'
    BY <1>3, ShapeKept DEF TakeBatch
  <1>4. CASE DirStep
    <2>1. /\ UNCHANGED <<item, stack, unread>> /\ pc \in Holding
          /\ pc' \notin {"flush", "join", "done"}
      BY <1>4 DEF DirStep, DirAbort, RootChanged, DirDryRun, DirEnter, Rmdir, RmdirGone,
                  RmdirNotEmpty, RmdirForce, RmdirError, Holding
    <2> QED
      BY <1>0, <2>1, ShapeKept
  <1>5. CASE Looping
    <2>1. /\ UNCHANGED <<item, stack, unread>> /\ (pc' \in Holding => pc \in Holding)
          /\ ~abort' /\ pc' \in {"flush", "join", "done"} =>
                ~abort /\ pc \in {"flush", "join", "done"}
      BY <1>5 DEF Looping, LoopAbort, StreamFile, StreamReturn, BatchFile, PostDir, Drain,
                  SkipItem, ScanError, Flush, Join, Got, AfterLoop, Holding
    <2> QED
      BY <1>0, <2>1, ShapeKept
  <1>6. CASE Meddling \/ UNCHANGED vars
    <2>1. UNCHANGED <<item, stack, unread, pc>> /\ (~abort' => ~abort)
      BY <1>6 DEF Meddling, RequestAbort, Meddle, vars
    <2> QED
      BY <1>0, <2>1, ShapeKept
  <1>7. CASE Inspect \/ ScanDone
    <2>1. UNCHANGED <<item, stack, unread>> /\ stack = <<>> /\ pc' \notin Holding
      BY <1>0, <1>7 DEF Inspect, ScanDone, AfterLoop, ScanOnce, Holding
    <2> QED
      BY <1>1, <2>1 DEF StackShape
  <1>8. CASE OpenRoot
    <2>1. stack = <<>> /\ unread = {}
      BY <1>0, <1>8 DEF OpenRoot, ScanOnce
    <2>2. /\ \/ stack' = <<>> /\ unread' = {}
             \/ /\ stack' = <<Root>> /\ unread' \subseteq Children(Root)
                /\ Root \notin Unreadable
          /\ pc' \in {"next", "got"}
          /\ pc' = "got" => item'.action # "DIR_POST"
      BY <1>8, <2>1 DEF OpenRoot, Openable, Yield, Item
    <2>3. CASE stack' = <<>> /\ unread' = {}
      BY <2>2, <2>3, EmptyPile DEF StackShape, Holding
    <2>4. CASE stack' = <<Root>> /\ unread' \subseteq Children(Root) /\ Root \notin Unreadable
      <3>1. Range(<<Root>>) = {Root} /\ DOMAIN <<Root>> = {1} /\ <<Root>>[1] = Root
        BY DEF Range
      <3>2. Depth[Root] = 1 - 1 /\ ~Unopened(Root)
        BY <2>4, TreeAssumption DEF Unopened
      <3>3. \A n \in unread' : Parent[n] \in Range(stack')
        BY <2>4, <3>1 DEF Children
      <3>4. /\ \A i \in DOMAIN stack' : Depth[stack'[i]] = i - 1
            /\ \A x \in Range(stack') : ~Unopened(x)'
        BY <1>1, <2>4, <3>1, <3>2
      <3> QED
        BY <2>2, <3>3, <3>4 DEF StackShape, Holding
    <2> QED
      BY <2>2, <2>3, <2>4
  <1>9. ASSUME NEW n \in Nodes, ScanFile(n) \/ ScanDir(n) PROVE StackShape'
    <2>1. /\ stack # <<>> /\ ScanStep(n) /\ pc' \in {"next", "got"}
          /\ pc' = "got" => item'.action # "DIR_POST"
      BY <1>9 DEF ScanFile, ScanDir, ScanStep, Yield, Item
    <2>2. CASE stack' = stack /\ unread' = unread \ {n}
      BY <1>1, <2>1, <2>2 DEF StackShape, Holding
    <2>3. CASE /\ stack' = Append(stack, n) /\ n \in Dirs /\ n \in Traversed(job) \ Unreadable
               /\ unread' \subseteq unread \cup Children(n)
      <3>3. Depth[n] = Len(stack)
        BY <1>0, <2>1, NextDepth
      <3>4. /\ DOMAIN stack = 1 .. Len(stack) /\ Len(stack) \in Nat
            /\ DOMAIN stack' = 1 .. Len(stack) + 1
            /\ \A i \in 1 .. Len(stack) : stack'[i] = stack[i]
            /\ stack'[Len(stack) + 1] = n
        BY <1>0, <2>3 DEF Types, TypeOK
      <3>5. \A i \in DOMAIN stack' : Depth[stack'[i]] = i - 1
        <4>1. \A i \in 1 .. Len(stack) : Depth[stack[i]] = i - 1
          BY <3>4 DEF StackShape
        <4>2. \A i \in 1 .. Len(stack) + 1 : i \in 1 .. Len(stack) \/ i = Len(stack) + 1
          BY <3>4
        <4>3. (Len(stack) + 1) - 1 = Len(stack)
          BY <3>4
        <4> QED
          BY <3>3, <3>4, <4>1, <4>2, <4>3
      <3>6. Range(stack') = Range(stack) \cup {n}
        BY <1>0, <2>3, AppendAdds DEF Types, TypeOK
      <3>7. ~Unopened(n)
        BY <2>3 DEF Unopened
      <3>8. \A m \in unread' : Parent[m] \in Range(stack')
        BY <2>3, <3>6 DEF StackShape, Children
      <3> QED
        BY <1>1, <2>1, <3>5, <3>6, <3>7, <3>8 DEF StackShape, Holding
    <2> QED
      BY <1>9, <2>2, <2>3 DEF ScanFile, ScanDir, Openable
  <1>10. CASE ScanEnd \/ ScanFail
    <2>1. /\ stack # <<>> /\ Pop /\ pc' \in {"next", "got"}
          /\ pc' = "got" /\ item'.action = "DIR_POST" => item'.node = Top
      BY <1>10 DEF ScanEnd, ScanFail, Yield, Item
    <2>2. /\ Top \in Range(stack) /\ Range(stack') = Range(stack) \ {Top}
          /\ Len(stack') = Len(stack) - 1 /\ unread' = unread \ Children(Top)
      BY <1>0, <2>1, ScanPop
    <2>3. \A i \in DOMAIN stack' : Depth[stack'[i]] = i - 1
      <3>1. /\ \A i \in DOMAIN stack' : i \in DOMAIN stack /\ stack'[i] = stack[i]
        BY <1>0, <2>1 DEF Pop, Below, Types, TypeOK
      <3> QED
        BY <3>1 DEF StackShape
    <2>4. \A n \in unread' : Parent[n] \in Range(stack')
      BY <1>0, <2>2 DEF StackShape, Children, Types, TypeOK
    <2>5. Depth[Top] = Len(stack') /\ ~Unopened(Top)
      BY <1>0, <2>1, <2>2, TopDepth DEF StackShape
    <2> QED
      BY <1>1, <2>1, <2>2, <2>3, <2>4, <2>5 DEF StackShape, Holding
  <1> QED
    BY <1>2, <1>3, <1>4, <1>5, <1>6, <1>7, <1>8, <1>9, <1>10, Steps DEF Scanning

(* An abort is not withdrawn.                                                *)
LEMMA SameAbort == ASSUME [Next]_vars, ~RequestAbort PROVE abort' = abort
  BY DEF Next, MainStep, WorkerStep, Environment, Finished, vars, Inspect, OpenRoot, ScanEnd,
         ScanDone, ScanFail, ScanFile, ScanDir, LoopAbort, StreamFile, StreamReturn, BatchFile,
         PostDir, Drain, SkipItem, ScanError, Flush, Join, DirStep, DirAbort, RootChanged,
         DirDryRun, DirEnter, Rmdir, RmdirGone, RmdirNotEmpty, RmdirForce, RmdirError, FileStep,
         FileAbort, FileDryRun, FileEnter, Unlink, UnlinkGone, UnlinkForce, UnlinkError,
         TakeBatch, Meddle

(* A step after which nothing has interfered is the deletion's own.          *)
LEMMA QuietStep ==
    ASSUME Types, [Next]_vars, Quiet'
    PROVE  Quiet /\ ~abort /\ ~job.dryRun /\ job' = job /\ ~ScanFail /\ ~Meddling
  <1>1. Undisturbed /\ ~ScanFail /\ ~Meddle
    BY OwnStep DEF Quiet
  <1>2. job' = job
    BY SameJob
  <1>3. ~RequestAbort
    BY DEF RequestAbort, Quiet
  <1>4. abort' = abort
    BY <1>3, SameAbort
  <1> QED
    BY <1>1, <1>2, <1>3, <1>4 DEF Quiet, Meddling

(* The thread's file stays the same while it is in delete_file_entry.        *)
LEMMA OthersFiles ==
    ASSUME Types, NEW a \in Actors, FileStep(a)
    PROVE  \A b \in Actors \ {a} : step'[b] = step[b] /\ Current(b)' = Current(b)
  <1>1. \A b \in Actors \ {a} : step'[b] = step[b] /\ hand'[b] = hand[b]
    BY DEF FileStep, FileAbort, FileDryRun, FileEnter, Unlink, UnlinkGone,
           UnlinkForce, Chmod, UnlinkError, Advance, Goto, Types, TypeOK
  <1> QED
    BY <1>1 DEF Current

(* No step of a deletion nobody interferes with takes the tree apart.        *)
LEMMA WholeNext ==
    ASSUME IInv, CInv, Quiet => Whole, [Next]_vars, Quiet'
    PROVE  Whole'
  <1>0. /\ Types /\ Whole /\ Quiet /\ ~ScanFail /\ ~Meddling /\ job' = job
    BY QuietStep DEF IInv
  <1> USE TreeAssumption
  <1>1. ASSUME UNCHANGED <<present, sameRoot, mode, hand, item>>,
               \A a \in Actors : step'[a] = "retry" => step[a] = "retry",
               pc' \in {"start", "open"} => pc \in {"start", "open"},
               pc' = "rmdir_retry" => pc = "rmdir_retry"
        PROVE  Whole'
    BY <1>0, <1>1 DEF Whole, Current
  <1>2. ASSUME NEW a \in Actors, FileStep(a) PROVE Whole'
    <2>1. step[a] # "idle" /\ UNCHANGED <<sameRoot, pc, item>>
      BY <1>2 DEF FileStep, FileAbort, FileDryRun, FileEnter, Unlink, UnlinkGone, UnlinkForce,
                  UnlinkError, EraseBy, Erase, Chmod
    <2>2. Current(a) \in Files
      BY <1>0, <2>1, CurrentWaits
    <2>3. CASE UnlinkForce(a)
      <3>1. /\ mode' = mode \ Chmodable(Current(a)) /\ present' = present
            /\ Current(a)' = Current(a)
        BY <2>3 DEF UnlinkForce, Chmod, Goto, Current
      <3>2. Parent[Current(a)] \notin mode' \cap Owned
        BY <3>1 DEF Chmodable
      <3>3. \A b \in Actors \ {a} : step'[b] = step[b] /\ Current(b)' = Current(b)
        BY <1>0, <1>2, OthersFiles
      <3>4. ASSUME NEW b \in Actors, step'[b] = "retry"
            PROVE  Parent[Current(b)'] \notin mode' \cap Owned
        <4>1. CASE b = a
          BY <3>1, <3>2, <4>1
        <4>2. CASE b # a
          BY <1>0, <3>1, <3>3, <3>4, <4>2 DEF Whole
        <4> QED
          BY <4>1, <4>2
      <3> QED
        BY <1>0, <2>1, <3>1, <3>4 DEF Whole
    <2>4. CASE ~UnlinkForce(a)
      <3>1. mode' = mode /\ step'[a] # "retry"
        BY <1>0, <1>2, <2>4 DEF FileStep, FileAbort, FileDryRun, FileEnter, Unlink, UnlinkGone,
                      UnlinkError, EraseBy, Erase, Advance, Goto, Types, TypeOK
      <3>2. ASSUME NEW b \in Actors, step'[b] = "retry"
            PROVE  Parent[Current(b)'] \notin mode' \cap Owned
        <4>1. b # a
          BY <3>1, <3>2
        <4>2. step'[b] = step[b] /\ Current(b)' = Current(b)
          BY <1>0, <1>2, <4>1, OthersFiles
        <4> QED
          BY <1>0, <3>1, <3>2, <4>2 DEF Whole
      <3>3. present' = present \/ present' = present \ {Current(a)}
        BY <1>2, <2>4 DEF FileStep, FileAbort, FileDryRun, FileEnter, Unlink, UnlinkGone,
                      UnlinkError, EraseBy, Erase
      <3>4. /\ \A n \in present' \ {Root} : Parent[n] \in present'
            /\ pc' \in {"start", "open"} => Root \in present'
        <4>1. \A n \in present \ {Root} : Parent[n] \in present /\ Parent[n] \in Dirs
          BY <1>0 DEF Whole, Types, TypeOK
        <4>2. Current(a) \notin Dirs
          BY <2>2 DEF Files
        <4> QED
          BY <1>0, <2>1, <3>3, <4>1, <4>2 DEF Whole
      <3> QED
        BY <1>0, <2>1, <3>1, <3>2, <3>4 DEF Whole
    <2> QED
      BY <2>3, <2>4
  <1>3. ASSUME NEW w \in Workers, TakeBatch(w) PROVE Whole'
    <2>1. UNCHANGED <<present, sameRoot, mode, item, pc>>
      BY <1>3 DEF TakeBatch
    <2>2. \A a \in Actors : step'[a] = "retry" => step[a] = "retry" /\ hand'[a] = hand[a]
      BY <1>0, <1>3 DEF TakeBatch, Types, TypeOK
    <2> QED
      BY <1>0, <2>1, <2>2 DEF Whole, Current
  <1>4. CASE DirStep
    <2>1. UNCHANGED <<hand, step, sameRoot, item>> /\ pc' \notin {"start", "open"}
      BY <1>4 DEF DirStep, DirAbort, RootChanged, DirDryRun, DirEnter, Rmdir, RmdirGone,
                  RmdirNotEmpty, RmdirForce, RmdirError, EraseBy, Erase, Chmod
    <2>2. CASE Rmdir
      <3>1. /\ present' = present \ {item.node} /\ mode' = mode /\ pc' = "next"
            /\ Leaf(item.node, present)
        BY <2>2 DEF Rmdir, EraseBy, Erase
      <3>2. \A n \in present \ {Root} : Parent[n] # item.node
        BY <1>0, <3>1 DEF Leaf, Children, Types, TypeOK
      <3> QED
        BY <1>0, <2>1, <3>1, <3>2 DEF Whole, Current
    <2>3. CASE RmdirForce
      <3>1. /\ mode' = mode \ Chmodable(item.node) /\ present' = present /\ pc' = "rmdir_retry"
        BY <2>3 DEF RmdirForce, Chmod
      <3>2. Parent[item.node] \notin mode' \cap Owned
        BY <3>1 DEF Chmodable
      <3> QED
        BY <1>0, <2>1, <3>1, <3>2 DEF Whole, Current
    <2>4. CASE ~Rmdir /\ ~RmdirForce
      <3>1. UNCHANGED <<present, mode>> /\ pc' # "rmdir_retry"
        BY <1>4, <2>4 DEF DirStep, DirAbort, RootChanged, DirDryRun, DirEnter, RmdirGone,
                  RmdirNotEmpty, RmdirError
      <3> QED
        BY <1>1, <2>1, <3>1
    <2> QED
      BY <2>2, <2>3, <2>4
  <1>5. CASE Looping
    <2>1. /\ UNCHANGED <<present, sameRoot, mode, item>>
          /\ pc' \notin {"start", "open", "rmdir_retry"}
      BY <1>5 DEF Looping, LoopAbort, StreamFile, StreamReturn, BatchFile, PostDir, Drain,
                  SkipItem, ScanError, Flush, Join, AfterLoop
    <2>2. \A a \in Actors : step'[a] = "retry" => step[a] = "retry" /\ hand'[a] = hand[a]
      <3>1. CASE StreamFile
        BY <1>0, <3>1 DEF StreamFile, Types, TypeOK
      <3>2. CASE ~StreamFile
        BY <1>5, <3>2 DEF Looping, LoopAbort, StreamReturn, BatchFile, PostDir, Drain,
                          SkipItem, ScanError, Flush, Join
      <3> QED
        BY <3>1, <3>2
    <2> QED
      BY <1>0, <2>1, <2>2 DEF Whole, Current
  <1>6. CASE UNCHANGED vars
    BY <1>1, <1>6 DEF vars
  <1>7. CASE Scanning
    <2>1. UNCHANGED <<present, mode, hand, step>> /\ pc' # "rmdir_retry"
      BY <1>0, <1>7 DEF Scanning, Inspect, OpenRoot, ScanEnd, ScanDone, ScanFile, ScanDir,
                        ScanStep, Yield, AfterLoop
    <2>2. sameRoot' /\ (pc' \in {"start", "open"} => pc \in {"start", "open"})
      BY <1>0, <1>7 DEF Scanning, Inspect, OpenRoot, ScanEnd, ScanDone, ScanFile, ScanDir,
                        ScanStep, Yield, AfterLoop, Whole
    <2> QED
      BY <1>0, <2>1, <2>2 DEF Whole, Current
  <1> QED
    BY <1>0, <1>2, <1>3, <1>4, <1>5, <1>6, <1>7, Steps

(* No step loses an entry of a directory that is read, where the process can *)
(* hold open as many directories as the tree is deep.                        *)
LEMMA AllReadNext ==
    ASSUME \A d \in Dirs : Depth[d] < MaxOpen,
           IInv, CInv, Calm, StackShape, Quiet => Whole /\ AllRead, [Next]_vars, Quiet'
    PROVE  AllRead'
  <1>0. /\ Types /\ ScanOnce /\ Whole /\ AllRead /\ Quiet /\ ~ScanFail /\ ~Meddling /\ job' = job
    BY QuietStep DEF IInv, CInv
  <1>1. \A x : Unopened(x)' <=> Unopened(x)
    BY <1>0 DEF Unopened
  <1>2. ASSUME present' \subseteq present, UNCHANGED <<given, unread>>,
               pc \in {"start", "open"} => pc' \in {"start", "open"}
        PROVE  AllRead'
    BY <1>0, <1>1, <1>2 DEF AllRead
  <1>3. ASSUME NEW a \in Actors, FileStep(a) PROVE AllRead'
    <2>1. UNCHANGED <<given, unread, pc>> /\ present' \subseteq present
      BY <1>3 DEF FileStep, FileAbort, FileDryRun, FileEnter, Unlink, UnlinkGone, UnlinkForce,
                  UnlinkError, EraseBy, Erase, Chmod
    <2> QED
      BY <1>2, <2>1
  <1>4. ASSUME NEW w \in Workers, TakeBatch(w) PROVE AllRead'
    BY <1>2, <1>4 DEF TakeBatch
  <1>5. CASE DirStep
    <2>1. UNCHANGED <<given, unread>> /\ present' \subseteq present /\ pc \notin {"start", "open"}
      BY <1>5 DEF DirStep, DirAbort, RootChanged, DirDryRun, DirEnter, Rmdir, RmdirGone,
                  RmdirNotEmpty, RmdirForce, RmdirError, EraseBy, Erase, Chmod
    <2> QED
      BY <1>2, <2>1
  <1>6. CASE Looping
    <2>1. UNCHANGED <<given, unread, present>> /\ pc \notin {"start", "open"}
      BY <1>6 DEF Looping, LoopAbort, StreamFile, StreamReturn, BatchFile, PostDir, Drain,
                  SkipItem, ScanError, Flush, Join, Got
    <2> QED
      BY <1>2, <2>1
  <1>7. CASE UNCHANGED vars
    BY <1>2, <1>7 DEF vars
  <1>8. CASE Inspect
    <2>1. pc' = "open"
      BY <1>0, <1>8 DEF Inspect, Whole
    <2> QED
      BY <2>1 DEF AllRead
  <1>9. CASE ScanDone
    BY <1>2, <1>9 DEF ScanDone
  <1>10. CASE OpenRoot
    <2>1. given = {} /\ unread = {} /\ stack = <<>> /\ Root \in present /\ Len(<<>>) = 0
      BY <1>0, <1>10 DEF OpenRoot, ScanOnce, Whole
    <2>2. Len(stack) < MaxOpen
      BY <2>1, TreeAssumption
    <2>3. \/ Unopened(Root) /\ given' = {}
          \/ unread' = Children(Root) \cap present /\ given' = {} /\ present' = present
      BY <1>10, <2>1, <2>2 DEF OpenRoot, Openable, Unopened
    <2>4. present' \subseteq Nodes
      BY <1>0, <1>10 DEF OpenRoot, Types, TypeOK
    <2> QED
      BY <1>1, <2>3, <2>4 DEF AllRead, Children
  <1>11. ASSUME NEW n \in Nodes, ScanFile(n) PROVE AllRead'
    <2>1. /\ given' = given \cup {n} /\ unread' = unread \ {n} /\ present' = present
          /\ n \in Files /\ pc \notin {"start", "open"}
      BY <1>11 DEF ScanFile, ScanStep
    <2>2. \A m \in present \ {Root} : Parent[m] # n
      BY <1>0, <2>1, TreeAssumption DEF Files, Types, TypeOK
    <2> QED
      BY <1>0, <1>1, <2>1, <2>2 DEF AllRead
  <1>12. ASSUME NEW n \in Nodes, ScanDir(n) PROVE AllRead'
    <2>1. /\ given' = given \cup {n} /\ present' = present /\ unread \ {n} \subseteq unread'
          /\ n \in Dirs /\ pc \notin {"start", "open"} /\ ScanStep(n) /\ stack # <<>>
          /\ (n \in Traversed(job) /\ Openable(n, Len(stack)) =>
                Children(n) \cap present \subseteq unread')
      BY <1>12 DEF ScanDir, ScanStep
    <2>2. n \in present
      BY <1>0, <2>1 DEF ScanStep, Listed, Calm, Quiet
    <2>3. Unopened(n) \/ Children(n) \cap present \subseteq unread'
      <3>1. Len(stack) < MaxOpen
        BY <1>0, <2>1, NextDepth
      <3>2. n \in Traversed(job) /\ n \notin Unreadable => Openable(n, Len(stack))
        BY <2>2, <3>1 DEF Openable
      <3> QED
        BY <1>0, <2>1, <3>2, ScanNew DEF Unopened
    <2> QED
      BY <1>0, <1>1, <2>1, <2>3 DEF AllRead, Children, Types, TypeOK
  <1>13. CASE ScanEnd
    <2>1. /\ unread' = unread \ Children(Top) /\ UNCHANGED <<given, present>>
          /\ Children(Top) \cap unread \cap present = {} /\ pc \notin {"start", "open"}
      BY <1>13 DEF ScanEnd, Pop
    <2> QED
      BY <1>0, <1>1, <2>1 DEF AllRead
  <1> QED
    BY <1>0, <1>3, <1>4, <1>5, <1>6, <1>7, <1>8, <1>9, <1>10, <1>11, <1>12, <1>13, Steps
       DEF Scanning

(* What the deletion has come past stays where it is, and stays stuck.       *)
LEMMA SettledKept ==
    ASSUME Settled, job' = job, present' \subseteq present,
           present \cap Away \subseteq present' \cap Away',
           \A n \in (present' \cap Away') \ Away : Stuck(n)'
    PROVE  Settled'
  <1>1. \A x : Unopened(x)' <=> Unopened(x)
    BY DEF Unopened
  <1>2. ASSUME NEW n \in present' \cap Away', n \in Away PROVE Stuck(n)'
    <2>1. Stuck(n)
      BY <1>2 DEF Settled
    <2>2. CASE \E c \in present \cap Away : Parent[c] = n
      BY <2>2 DEF Stuck
    <2>3. CASE ~\E c \in present \cap Away : Parent[c] = n
      BY <1>1, <2>1, <2>3 DEF Stuck
    <2> QED
      BY <2>2, <2>3
  <1> QED
    BY <1>2 DEF Settled

(* Where the main thread's hand and the piles leave everything as it was.    *)
LEMMA AwaySame ==
    ASSUME Waiting' = Waiting, UNCHANGED <<given, stack, pc, item>>
    PROVE  Away' = Away
  BY DEF Away, Pending

(* Why an unlink or an rmdir of n that fails leaves n there for good.        *)
LEMMA Refusal ==
    ASSUME Types, Whole, NEW n \in present,
           n \in Busy \/ (Forbidden(n) /\ (~Forceable(n) \/ Parent[n] \notin mode \cap Owned))
    PROVE  n \in Busy \/ (Parent[n] \in ReadOnly /\ (job.force => Parent[n] \notin Owned))
  BY DEF Whole, Forbidden, Forceable, Chmodable

(* A file that was dealt with and still exists could not be removed.         *)
LEMMA SettledFile ==
    ASSUME IInv, CInv, Calm, Quiet => Whole /\ Settled, [Next]_vars, Quiet',
           NEW a \in Actors, FileStep(a)
    PROVE  Settled'
  <1>0. /\ Types /\ ScanOnce /\ Piles /\ Waits /\ Whole /\ Settled /\ Quiet
        /\ ~abort /\ ~job.dryRun /\ job' = job
    BY QuietStep DEF IInv, CInv
  <1>1. step[a] # "idle" /\ UNCHANGED <<given, stack, pc, item>>
    BY DEF FileStep, FileAbort, FileDryRun, FileEnter, Unlink, UnlinkGone, UnlinkForce,
           UnlinkError
  <1>a. /\ Current(a) \in Waiting /\ Current(a) \in present /\ Current(a) \in Files
        /\ Current(a) \in Nodes
    BY <1>0, <1>1, CurrentWaits DEF Calm, Quiet, Files
  <1>b. PICK n \in Nodes : n = Current(a)
    BY <1>a
  <1>2. n \in Waiting /\ n \in present /\ n \in Files
    BY <1>a, <1>b
  <1>3. CASE FileEnter(a) \/ UnlinkForce(a)
    <2>1. UNCHANGED <<batch, queue, hand, present>>
      BY <1>3 DEF FileEnter, UnlinkForce, Goto, Chmod
    <2>2. Waiting' = Waiting
      BY <2>1 DEF Waiting
    <2>3. Away' = Away
      BY <1>1, <2>2, AwaySame
    <2> QED
      BY <1>0, <2>1, <2>3, SettledKept
  <1>4. CASE Unlink(a) \/ UnlinkError(a)
    <2>1. Waiting' = Waiting \ {n}
      BY <1>0, <1>1, <1>4, <1>b, PilesAdvance DEF Unlink, UnlinkError
    <2>2. Away \subseteq Away' /\ Away' \subseteq Away \cup {n} /\ n \notin Away
      BY <1>1, <1>2, <2>1 DEF Away, Pending
    <2>3. CASE Unlink(a)
      <3>1. present' = present \ {n}
        BY <1>b, <2>3 DEF Unlink, EraseBy, Erase
      <3> QED
        BY <1>0, <2>2, <3>1, SettledKept
    <2>4. CASE UnlinkError(a)
      <3>1. present' = present
        BY <2>4 DEF UnlinkError
      <3>2. n \in Busy \/ (Forbidden(n) /\ (~Forceable(n) \/ Parent[n] \notin mode \cap Owned))
        BY <1>0, <1>b, <1>2, <2>4 DEF UnlinkError, Whole
      <3>3. n \in Busy \/ (Parent[n] \in ReadOnly /\ (job.force => Parent[n] \notin Owned))
        BY <1>0, <1>2, <3>2, Refusal
      <3>4. Stuck(n)'
        BY <1>0, <3>3 DEF Stuck
      <3> QED
        BY <1>0, <2>2, <3>1, <3>4, SettledKept
    <2> QED
      BY <1>4, <2>3, <2>4
  <1>5. ~FileAbort(a) /\ ~FileDryRun(a) /\ ~UnlinkGone(a)
    BY <1>0, <1>b, <1>2 DEF FileAbort, FileDryRun, UnlinkGone
  <1> QED
    BY <1>3, <1>4, <1>5 DEF FileStep

(* A directory that is taken up for removal was read: what is left in it was *)
(* dealt with.                                                               *)
LEMMA LeftInside ==
    ASSUME IInv, CInv, StackShape, AllRead, Quiet, PostOrder,
           pc \in {"dir", "rmdir", "rmdir_retry"},
           NEW c \in present, Parent[c] = item.node
    PROVE  c \in Away
  <1>1. /\ Types /\ ScanOnce /\ Waiting = {} /\ item.action = "DIR_POST" /\ pc \in Holding
        /\ c \in Nodes
    BY DEF IInv, CInv, PostOrder, Asked, Holding, Types, TypeOK
  <1>2. /\ item.node \in (given \cup {Root}) \ Range(stack) /\ item.node \in Dirs
        /\ Depth[item.node] = Len(stack) /\ ~Unopened(item.node)
    BY <1>1, HandKinds DEF ScanOnce, StackShape
  <1>3. c # Root
    BY <1>2, TreeAssumption
  <1>4. c \in given
    <2>1. c \in given \cup unread
      BY <1>1, <1>2, <1>3 DEF AllRead
    <2>2. c \notin unread
      BY <1>2 DEF StackShape
    <2> QED
      BY <2>1, <2>2
  <1>5. Depth[c] = Depth[item.node] + 1
    BY <1>1, <1>3, TreeAssumption
  <1>6. c \notin Range(stack)
    <2> SUFFICES ASSUME c \in Range(stack) PROVE FALSE
      OBVIOUS
    <2>1. PICK k \in Nat : k = Len(stack) /\ DOMAIN stack = 1 .. k
      BY <1>1 DEF Types, TypeOK
    <2>2. PICK i \in 1 .. k : c = stack[i]
      BY <2>1 DEF Range
    <2>3. Depth[c] = i - 1 /\ Depth[c] = k + 1
      BY <1>2, <1>5, <2>1, <2>2 DEF StackShape
    <2> QED
      BY <2>1, <2>2, <2>3
  <1>7. c # item.node
    <2>1. Depth[item.node] \in Nat
      BY <1>2, TreeAssumption
    <2> QED
      BY <1>5, <2>1
  <1> QED
    BY <1>1, <1>4, <1>6, <1>7 DEF Away, Pending

(* A directory that was dealt with and still exists could not be removed.    *)
LEMMA SettledDir ==
    ASSUME IInv, CInv, Calm, StackShape, PostOrder, Quiet => Whole /\ AllRead /\ Settled,
           [Next]_vars, Quiet', DirStep
    PROVE  Settled'
  <1>0. /\ Types /\ ScanOnce /\ Whole /\ AllRead /\ Settled /\ Quiet
        /\ ~abort /\ ~job.dryRun /\ job' = job
    BY QuietStep DEF IInv, CInv
  <1>1. /\ UNCHANGED <<given, stack, item, poolVars>>
        /\ pc \in {"dir", "rmdir", "rmdir_retry"}
    BY DEF DirStep, DirAbort, RootChanged, DirDryRun, DirEnter, Rmdir, RmdirGone,
           RmdirNotEmpty, RmdirForce, RmdirError
  <1>2. Waiting' = Waiting
    BY <1>1 DEF Waiting
  <1>a. item.node \in Nodes
    BY <1>0 DEF Types, TypeOK, Items
  <1>b. PICK n \in Nodes : n = item.node
    BY <1>a
  <1>3. /\ item.action = "DIR_POST" /\ n \in present /\ n \in Dirs /\ n \in given \cup {Root}
        /\ n \notin Away
    BY <1>0, <1>1, <1>b, HandKinds DEF IInv, Asked, Calm, Quiet, Holding, ScanOnce, Away, Pending
  <1>4. CASE DirEnter \/ RmdirForce
    <2>1. present' = present /\ pc \in Holding /\ pc' \in Holding /\ pc' \notin {"start", "open"}
      BY <1>4 DEF DirEnter, RmdirForce, Chmod, Holding
    <2>2. Away' = Away
      BY <1>1, <1>2, <2>1 DEF Away, Pending, Holding
    <2> QED
      BY <1>0, <2>1, <2>2, SettledKept
  <1>5. ASSUME pc' = "next", present' = present \ {n} \/ (present' = present /\ Stuck(n)')
        PROVE  Settled'
    <2>1. Away \subseteq Away' /\ Away' \subseteq Away \cup {n}
      BY <1>1, <1>2, <1>5, <1>b DEF Away, Pending, Holding
    <2> QED
      BY <1>0, <1>3, <1>5, <2>1, SettledKept
  <1>6. CASE Rmdir
    BY <1>5, <1>6, <1>b DEF Rmdir, EraseBy, Erase
  <1>7. ASSUME present' = present, pc' = "next", ~Leaf(n, present)
        PROVE  Settled'
    <2>1. PICK c \in present : Parent[c] = n
      BY <1>7 DEF Leaf, Children
    <2>2. c \in Away /\ c # n
      BY <1>0, <1>1, <1>3, <1>b, <2>1, LeftInside
    <2>3. c \in Away'
      BY <1>1, <1>2, <1>7, <1>b, <2>2 DEF Away, Pending, Holding
    <2>4. Stuck(n)'
      BY <1>7, <2>1, <2>3 DEF Stuck
    <2> QED
      BY <1>5, <1>7, <2>4
  <1>8. ASSUME present' = present, pc' = "next",
               n \in Busy \/ (Forbidden(n) /\ (~Forceable(n) \/ Parent[n] \notin mode \cap Owned))
        PROVE  Settled'
    <2>1. n \in Busy \/ (Parent[n] \in ReadOnly /\ (job.force => Parent[n] \notin Owned))
      BY <1>0, <1>3, <1>8, Refusal
    <2>2. Stuck(n)'
      BY <1>0, <2>1 DEF Stuck
    <2> QED
      BY <1>5, <1>8, <2>2
  <1>9. CASE RmdirNotEmpty
    BY <1>7, <1>9, <1>b DEF RmdirNotEmpty
  <1>10. CASE RmdirError
    <2>1. present' = present /\ pc' = "next"
      BY <1>10 DEF RmdirError
    <2>2. \/ ~Leaf(n, present)
          \/ n \in Busy \/ (Forbidden(n) /\ (~Forceable(n) \/ Parent[n] \notin mode \cap Owned))
      BY <1>0, <1>3, <1>10, <1>b DEF RmdirError, Refused, Whole
    <2> QED
      BY <1>7, <1>8, <2>1, <2>2
  <1>11. ~DirAbort /\ ~DirDryRun /\ ~RmdirGone /\ ~RootChanged
    <2>1. Depth[n] = 0 => n = Root
      BY <1>3, TreeAssumption
    <2> QED
      BY <1>0, <1>3, <1>b, <2>1 DEF DirAbort, DirDryRun, RmdirGone, RootChanged, Unchanged, Whole
  <1> QED
    BY <1>4, <1>6, <1>9, <1>10, <1>11 DEF DirStep

(* The loop puts what it held for removal where it waits.                    *)
LEMMA SettledLoop ==
    ASSUME IInv, CInv, Quiet => Whole /\ Settled, [Next]_vars, Quiet', Looping
    PROVE  Settled'
  <1>0. /\ Types /\ Piles /\ Waits /\ Settled /\ ~abort /\ job' = job
    BY QuietStep DEF IInv, CInv
  <1>1. UNCHANGED <<present, given, stack, item>>
    BY DEF Looping, LoopAbort, StreamFile, StreamReturn, BatchFile, PostDir, Drain,
           SkipItem, ScanError, Flush, Join
  <1>2. pc \notin {"start", "open"} /\ pc' \notin {"start", "open"}
    BY DEF Looping, LoopAbort, StreamFile, StreamReturn, BatchFile, PostDir, Drain,
           SkipItem, ScanError, Flush, Join, Got, AfterLoop
  <1>3. CASE BatchFile \/ StreamFile
    <2>1. Waiting' = Waiting \cup {item.node}
      BY <1>0, <1>3, PilesLoop
    <2>2. pc = "got" /\ item.action = "FILE" /\ pc' \notin Holding
      BY <1>3 DEF BatchFile, StreamFile, Got, Holding
    <2>3. Away' = Away
      BY <1>1, <1>2, <2>1, <2>2 DEF Away, Pending, Holding
    <2> QED
      BY <1>0, <1>1, <2>3, SettledKept
  <1>4. CASE ~BatchFile /\ ~StreamFile
    <2>1. Waiting' = Waiting
      BY <1>0, <1>4, PilesLoop
    <2>2. item.action \in {"FILE", "DIR_POST"} => (pc \in Holding <=> pc' \in Holding)
      BY <1>0, <1>4 DEF Looping, LoopAbort, StreamReturn, PostDir, Drain,
                        SkipItem, ScanError, Flush, Join, Got, Holding
    <2>3. Away' = Away
      BY <1>1, <1>2, <2>1, <2>2 DEF Away, Pending
    <2> QED
      BY <1>0, <1>1, <2>3, SettledKept
  <1> QED
    BY <1>3, <1>4

(* What the options do not ask for need not go.                              *)
LEMMA NotAsked ==
    ASSUME NEW n \in Nodes,
           \/ n \in Files \ Matched(job)
           \/ n \in Dirs \ Emitted(job)
    PROVE  n \notin Allowed(job)
  BY JobAssumption DEF Allowed, Matched, Emitted, Removable, Files

(* The scanner passes an entry by only for one of the reasons.               *)
LEMMA SettledScan ==
    ASSUME \A d \in Dirs : Depth[d] < MaxOpen,
           IInv, CInv, Calm, StackShape, Quiet => Whole /\ Settled, [Next]_vars, Quiet',
           Scanning
    PROVE  Settled'
  <1>0. /\ Types /\ ScanOnce /\ Waits /\ Whole /\ Settled /\ Quiet /\ ~ScanFail /\ job' = job
    BY QuietStep DEF IInv, CInv
  <1>1. UNCHANGED <<present, batch, queue, hand>>
    BY <1>0 DEF Scanning, Inspect, OpenRoot, ScanEnd, ScanDone, ScanFile, ScanDir
  <1>2. Waiting' = Waiting /\ Waiting \subseteq given
    BY <1>0, <1>1 DEF Waiting, Waits
  <1>3. \A x : Unopened(x)' <=> Unopened(x)
    BY <1>0 DEF Unopened
  <1>4. CASE Inspect
    <2>1. pc' = "open"
      BY <1>0, <1>4 DEF Inspect, Whole
    <2> QED
      BY <2>1 DEF Settled, Away
  <1>5. CASE OpenRoot
    <2>1. given' = {} /\ stack = <<>> /\ Root \in present /\ Len(<<>>) = 0 /\ Root \in Dirs
      BY <1>0, <1>5, TreeAssumption DEF OpenRoot, ScanOnce, Whole
    <2>2. Len(stack) < MaxOpen
      BY <2>1, TreeAssumption
    <2>3. CASE stack' = <<Root>>
      <3>1. Range(<<Root>>) = {Root}
        BY DEF Range
      <3> QED
        BY <2>1, <2>3, <3>1 DEF Settled, Away
    <2>4. CASE ~Openable(Root, Len(stack))
      <3>1. Root \in Unreadable
        BY <2>1, <2>2, <2>4 DEF Openable
      <3> QED
        BY <2>1, <3>1 DEF Settled, Away, Stuck, Unopened
    <2> QED
      BY <1>5, <2>3, <2>4 DEF OpenRoot
  <1>6. ASSUME NEW n \in Nodes, ScanFile(n) PROVE Settled'
    <2>1. /\ given' = given \cup {n} /\ UNCHANGED stack /\ pc = "next" /\ pc' = "got"
          /\ n \in Files /\ item'.node = n
          /\ (item'.action # "FILE" => n \notin Matched(job))
      BY <1>6 DEF ScanFile, ScanStep, Yield, Item
    <2>2. n \notin given /\ n # Root
      BY <1>0, <1>6, ScanNew DEF ScanFile
    <2>3. /\ Away \subseteq Away' /\ Away' \subseteq Away \cup {n}
          /\ n \in Away' => item'.action # "FILE"
      BY <1>2, <2>1, <2>2 DEF Away, Pending, Holding
    <2>4. n \in Away' => Stuck(n)'
      BY <1>0, <2>1, <2>3, NotAsked DEF Stuck
    <2> QED
      BY <1>0, <1>1, <2>3, <2>4, SettledKept
  <1>7. ASSUME NEW n \in Nodes, ScanDir(n) PROVE Settled'
    <2>1. /\ given' = given \cup {n} /\ pc = "next" /\ pc' \in {"next", "got"}
          /\ n \in Dirs /\ ScanStep(n)
      BY <1>7 DEF ScanDir, ScanStep, Yield
    <2>2. n \notin given /\ n # Root
      BY <1>0, <2>1, ScanNew
    <2>3. CASE stack' = Append(stack, n) /\ pc' = pc
      <3>1. Range(stack') = Range(stack) \cup {n}
        BY <1>0, <2>1, <2>3, AppendAdds DEF Types, TypeOK
      <3>2. Away' = Away
        BY <1>2, <2>1, <2>2, <2>3, <3>1 DEF Away, Pending, Holding
      <3> QED
        BY <1>0, <1>1, <3>2, SettledKept
    <2>4. CASE /\ ~(n \in Traversed(job) /\ Openable(n, Len(stack)))
               /\ stack' = stack /\ item'.action \in {"SCAN_ERROR", "DIR_SKIP"}
      <3>1. Away \subseteq Away' /\ Away' \subseteq Away \cup {n}
        BY <1>2, <2>1, <2>2, <2>4 DEF Away, Pending, Holding
      <3>2. n \in present
        BY <1>0, <2>1 DEF ScanStep, Listed, Calm, Quiet
      <3>3. Len(stack) < MaxOpen
        BY <1>0, <2>1, NextDepth
      <3>4. Unopened(n)
        BY <2>2, <2>4, <3>2, <3>3 DEF Openable, Unopened
      <3>5. Stuck(n)'
        BY <1>3, <2>1, <3>4 DEF Stuck
      <3> QED
        BY <1>0, <1>1, <3>1, <3>5, SettledKept
    <2> QED
      BY <1>7, <2>3, <2>4 DEF ScanDir, Yield, Item
  <1>8. CASE ScanEnd
    <2>1. /\ stack # <<>> /\ Pop /\ pc = "next" /\ pc' \in {"next", "got"} /\ given' = given
          /\ pc' = "got" => item'.node = Top
      BY <1>8 DEF ScanEnd, Pop, Yield, Item
    <2>2. /\ Top \in Range(stack) /\ Range(stack') = Range(stack) \ {Top} /\ Top \in Dirs
      BY <1>0, <2>1, ScanPop, StackTop
    <2>3. PICK n \in Nodes : n = Top
      BY <2>2, TreeAssumption
    <2>4. Away \subseteq Away' /\ Away' \subseteq Away \cup {n}
      BY <1>2, <2>1, <2>2, <2>3 DEF Away, Pending, Holding
    <2>5. CASE pc' = "got" /\ item'.action = "DIR_POST" /\ item'.node = n
      <3>1. n \notin Away'
        BY <2>5 DEF Away, Pending, Holding
      <3> QED
        BY <1>0, <1>1, <2>4, <3>1, SettledKept
    <2>6. CASE n \notin Emitted(job)
      <3>1. Stuck(n)'
        BY <1>0, <2>2, <2>3, <2>6, NotAsked DEF Stuck
      <3> QED
        BY <1>0, <1>1, <2>4, <3>1, SettledKept
    <2>7. Depth[n] = 0 => n = Root
      BY <2>2, <2>3, TreeAssumption
    <2> QED
      BY <1>8, <2>3, <2>5, <2>6, <2>7 DEF ScanEnd, Yield, Item, Emitted
  <1>9. CASE ScanDone
    <2>1. /\ UNCHANGED <<given, stack>> /\ pc = "next"
          /\ pc' \notin Holding /\ pc' \notin {"start", "open"}
      BY <1>9 DEF ScanDone, AfterLoop, Holding
    <2>2. Away' = Away
      BY <1>2, <2>1 DEF Away, Pending, Holding
    <2> QED
      BY <1>0, <1>1, <2>2, SettledKept
  <1> QED
    BY <1>0, <1>4, <1>5, <1>6, <1>7, <1>8, <1>9 DEF Scanning

(* No step leaves a removable entry behind.                                  *)
LEMMA ThoroughNext ==
    ASSUME \A d \in Dirs : Depth[d] < MaxOpen,
           IInv, CInv, Calm, StackShape, PostOrder, Thorough, [Next]_vars
    PROVE  Thorough'
  <1> SUFFICES ASSUME Quiet' PROVE Whole' /\ AllRead' /\ Settled'
    BY DEF Thorough
  <1>0. /\ Quiet => Whole /\ AllRead /\ Settled
        /\ Types /\ Piles /\ Settled /\ ~Meddling /\ job' = job
    BY QuietStep DEF Thorough, IInv, CInv
  <1>1. Whole' /\ AllRead'
    BY <1>0, WholeNext, AllReadNext
  <1>2. ASSUME NEW a \in Actors, FileStep(a) PROVE Settled'
    BY <1>0, <1>2, SettledFile
  <1>3. ASSUME NEW w \in Workers, TakeBatch(w) PROVE Settled'
    <2>1. Waiting' = Waiting /\ UNCHANGED <<present, given, stack, pc, item>>
      BY <1>0, <1>3, PilesTake DEF TakeBatch
    <2>2. Away' = Away
      BY <2>1, AwaySame
    <2> QED
      BY <1>0, <2>1, <2>2, SettledKept
  <1>4. CASE DirStep
    BY <1>0, <1>1, <1>4, SettledDir
  <1>5. CASE Scanning
    BY <1>0, <1>1, <1>5, SettledScan
  <1>6. CASE Looping
    BY <1>0, <1>1, <1>6, SettledLoop
  <1>7. CASE UNCHANGED vars
    <2>1. UNCHANGED <<present, given, stack, pc, item, batch, queue, hand>>
      BY <1>7 DEF vars
    <2>2. Waiting' = Waiting
      BY <2>1 DEF Waiting
    <2>3. Away' = Away
      BY <2>1, <2>2, AwaySame
    <2> QED
      BY <1>0, <1>1, <2>1, <2>3, SettledKept
  <1> QED
    BY <1>0, <1>1, <1>2, <1>3, <1>4, <1>5, <1>6, <1>7, Steps

(* A deletion starts with nothing done.                                      *)
LEMMA ThoroughInit == Init => StackShape /\ Thorough
  <1> SUFFICES ASSUME Init PROVE StackShape /\ Thorough
    OBVIOUS
  <1>1. StackShape
    BY EmptyPile DEF Init, StackShape, Holding
  <1>2. Whole
    BY InitialAssumption DEF Init, DiskInit, Whole
  <1>3. AllRead /\ Settled
    BY DEF Init, AllRead, Settled, Away
  <1> QED
    BY <1>1, <1>2, <1>3 DEF Thorough

(* At the end, whatever was not read was in a directory that was not.        *)
LEMMA Reached ==
    ASSUME Types, Whole, AllRead, pc = "done", unread = {}, NEW n \in present
    PROVE  n \in given \cup {Root} \/ \E d \in Path[n] \cap Dirs : Unopened(d)
  <1> DEFINE Blocked(m) == \E d \in Path[m] \cap Dirs : Unopened(d)
             S == {m \in present : m \in given \cup {Root} \/ Blocked(m)}
  <1>1. present \in SUBSET Nodes /\ (Root \in present => Root \in S)
    BY DEF Types, TypeOK
  <1>2. ASSUME NEW m \in present \ {Root}
        PROVE  Parent[m] \in present /\ (Parent[m] \in S => m \in S)
    <2> SUFFICES ASSUME Parent[m] \in S
                 PROVE  m \in given \cup {Root} \/ Blocked(m)
      BY DEF Whole
    <2>1. Parent[m] \in present /\ Parent[m] \in Dirs
      BY <1>1, TreeAssumption
    <2>2. Path[Parent[m]] \subseteq Path[m] /\ Parent[m] \in Path[m]
      BY <1>1, <2>1, PathSteps, TreeAssumption
    <2>3. CASE Blocked(Parent[m])
      BY <2>2, <2>3
    <2>4. CASE Parent[m] \in given \cup {Root} /\ Unopened(Parent[m])
      BY <2>1, <2>2, <2>4
    <2>5. CASE Parent[m] \in given \cup {Root} /\ ~Unopened(Parent[m])
      BY <2>5 DEF AllRead
    <2> QED
      BY <1>2, <2>1, <2>3, <2>4, <2>5
  <1> HIDE DEF S
  <1>3. present \subseteq S
    BY <1>1, <1>2, Downwards
  <1> QED
    BY <1>3 DEF S

(* A deletion that ran to its end, with nobody interfering, has removed all  *)
(* it could, in whatever order the threads ran, if the process may hold one  *)
(* open directory for every level of the tree, as the scanner does.          *)
THEOREM NothingLeft == (\A d \in Dirs : Depth[d] < MaxOpen) => (Spec => []NoLeftovers)
  <1> SUFFICES ASSUME \A d \in Dirs : Depth[d] < MaxOpen PROVE Spec => []NoLeftovers
    OBVIOUS
  <1>1. IInv /\ CInv /\ StackShape /\ [Next]_vars => StackShape'
    BY ShapeNext
  <1>2. /\ IInv /\ CInv /\ Calm /\ StackShape /\ PostOrder /\ Thorough /\ [Next]_vars
        => Thorough'
    BY ThoroughNext
  <1>3. IInv /\ StackShape /\ PostOrder /\ Thorough => NoLeftovers
    <2> SUFFICES ASSUME IInv, StackShape, PostOrder, Thorough, pc = "done", Quiet,
                        NEW n \in present
                 PROVE  Excused(n)
      BY DEF NoLeftovers, Quiet
    <2>1. Types /\ Whole /\ AllRead /\ Settled /\ n \in Nodes
      BY DEF Thorough, IInv, Types, TypeOK
    <2>2. Range(stack) = {} /\ Waiting = {}
      BY EmptyPile DEF StackShape, PostOrder, Quiet
    <2>3. unread = {}
      BY <2>2 DEF StackShape
    <2>4. CASE \E d \in Path[n] \cap Dirs : Unopened(d)
      BY <2>4 DEF Excused, Unopened
    <2>5. CASE n \in given \cup {Root}
      <3>1. n \in Away
        BY <2>2, <2>5 DEF Away, Pending, Holding
      <3>2. Stuck(n)
        BY <2>1, <3>1 DEF Settled
      <3>3. CASE n \in Dirs /\ Unopened(n)
        <4>1. n \in Path[n]
          BY <2>1, PathSteps
        <4> QED
          BY <3>3, <4>1 DEF Excused, Unopened
      <3>4. CASE \E c \in present \cap Away : Parent[c] = n
        <4>1. ~Leaf(n, present)
          BY <2>1, <3>4 DEF Leaf, Children, Types, TypeOK
        <4> QED
          BY <4>1 DEF Excused
      <3> QED
        BY <3>2, <3>3, <3>4 DEF Stuck, Excused
    <2> QED
      BY <2>1, <2>3, <2>4, <2>5, Reached
  <1>4. RInv => Calm
    BY DEF RInv
  <1> QED
    BY <1>1, <1>2, <1>3, <1>4, ThoroughInit, Invariance, CountInvariance, RemovalInvariance,
       PostOrderRemoval, PTL DEF Spec
===============================================================================
