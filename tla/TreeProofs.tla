------------------------------ MODULE TreeProofs ------------------------------
(* What holds of every tree of Tree: the path of a name obeys its equation,  *)
(* and what passes from a directory to its entries reaches every name.       *)
EXTENDS Tree, WellFoundedInduction, TLAPS

-----------------------------------------------------------------------------
(* The path from a name to the target.                                       *)

(* The smallest set that holds n and, with a name, the directory it is in.   *)
Closed(S) == \A m \in S \ {Root} : Parent[m] \in S
Up(n)     == {m \in Nodes : \A S \in SUBSET Nodes : n \in S /\ Closed(S) => m \in S}

(* It obeys the equation by which Path is defined.                           *)
LEMMA UpSteps ==
    ASSUME NEW n \in Nodes
    PROVE  Up(n) = IF n = Root THEN {n} ELSE {n} \cup Up(Parent[n])
  <1>1. \A m \in Nodes : m \in Up(m) /\ Up(m) \in SUBSET Nodes
    BY DEF Up
  <1>2. \A m \in Nodes : Closed(Up(m))
    BY TreeAssumption DEF Up, Closed
  <1>3. \A m \in Nodes, S \in SUBSET Nodes : m \in S /\ Closed(S) => Up(m) \subseteq S
    BY DEF Up
  <1>4. CASE n = Root
    <2>1. {Root} \in SUBSET Nodes /\ Closed({Root})
      BY TreeAssumption DEF Closed
    <2> QED
      BY <1>1, <1>3, <1>4, <2>1
  <1>5. CASE n # Root
    <2> DEFINE T == {n} \cup Up(Parent[n])
    <2>1. Parent[n] \in Nodes
      BY <1>5, TreeAssumption
    <2>2. T \in SUBSET Nodes /\ Closed(T)
      BY <1>1, <1>2, <2>1 DEF Closed
    <2>3. Up(n) \subseteq T
      BY <1>3, <2>2
    <2>4. Parent[n] \in Up(n)
      BY <1>1, <1>2, <1>5 DEF Closed
    <2>5. Up(Parent[n]) \subseteq Up(n)
      BY <1>1, <1>2, <1>3, <2>1, <2>4
    <2> QED
      BY <1>1, <1>5, <2>3, <2>5
  <1> QED
    BY <1>4, <1>5

(* The path of a name is the name and the path of its directory.             *)
LEMMA PathSteps ==
    ASSUME NEW n \in Nodes
    PROVE  Path[n] = IF n = Root THEN {n} ELSE {n} \cup Path[Parent[n]]
  <1> DEFINE Steps(f) == f = [m \in Nodes |-> IF m = Root THEN {m} ELSE {m} \cup f[Parent[m]]]
             up == [m \in Nodes |-> Up(m)]
  <1>1. Steps(up)
    <2>1. \A m \in Nodes : m # Root => Parent[m] \in Nodes
      BY TreeAssumption
    <2>2. \A m \in Nodes : up[m] = IF m = Root THEN {m} ELSE {m} \cup up[Parent[m]]
      BY <2>1, UpSteps
    <2> QED
      BY <2>2
  <1>2. Path = CHOOSE f : Steps(f)
    BY DEF Path
  <1> HIDE DEF Steps, up
  <1>3. Steps(Path)
    BY <1>1, <1>2
  <1> QED
    BY <1>3 DEF Steps

-----------------------------------------------------------------------------
(* From directories to their entries.                                        *)

(* One number is less than another.                                          *)
Less == {ss \in Nat \X Nat : ss[1] < ss[2]}

(* Every set of numbers that has an element has a least one.                 *)
LEMMA Least ==
    ASSUME NEW T, T \subseteq Nat, T # {}
    PROVE  \E x \in T : \A y \in T : x <= y
  <1>1. IsWellFoundedOn(Less, Nat)
    BY NatLessThanWellFounded DEF OpToRel, Less
  <1>2. \A y, x \in Nat : <<y, x>> \in Less <=> y < x
    BY DEF Less
  <1>3. PICK x \in T : \A y \in T : ~(<<y, x>> \in Less)
    BY <1>1, WFMin
  <1>4. ASSUME NEW y \in T PROVE x <= y
    <2>1. x \in Nat /\ y \in Nat /\ ~(y < x)
      BY <1>2, <1>3
    <2> QED
      BY <2>1
  <1> QED
    BY <1>4

(* A set of names that holds the target and, with a directory, every entry   *)
(* of it that is in tree, holds all of tree.                                 *)
LEMMA Downwards ==
    ASSUME NEW tree \in SUBSET Nodes, NEW S, Root \in tree => Root \in S,
           \A n \in tree \ {Root} : Parent[n] \in tree /\ (Parent[n] \in S => n \in S)
    PROVE  tree \subseteq S
  <1> SUFFICES ASSUME tree \ S # {} PROVE FALSE
    OBVIOUS
  <1> DEFINE depths == {Depth[n] : n \in tree \ S}
  <1>1. depths \subseteq Nat /\ depths # {}
    BY TreeAssumption
  <1>2. PICK x \in depths : \A y \in depths : x <= y
    BY <1>1, Least
  <1>3. PICK n \in tree \ S : x = Depth[n]
    BY <1>2
  <1>4. n # Root
    BY <1>3
  <1>5. Parent[n] \in tree \ S
    BY <1>3, <1>4
  <1>6. PICK k \in Nat : k = Depth[Parent[n]] /\ Depth[n] = k + 1 /\ k \in depths
    BY <1>4, <1>5, TreeAssumption
  <1>7. k + 1 <= k
    BY <1>2, <1>3, <1>6
  <1> QED
    BY <1>7
===============================================================================
