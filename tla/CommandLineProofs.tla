-------------------------- MODULE CommandLineProofs --------------------------
(* Proofs about CommandLine, for every file system, every command and any    *)
(* number of signals.                                                        *)
EXTENDS CommandLine, FiniteSetTheorems, WellFoundedInduction, TLAPS

-----------------------------------------------------------------------------
(* The routes of the file system, which World defines by recursion.          *)

(* The smallest set that holds n and, with an entry, the directory it is in. *)
Closed(S) == \A m \in S \ {Top} : Parent[m] \in S
Above(n)  == {m \in Nodes : \A S \in SUBSET Nodes : n \in S /\ Closed(S) => m \in S}

(* It grows by one entry from a directory to what is in it.                  *)
LEMMA AboveSteps ==
    ASSUME NEW n \in Nodes
    PROVE  Above(n) = IF n = Top THEN {n} ELSE {n} \cup Above(Parent[n])
  <1>1. \A m \in Nodes : m \in Above(m) /\ Above(m) \in SUBSET Nodes
    BY DEF Above
  <1>2. \A m \in Nodes \ {Top} : Parent[m] \in Nodes
    BY WorldAssumption DEF Dirs
  <1>3. \A m \in Nodes : Closed(Above(m))
    BY <1>2 DEF Above, Closed
  <1>4. \A m \in Nodes, S \in SUBSET Nodes : m \in S /\ Closed(S) => Above(m) \subseteq S
    BY DEF Above
  <1>5. CASE n = Top
    <2>1. {Top} \in SUBSET Nodes /\ Closed({Top})
      BY <1>5 DEF Closed
    <2> QED
      BY <1>1, <1>4, <1>5, <2>1
  <1>6. CASE n # Top
    <2> DEFINE T == {n} \cup Above(Parent[n])
    <2>1. Parent[n] \in Nodes
      BY <1>2, <1>6
    <2>2. T \in SUBSET Nodes /\ Closed(T)
      BY <1>1, <1>3, <2>1 DEF Closed
    <2>3. Above(n) \subseteq T
      BY <1>4, <2>2
    <2>4. Parent[n] \in Above(n)
      BY <1>1, <1>3, <1>6 DEF Closed
    <2>5. Above(Parent[n]) \subseteq Above(n)
      BY <1>1, <1>3, <1>4, <2>1, <2>4
    <2> QED
      BY <1>1, <1>6, <2>3, <2>5
  <1> QED
    BY <1>5, <1>6

(* Nothing above an entry is as deep as the entry.                           *)
LEMMA AboveLevel ==
    ASSUME NEW n \in Nodes, NEW m \in Above(n), m # n
    PROVE  Level[m] < Level[n]
  <1> DEFINE S == {a \in Nodes : a = n \/ Level[a] < Level[n]}
  <1>1. ASSUME NEW a \in S, a # Top PROVE Parent[a] \in S
    <2>1. Parent[a] \in Nodes
      BY <1>1, WorldAssumption DEF Dirs
    <2>2. Level[a] = Level[Parent[a]] + 1
      BY <1>1, WorldAssumption
    <2>3. Level[a] \in Nat /\ Level[n] \in Nat /\ Level[Parent[a]] \in Nat
      BY <1>1, <2>1, WorldAssumption
    <2>4. Level[a] <= Level[n]
      BY <1>1, <2>3
    <2> QED
      BY <2>1, <2>2, <2>3, <2>4
  <1>2. Above(n) \subseteq S
    BY <1>1 DEF Above, Closed
  <1> QED
    BY <1>2

(* What is in a sequence to which x is appended.                             *)
LEMMA Appended ==
    ASSUME NEW S, NEW s \in Seq(S), NEW x \in S
    PROVE  Append(s, x) \in Seq(S)
BY SMT

(* What is in a sequence and what was appended to it.                        *)
LEMMA ItemsOfAppend ==
    ASSUME NEW S, NEW s \in Seq(S), NEW x \in S
    PROVE  \A y : (\E i \in DOMAIN Append(s, x) : y = Append(s, x)[i])
                      <=> (y = x \/ \E i \in DOMAIN s : y = s[i])
  <1>1. PICK m \in Nat : m = Len(s)
    OBVIOUS
  <1>2. DOMAIN s = 1 .. m /\ DOMAIN Append(s, x) = 1 .. m + 1
    BY <1>1
  <1>3. \A i \in 1 .. m : Append(s, x)[i] = s[i] /\ i \in 1 .. m + 1
    BY <1>1
  <1>4. Append(s, x)[m + 1] = x /\ m + 1 \in 1 .. m + 1
    BY <1>1
  <1>5. \A i \in 1 .. m + 1 : i = m + 1 \/ i \in 1 .. m
    OBVIOUS
  <1> QED
    BY <1>2, <1>3, <1>4, <1>5

(* A function on 1 .. m is a sequence.                                       *)
LEMMA IsSequence ==
    ASSUME NEW m \in Nat, NEW S, NEW r \in [1 .. m -> S]
    PROVE  r \in Seq(S) /\ Len(r) = m
  OBVIOUS

(* A sequence of which all but the last is r.                                *)
LEMMA Extended ==
    ASSUME NEW m \in Nat, NEW S, NEW r \in Seq(S), Len(r) = m, NEW n \in S,
           NEW s \in Seq(S), Len(s) = m + 1, \A i \in 1 .. m : s[i] = r[i], s[m + 1] = n
    PROVE  s = Append(r, n)
  OBVIOUS

(* The entries above n and n itself, one for each level.                     *)
RouteTo(n) == [i \in 1 .. Level[n] + 1 |-> CHOOSE a \in Above(n) : Level[a] = i - 1]

(* A route is that of the directory and the entry itself.                    *)
LEMMA RouteToSteps ==
    ASSUME NEW n \in Nodes
    PROVE  RouteTo(n) = IF n = Top THEN <<n>> ELSE Append(RouteTo(Parent[n]), n)
  <1>1. PICK k \in Nat : k = Level[n]
    BY WorldAssumption
  <1>2. (CHOOSE a \in Above(n) : Level[a] = k) = n
    <2>1. n \in Above(n)
      BY DEF Above
    <2>2. \A a \in Above(n) : Level[a] = k <=> a = n
      <3>1. ASSUME NEW a \in Above(n), a # n PROVE Level[a] # k
        <4>1. Level[a] < k /\ Level[a] \in Nat
          BY <1>1, <3>1, AboveLevel, WorldAssumption DEF Above
        <4> QED
          BY <4>1
      <3> QED
        BY <1>1, <3>1
    <2> QED
      BY <2>1, <2>2
  <1>3. CASE n = Top
    <2>1. k = 0
      BY <1>1, <1>3, WorldAssumption
    <2>2. RouteTo(n) = [i \in 1 .. 1 |-> CHOOSE a \in Above(n) : Level[a] = i - 1]
      BY <1>1, <2>1 DEF RouteTo
    <2>3. \A i \in 1 .. 1 : i = 1 /\ i - 1 = 0
      OBVIOUS
    <2>4. \A i \in 1 .. 1 : (CHOOSE a \in Above(n) : Level[a] = i - 1) = n
      BY <1>2, <2>1, <2>3
    <2>5. RouteTo(n) = [i \in 1 .. 1 |-> n]
      BY <2>2, <2>4
    <2>6. [i \in 1 .. 1 |-> n] = <<n>>
      OBVIOUS
    <2> QED
      BY <1>3, <2>5, <2>6
  <1>4. CASE n # Top
    <2>1. PICK p \in Nodes : p = Parent[n]
      BY <1>4, WorldAssumption DEF Dirs
    <2>2. PICK j \in Nat : j = Level[p] /\ k = j + 1
      BY <1>1, <1>4, <2>1, WorldAssumption
    <2>3. Above(n) = {n} \cup Above(p)
      BY <1>4, <2>1, AboveSteps
    <2>4. ASSUME NEW i \in 1 .. j + 1
          PROVE  (CHOOSE a \in Above(n) : Level[a] = i - 1) = (CHOOSE a \in Above(p) : Level[a] = i - 1)
      <3>1. i - 1 # k
        BY <2>2, <2>4
      <3>2. \A a : (a \in Above(n) /\ Level[a] = i - 1) <=> (a \in Above(p) /\ Level[a] = i - 1)
        BY <1>1, <2>3, <3>1
      <3> QED
        BY <3>2
    <2>5. RouteTo(p) = [i \in 1 .. j + 1 |-> CHOOSE a \in Above(p) : Level[a] = i - 1]
      BY <2>2 DEF RouteTo
    <2>6. RouteTo(n) = [i \in 1 .. j + 2 |-> CHOOSE a \in Above(n) : Level[a] = i - 1]
      BY <1>1, <2>2 DEF RouteTo
    <2>7. \A i \in 1 .. j + 1 : RouteTo(n)[i] = RouteTo(p)[i]
      <3>1. \A i \in 1 .. j + 1 : i \in 1 .. j + 2
        OBVIOUS
      <3> QED
        BY <2>4, <2>5, <2>6, <3>1
    <2>8. RouteTo(n)[j + 2] = n
      <3>1. (j + 2) - 1 = k /\ j + 2 \in 1 .. j + 2
        BY <2>2
      <3> QED
        BY <1>2, <2>6, <3>1
    <2> PICK m \in Nat : m = j + 1
      OBVIOUS
    <2> DEFINE S == {RouteTo(n)[i] : i \in 1 .. m + 1}
    <2>9. RouteTo(n) \in [1 .. m + 1 -> S] /\ RouteTo(p) \in [1 .. m -> S] /\ n \in S
      <3>1. m + 1 = j + 2 /\ 1 .. m \subseteq 1 .. m + 1 /\ m + 1 \in 1 .. m + 1
        OBVIOUS
      <3>2. RouteTo(n) \in [1 .. m + 1 -> S] /\ n \in S
        BY <2>6, <2>8, <3>1
      <3>3. \A i \in 1 .. m : RouteTo(p)[i] \in S
        BY <2>7, <3>1
      <3>4. RouteTo(p) = [i \in 1 .. m |-> RouteTo(p)[i]]
        BY <2>5
      <3> HIDE DEF S
      <3> QED
        BY <3>2, <3>3, <3>4
    <2>10. RouteTo(n) \in Seq(S) /\ Len(RouteTo(n)) = m + 1 /\ RouteTo(p) \in Seq(S) /\ Len(RouteTo(p)) = m
      <3>1. m + 1 \in Nat
        OBVIOUS
      <3> HIDE DEF S
      <3> QED
        BY <2>9, <3>1, IsSequence
    <2>11. RouteTo(n) = Append(RouteTo(p), n)
      <3>1. RouteTo(n)[m + 1] = n /\ \A i \in 1 .. m : RouteTo(n)[i] = RouteTo(p)[i]
        BY <2>7, <2>8
      <3> HIDE DEF S
      <3> QED
        BY <2>9, <2>10, <3>1, Extended
    <2> QED
      BY <1>4, <2>1, <2>11
  <1> QED
    BY <1>3, <1>4

(* The route of an entry is that of its directory, and the entry.            *)
LEMMA RouteSteps ==
    ASSUME NEW n \in Nodes
    PROVE  Route[n] = IF n = Top THEN <<n>> ELSE Append(Route[Parent[n]], n)
  <1> DEFINE Steps(f) == f = [m \in Nodes |-> IF m = Top THEN <<m>> ELSE Append(f[Parent[m]], m)]
             to == [m \in Nodes |-> RouteTo(m)]
  <1>1. Steps(to)
    <2>1. \A m \in Nodes : m # Top => Parent[m] \in Nodes
      BY WorldAssumption DEF Dirs
    <2>2. \A m \in Nodes : to[m] = IF m = Top THEN <<m>> ELSE Append(to[Parent[m]], m)
      BY <2>1, RouteToSteps
    <2> QED
      BY <2>2
  <1>2. Route = CHOOSE f : Steps(f)
    BY DEF Route
  <1> HIDE DEF Steps, to
  <1>3. Steps(Route)
    BY <1>1, <1>2
  <1> QED
    BY <1>3 DEF Steps

(* One number is less than another.                                          *)
Less == {ss \in Nat \X Nat : ss[1] < ss[2]}

(* Every set of numbers that has an element has a least one.                 *)
LEMMA Least ==
    ASSUME NEW T, T \subseteq Nat, T # {}
    PROVE  \E x \in T : \A y \in T : x <= y
  <1>1. IsWellFoundedOn(Less, Nat)
    BY NatLessThanWellFounded DEF OpToRel, Less
  <1>2. \A y, x \in Nat : <<y, x>> \in Less <=> y < x
    BY DEF Less
  <1>3. PICK x \in T : \A y \in T : ~(<<y, x>> \in Less)
    BY <1>1, WFMin
  <1>4. ASSUME NEW y \in T PROVE x <= y
    <2>1. x \in Nat /\ y \in Nat /\ ~(y < x)
      BY <1>2, <1>3
    <2> QED
      BY <2>1
  <1> QED
    BY <1>4

(* A set that holds the root and, with a directory, what is in it, holds     *)
(* every entry.                                                              *)
LEMMA Downwards ==
    ASSUME NEW S, Top \in S, \A n \in Nodes \ {Top} : Parent[n] \in S => n \in S
    PROVE  Nodes \subseteq S
  <1> SUFFICES ASSUME Nodes \ S # {} PROVE FALSE
    OBVIOUS
  <1> DEFINE levels == {Level[n] : n \in Nodes \ S}
  <1>1. levels \subseteq Nat /\ levels # {}
    BY WorldAssumption
  <1>2. PICK x \in levels : \A y \in levels : x <= y
    BY <1>1, Least
  <1>3. PICK n \in Nodes \ S : x = Level[n]
    BY <1>2
  <1>4. n # Top /\ Parent[n] \in Nodes \ S
    BY <1>3, WorldAssumption DEF Dirs
  <1>5. PICK k \in Nat : k = Level[Parent[n]] /\ Level[n] = k + 1 /\ k \in levels
    BY <1>3, <1>4, WorldAssumption
  <1>6. k + 1 <= k
    BY <1>2, <1>3, <1>5
  <1> QED
    BY <1>6

(* A route is a sequence of entries.                                         *)
LEMMA RouteType == \A n \in Nodes : Route[n] \in Seq(Nodes)
  <1> DEFINE S == {n \in Nodes : Route[n] \in Seq(Nodes)}
  <1>1. Top \in S
    <2>1. Top \in Nodes
      BY WorldAssumption DEF Dirs
    <2>2. Route[Top] = <<Top>>
      BY <2>1, RouteSteps
    <2>3. <<Top>> \in Seq(Nodes)
      BY <2>1
    <2> QED
      BY <2>1, <2>2, <2>3
  <1>2. \A n \in Nodes \ {Top} : Parent[n] \in S => n \in S
    BY RouteSteps, Appended
  <1> HIDE DEF S
  <1>3. Nodes \subseteq S
    BY <1>1, <1>2, Downwards
  <1> QED
    BY <1>3 DEF S

(* Above an entry are the directory it is in and what is above that.         *)
LEMMA UpSteps ==
    ASSUME NEW n \in Nodes
    PROVE  Up[n] = IF n = Top THEN {n} ELSE {n} \cup Up[Parent[n]]
  <1>1. CASE n = Top
    <2>1. Route[n] = <<n>>
      BY <1>1, RouteSteps
    <2>2. {<<n>>[i] : i \in DOMAIN <<n>>} = {n}
      OBVIOUS
    <2>3. Up[n] = {Route[n][i] : i \in DOMAIN Route[n]}
      BY DEF Up
    <2> QED
      BY <1>1, <2>1, <2>2, <2>3
  <1>2. CASE n # Top
    <2>1. PICK p \in Nodes : p = Parent[n]
      BY <1>2, WorldAssumption DEF Dirs
    <2>2. PICK r \in Seq(Nodes) : r = Route[p]
      BY RouteType
    <2>3. Route[n] = Append(r, n)
      BY <1>2, <2>1, <2>2, RouteSteps
    <2>4. \A y : (\E i \in DOMAIN Append(r, n) : y = Append(r, n)[i])
                     <=> (y = n \/ \E i \in DOMAIN r : y = r[i])
      BY ItemsOfAppend
    <2>5. Up[n] = {Route[n][i] : i \in DOMAIN Route[n]} /\ Up[p] = {Route[p][i] : i \in DOMAIN Route[p]}
      BY DEF Up
    <2> QED
      BY <1>2, <2>1, <2>2, <2>3, <2>4, <2>5
  <1> QED
    BY <1>1, <1>2

(* An entry is in itself; nothing else is in one that is no directory.       *)
LEMMA WithinSelf ==
    ASSUME NEW n \in Nodes
    PROVE  n \in Within(n)
  BY UpSteps DEF Within

(* There is nothing in an entry that is no directory but itself.             *)
LEMMA WithinFile ==
    ASSUME NEW t \in Nodes \ Dirs, NEW n \in Within(t)
    PROVE  n = t
  <1> DEFINE S == {m \in Nodes : t \in Up[m] => m = t}
  <1>1. Top \in S
    BY UpSteps, WorldAssumption DEF Dirs
  <1>2. ASSUME NEW m \in Nodes \ {Top}, Parent[m] \in S PROVE m \in S
    <2>1. PICK p \in Dirs : p = Parent[m] /\ p \in Nodes
      BY WorldAssumption DEF Dirs
    <2>2. Up[m] = {m} \cup Up[p]
      BY <2>1, UpSteps
    <2> QED
      BY <1>2, <2>1, <2>2
  <1> HIDE DEF S
  <1>3. Nodes \subseteq S
    BY <1>1, <1>2, Downwards
  <1> QED
    BY <1>3 DEF S, Within

-----------------------------------------------------------------------------
(* Ignore files: what the search of gitignore.py finds, and what it should.  *)

(* Part k covers of the path s the names from a on up to b, without b.       *)
Part(p, s, P, k, a, b) ==
    \/ p[k] = AnyDepth /\ b - a >= (IF k = P THEN 1 ELSE 0)
    \/ p[k] # AnyDepth /\ b = a + 1 /\ s[a] \in p[k]

(* at lays the parts from k to the last, P, out from i up to e.              *)
Lay(p, s, P, L, k, i, e, at) ==
    /\ at \in [k .. P + 1 -> 1 .. L + 1]
    /\ at[k] = i /\ at[P + 1] = e
    /\ \A q \in k .. P : Part(p, s, P, q, at[q], at[q + 1])

(* Part k goes before a layout of the parts after it.                        *)
LEMMA LayRest ==
    ASSUME NEW p, NEW s, NEW P \in Nat, NEW L \in Nat, NEW k \in 1 .. P, NEW i, NEW e, NEW at,
           Lay(p, s, P, L, k, i, e, at)
    PROVE  /\ i \in 1 .. L + 1 /\ at[k + 1] \in 1 .. L + 1
           /\ Part(p, s, P, k, i, at[k + 1])
           /\ \E rest : Lay(p, s, P, L, k + 1, at[k + 1], e, rest)
  <1>1. k \in k .. P + 1 /\ k + 1 \in k .. P + 1 /\ k \in k .. P /\ P + 1 \in k + 1 .. P + 1
    OBVIOUS
  <1>2. at \in [k .. P + 1 -> 1 .. L + 1] /\ at[k] = i /\ at[P + 1] = e
        /\ \A q \in k .. P : Part(p, s, P, q, at[q], at[q + 1])
    BY DEF Lay
  <1>3. at[k] \in 1 .. L + 1 /\ at[k + 1] \in 1 .. L + 1
    BY <1>1, <1>2
  <1> DEFINE rest == [q \in k + 1 .. P + 1 |-> at[q]]
  <1>4. \A q \in k + 1 .. P + 1 : q \in k .. P + 1 /\ rest[q] = at[q]
    OBVIOUS
  <1>5. rest \in [k + 1 .. P + 1 -> 1 .. L + 1]
    BY <1>2, <1>4
  <1>6. \A q \in k + 1 .. P : q \in k .. P /\ q \in k + 1 .. P + 1 /\ q + 1 \in k + 1 .. P + 1
    OBVIOUS
  <1>7. k + 1 \in k + 1 .. P + 1
    OBVIOUS
  <1> HIDE DEF rest
  <1>8. \A q \in k + 1 .. P : Part(p, s, P, q, rest[q], rest[q + 1])
    BY <1>2, <1>4, <1>6
  <1>9. Lay(p, s, P, L, k + 1, at[k + 1], e, rest)
    BY <1>1, <1>2, <1>4, <1>5, <1>7, <1>8 DEF Lay
  <1> QED
    BY <1>1, <1>2, <1>3, <1>9

LEMMA LayFirst ==
    ASSUME NEW p, NEW s, NEW P \in Nat, NEW L \in Nat, NEW k \in 1 .. P, NEW i \in 1 .. L + 1,
           NEW j, NEW e, NEW rest,
           Part(p, s, P, k, i, j), Lay(p, s, P, L, k + 1, j, e, rest)
    PROVE  \E at : Lay(p, s, P, L, k, i, e, at)
  <1> DEFINE at == [q \in k .. P + 1 |-> IF q = k THEN i ELSE rest[q]]
  <1>1. rest \in [k + 1 .. P + 1 -> 1 .. L + 1] /\ rest[k + 1] = j /\ rest[P + 1] = e
        /\ \A q \in k + 1 .. P : Part(p, s, P, q, rest[q], rest[q + 1])
    BY DEF Lay
  <1>2. \A q \in k .. P + 1 : q = k \/ q \in k + 1 .. P + 1
    OBVIOUS
  <1>3. at[k] = i /\ k \in k .. P + 1
    OBVIOUS
  <1>4. \A q \in k + 1 .. P + 1 : at[q] = rest[q]
    OBVIOUS
  <1>5. at \in [k .. P + 1 -> 1 .. L + 1]
    BY <1>1, <1>2
  <1>6. k + 1 \in k + 1 .. P + 1 /\ P + 1 \in k + 1 .. P + 1
    OBVIOUS
  <1>7. \A q \in k .. P : q = k \/ (q \in k + 1 .. P /\ q \in k + 1 .. P + 1 /\ q + 1 \in k + 1 .. P + 1)
    OBVIOUS
  <1> HIDE DEF at
  <1>8. at[k + 1] = j /\ at[P + 1] = e
    BY <1>1, <1>4, <1>6
  <1>9. ASSUME NEW q \in k .. P PROVE Part(p, s, P, q, at[q], at[q + 1])
    <2>1. CASE q = k
      BY <1>3, <1>8, <2>1
    <2>2. CASE q # k
      <3>1. at[q] = rest[q] /\ at[q + 1] = rest[q + 1] /\ q \in k + 1 .. P
        BY <1>4, <1>7, <2>2
      <3> QED
        BY <1>1, <3>1
    <2> QED
      BY <2>1, <2>2
  <1> QED
    BY <1>3, <1>5, <1>8, <1>9 DEF Lay

(* The last part covers something, so that a layout does.                    *)
LEMMA LayCovers ==
    ASSUME NEW p, NEW s, NEW P \in Nat, NEW L \in Nat, NEW k \in 1 .. P, NEW i, NEW e, NEW at,
           Lay(p, s, P, L, k, i, e, at)
    PROVE  i < e /\ i \in 1 .. L /\ e \in 2 .. L + 1
  <1> DEFINE bad == {d \in Nat : \E q, a, b, f : q \in 1 .. P /\ d = P - q /\ Lay(p, s, P, L, q, a, b, f) /\ ~(a < b)}
  <1>0. ASSUME NEW q \in 1 .. P, NEW a, NEW b, NEW f, Lay(p, s, P, L, q, a, b, f)
        PROVE  a \in 1 .. L + 1 /\ b \in 1 .. L + 1
    <2>1. q \in q .. P + 1 /\ P + 1 \in q .. P + 1
      OBVIOUS
    <2> QED
      BY <1>0, <2>1 DEF Lay
  <1>1. bad = {}
    <2> SUFFICES ASSUME bad # {} PROVE FALSE
      OBVIOUS
    <2>1. bad \subseteq Nat
      OBVIOUS
    <2>2. PICK d \in bad : \A x \in bad : d <= x
      BY <2>1, Least
    <2>3. PICK q, a, b, f : q \in 1 .. P /\ d = P - q /\ Lay(p, s, P, L, q, a, b, f) /\ ~(a < b)
      BY <2>2
    <2> PICK c : c = f[q + 1]
      OBVIOUS
    <2>4. a \in 1 .. L + 1 /\ c \in 1 .. L + 1 /\ b \in 1 .. L + 1
      BY <1>0, <2>3, LayRest
    <2>5. Part(p, s, P, q, a, c) /\ \E rest : Lay(p, s, P, L, q + 1, c, b, rest)
      BY <2>3, LayRest
    <2>6. CASE q = P
      <3>1. b = c
        BY <2>3, <2>6 DEF Lay
      <3> QED
        BY <2>3, <2>4, <2>5, <2>6, <3>1 DEF Part
    <2>7. CASE q # P
      <3>1. q + 1 \in 1 .. P /\ P - (q + 1) \in Nat /\ P - (q + 1) < P - q
        BY <2>3, <2>7
      <3>2. c < b
        <4> SUFFICES ASSUME ~(c < b) PROVE FALSE
          OBVIOUS
        <4>1. P - (q + 1) \in bad
          BY <2>5, <3>1
        <4> QED
          BY <2>2, <2>3, <3>1, <4>1
      <3>3. a <= c
        BY <2>4, <2>5 DEF Part
      <3> QED
        BY <2>3, <2>4, <3>2, <3>3
    <2> QED
      BY <2>6, <2>7
  <1>2. P - k \in Nat
    OBVIOUS
  <1>3. i < e
    BY <1>1, <1>2
  <1>4. i \in 1 .. L + 1 /\ e \in 1 .. L + 1
    BY <1>0
  <1> QED
    BY <1>3, <1>4

(* Every part of a layout begins before its end.                             *)
LEMMA LayInside ==
    ASSUME NEW p, NEW s, NEW P \in Nat, NEW L \in Nat, NEW k \in 1 .. P, NEW i, NEW e, NEW at,
           Lay(p, s, P, L, k, i, e, at), NEW q \in k .. P
    PROVE  at[q] < e /\ at[q] \in 1 .. L /\ e \in 2 .. L + 1
  <1> DEFINE rest == [x \in q .. P + 1 |-> at[x]]
  <1>1. at \in [k .. P + 1 -> 1 .. L + 1] /\ at[P + 1] = e
        /\ \A x \in k .. P : Part(p, s, P, x, at[x], at[x + 1])
    BY DEF Lay
  <1>2. \A x \in q .. P + 1 : x \in k .. P + 1 /\ rest[x] = at[x]
    OBVIOUS
  <1>3. rest \in [q .. P + 1 -> 1 .. L + 1]
    BY <1>1, <1>2
  <1>4. \A x \in q .. P : x \in k .. P /\ x \in q .. P + 1 /\ x + 1 \in q .. P + 1
    OBVIOUS
  <1>5. q \in q .. P + 1 /\ P + 1 \in q .. P + 1 /\ q \in 1 .. P
    OBVIOUS
  <1> HIDE DEF rest
  <1>6. \A x \in q .. P : Part(p, s, P, x, rest[x], rest[x + 1])
    BY <1>1, <1>2, <1>4
  <1>7. Lay(p, s, P, L, q, at[q], e, rest)
    BY <1>1, <1>2, <1>3, <1>5, <1>6 DEF Lay
  <1> QED
    BY <1>5, <1>7, LayCovers

(* Where a layout ends is all that matters of what comes after it.           *)
LEMMA LayElsewhere ==
    ASSUME NEW p, NEW s, NEW u, NEW P \in Nat \ {0}, NEW L \in Nat, NEW M \in Nat, NEW e \in 1 .. M + 1,
           NEW at, Lay(p, s, P, L, 1, 1, e, at), \A i \in 1 .. M : i < e => u[i] = s[i]
    PROVE  Lay(p, u, P, M, 1, 1, e, at)
  <1>1. at \in [1 .. P + 1 -> 1 .. L + 1] /\ at[1] = 1 /\ at[P + 1] = e
        /\ \A x \in 1 .. P : Part(p, s, P, x, at[x], at[x + 1])
    BY DEF Lay
  <1>2. 1 \in 1 .. P
    OBVIOUS
  <1>3. \A x \in 1 .. P : at[x] < e /\ at[x] \in 1 .. L
    BY <1>2, LayInside
  <1>4. \A x \in 1 .. P : at[x] \in 1 .. M /\ at[x] < e
    BY <1>3
  <1>5. \A x \in 1 .. P + 1 : x \in 1 .. P \/ x = P + 1
    OBVIOUS
  <1>6. \A x \in 1 .. P + 1 : at[x] \in 1 .. M + 1
    BY <1>1, <1>4, <1>5
  <1>7. at \in [1 .. P + 1 -> 1 .. M + 1]
    BY <1>1, <1>6
  <1>8. \A x \in 1 .. P : Part(p, u, P, x, at[x], at[x + 1])
    BY <1>1, <1>4 DEF Part
  <1> QED
    BY <1>1, <1>7, <1>8 DEF Lay

(* The places where the parts from k on fit.                                 *)
Fit(p, s, P, L) == [k \in 1 .. P + 1 |-> {i \in 1 .. L + 1 : \E e, at : Lay(p, s, P, L, k, i, e, at)}]

(* After the last part anything fits.                                        *)
LEMMA FitEnd ==
    ASSUME NEW p, NEW s, NEW P \in Nat, NEW L \in Nat
    PROVE  Fit(p, s, P, L)[P + 1] = 1 .. L + 1
  <1>1. ASSUME NEW i \in 1 .. L + 1 PROVE \E e, at : Lay(p, s, P, L, P + 1, i, e, at)
    <2> DEFINE at == [x \in P + 1 .. P + 1 |-> i]
    <2>1. P + 1 \in P + 1 .. P + 1 /\ \A q \in P + 1 .. P : FALSE
      OBVIOUS
    <2>2. Lay(p, s, P, L, P + 1, i, i, at)
      BY <2>1 DEF Lay
    <2> QED
      BY <2>2
  <1>2. P + 1 \in 1 .. P + 1
    OBVIOUS
  <1> QED
    BY <1>1, <1>2 DEF Fit

(* Before it, what fits does so in front of a place where the next one does. *)
LEMMA FitStep ==
    ASSUME NEW p, NEW s, NEW P \in Nat, NEW L \in Nat, NEW k \in 1 .. P, NEW i
    PROVE  i \in Fit(p, s, P, L)[k]
               <=> i \in 1 .. L /\ \E j \in Fit(p, s, P, L)[k + 1] : Part(p, s, P, k, i, j)
  <1>1. k \in 1 .. P + 1 /\ k + 1 \in 1 .. P + 1
    OBVIOUS
  <1>2. \A x : x \in Fit(p, s, P, L)[k] <=> x \in 1 .. L + 1 /\ \E e, at : Lay(p, s, P, L, k, x, e, at)
    BY <1>1 DEF Fit
  <1>3. \A x : x \in Fit(p, s, P, L)[k + 1]
                   <=> x \in 1 .. L + 1 /\ \E e, at : Lay(p, s, P, L, k + 1, x, e, at)
    BY <1>1 DEF Fit
  <1>4. ASSUME i \in Fit(p, s, P, L)[k]
        PROVE  i \in 1 .. L /\ \E j \in Fit(p, s, P, L)[k + 1] : Part(p, s, P, k, i, j)
    <2>1. PICK e, at : Lay(p, s, P, L, k, i, e, at)
      BY <1>2, <1>4
    <2>2. i \in 1 .. L
      BY <2>1, LayCovers
    <2>3. /\ at[k + 1] \in 1 .. L + 1 /\ Part(p, s, P, k, i, at[k + 1])
          /\ \E rest : Lay(p, s, P, L, k + 1, at[k + 1], e, rest)
      BY <2>1, LayRest
    <2>4. at[k + 1] \in Fit(p, s, P, L)[k + 1]
      BY <1>3, <2>3
    <2> QED
      BY <2>2, <2>3, <2>4
  <1>5. ASSUME i \in 1 .. L, NEW j \in Fit(p, s, P, L)[k + 1], Part(p, s, P, k, i, j)
        PROVE  i \in Fit(p, s, P, L)[k]
    <2>1. PICK e, rest : Lay(p, s, P, L, k + 1, j, e, rest)
      BY <1>3
    <2>2. i \in 1 .. L + 1
      BY <1>5
    <2>3. \E at : Lay(p, s, P, L, k, i, e, at)
      BY <1>5, <2>1, <2>2, LayFirst
    <2> QED
      BY <1>2, <2>2, <2>3
  <1> QED
    BY <1>4, <1>5

(* The equation by which Covers finds those places, from the last part back. *)
Solves(f, parts, path) ==
    f = [k \in 1 .. Len(parts) + 1 |->
            IF k > Len(parts) THEN 1 .. Len(path) + 1
            ELSE {i \in DOMAIN path :
                     IF parts[k] = AnyDepth
                     THEN k = Len(parts) \/ \E j \in f[k + 1] : i <= j
                     ELSE path[i] \in parts[k] /\ i + 1 \in f[k + 1]}]

LEMMA SolutionAt ==
    ASSUME NEW parts, NEW path, NEW P \in Nat, P = Len(parts), NEW f, Solves(f, parts, path),
           NEW k \in 1 .. P
    PROVE  \A i : i \in f[k] <=> /\ i \in DOMAIN path
                                 /\ IF parts[k] = AnyDepth
                                    THEN k = P \/ \E j \in f[k + 1] : i <= j
                                    ELSE path[i] \in parts[k] /\ i + 1 \in f[k + 1]
  <1>1. k \in 1 .. P + 1 /\ ~(k > P)
    OBVIOUS
  <1>2. f = [q \in 1 .. P + 1 |->
            IF q > P THEN 1 .. Len(path) + 1
            ELSE {i \in DOMAIN path :
                     IF parts[q] = AnyDepth
                     THEN q = P \/ \E j \in f[q + 1] : i <= j
                     ELSE path[i] \in parts[q] /\ i + 1 \in f[q + 1]}]
    BY DEF Solves
  <1>3. f[k] = IF k > P THEN 1 .. Len(path) + 1
               ELSE {i \in DOMAIN path :
                        IF parts[k] = AnyDepth
                        THEN k = P \/ \E j \in f[k + 1] : i <= j
                        ELSE path[i] \in parts[k] /\ i + 1 \in f[k + 1]}
    BY <1>1, <1>2
  <1>4. f[k] = {i \in DOMAIN path :
                        IF parts[k] = AnyDepth
                        THEN k = P \/ \E j \in f[k + 1] : i <= j
                        ELSE path[i] \in parts[k] /\ i + 1 \in f[k + 1]}
    BY <1>1, <1>3
  <1> QED
    BY <1>4

(* It has one solution, ...                                                  *)
LEMMA OneSolution ==
    ASSUME NEW parts, NEW path, NEW P \in Nat, P = Len(parts), NEW f, NEW g,
           Solves(f, parts, path), Solves(g, parts, path)
    PROVE  f = g
  <1> DEFINE bad == {d \in Nat : \E k : k \in 1 .. P + 1 /\ d = P + 1 - k /\ f[k] # g[k]}
  <1>1. f = [k \in 1 .. P + 1 |-> f[k]] /\ g = [k \in 1 .. P + 1 |-> g[k]]
    BY DEF Solves
  <1>2. \A k \in 1 .. P + 1 : k > P => f[k] = 1 .. Len(path) + 1 /\ g[k] = 1 .. Len(path) + 1
    BY DEF Solves
  <1>3. ASSUME NEW k \in 1 .. P, f[k + 1] = g[k + 1] PROVE f[k] = g[k]
    <2>1. k \in 1 .. P + 1 /\ ~(k > P)
      OBVIOUS
    <2>2. \A i : i \in f[k] <=> /\ i \in DOMAIN path
                                /\ IF parts[k] = AnyDepth
                                   THEN k = P \/ \E j \in f[k + 1] : i <= j
                                   ELSE path[i] \in parts[k] /\ i + 1 \in f[k + 1]
      BY <2>1, SolutionAt
    <2>3. \A i : i \in g[k] <=> /\ i \in DOMAIN path
                                /\ IF parts[k] = AnyDepth
                                   THEN k = P \/ \E j \in g[k + 1] : i <= j
                                   ELSE path[i] \in parts[k] /\ i + 1 \in g[k + 1]
      BY <2>1, SolutionAt
    <2>4. \A i : i \in f[k] <=> i \in g[k]
      BY <1>3, <2>2, <2>3
    <2>5. (\A i \in f[k] : i \in DOMAIN path) /\ (\A i \in g[k] : i \in DOMAIN path)
      BY <2>2, <2>3
    <2>6. f[k] \in SUBSET DOMAIN path /\ g[k] \in SUBSET DOMAIN path
      BY <2>5
    <2> QED
      BY <2>4, <2>6
  <1>4. bad = {}
    <2> SUFFICES ASSUME bad # {} PROVE FALSE
      OBVIOUS
    <2>0. bad \subseteq Nat
      OBVIOUS
    <2>1. PICK d \in bad : \A x \in bad : d <= x
      BY <2>0, Least
    <2>2. PICK k \in 1 .. P + 1 : d = P + 1 - k /\ f[k] # g[k]
      BY <2>1
    <2> HIDE DEF bad
    <2>3. k \in 1 .. P
      BY <1>2, <2>2
    <2>4. f[k + 1] # g[k + 1]
      BY <1>3, <2>2, <2>3
    <2>5. k + 1 \in 1 .. P + 1 /\ P + 1 - (k + 1) \in Nat /\ P + 1 - (k + 1) < d
      BY <2>2, <2>3
    <2>6. P + 1 - (k + 1) \in bad
      BY <2>4, <2>5 DEF bad
    <2> QED
      BY <2>1, <2>2, <2>5, <2>6
  <1>5. \A k \in 1 .. P + 1 : f[k] = g[k]
    <2> SUFFICES ASSUME NEW k \in 1 .. P + 1 PROVE f[k] = g[k]
      OBVIOUS
    <2>1. P + 1 - k \in Nat
      OBVIOUS
    <2> QED
      BY <1>4, <2>1
  <1> QED
    BY <1>1, <1>5

(* ... the places where the parts fit.                                       *)
LEMMA FitSolves ==
    ASSUME NEW parts, NEW path, NEW P \in Nat, P = Len(parts), NEW L \in Nat, L = Len(path),
           DOMAIN path = 1 .. L
    PROVE  Solves(Fit(parts, path, P, L), parts, path)
  <1> DEFINE f == Fit(parts, path, P, L)
  <1>1. f = [k \in 1 .. P + 1 |-> f[k]]
    BY DEF Fit
  <1>2. f[P + 1] = 1 .. L + 1
    BY FitEnd
  <1>3. ASSUME NEW k \in 1 .. P, NEW i
        PROVE  i \in f[k] <=> i \in 1 .. L /\ \E j \in f[k + 1] : Part(parts, path, P, k, i, j)
    BY FitStep
  <1>4. \A k \in 1 .. P + 1 : f[k] \subseteq 1 .. L + 1
    BY DEF Fit
  <1> HIDE DEF f
  <1>5. ASSUME NEW k \in 1 .. P, NEW i \in 1 .. L
        PROVE  (\E j \in f[k + 1] : Part(parts, path, P, k, i, j))
                   <=> IF parts[k] = AnyDepth
                       THEN k = P \/ \E j \in f[k + 1] : i <= j
                       ELSE path[i] \in parts[k] /\ i + 1 \in f[k + 1]
    <2>1. k + 1 \in 1 .. P + 1 /\ \A j \in f[k + 1] : j \in 1 .. L + 1
      BY <1>4
    <2>2. CASE parts[k] # AnyDepth
      <3>1. \A j : Part(parts, path, P, k, i, j) <=> j = i + 1 /\ path[i] \in parts[k]
        BY <2>2 DEF Part
      <3> QED
        BY <2>2, <3>1
    <2>3. CASE parts[k] = AnyDepth /\ k = P
      <3>1. i + 1 \in f[k + 1] /\ (i + 1) - i >= 1
        BY <1>2, <2>3
      <3>2. Part(parts, path, P, k, i, i + 1)
        BY <2>3, <3>1 DEF Part
      <3> QED
        BY <2>3, <3>1, <3>2
    <2>4. CASE parts[k] = AnyDepth /\ k # P
      <3>1. \A j \in f[k + 1] : Part(parts, path, P, k, i, j) <=> i <= j
        BY <2>1, <2>4 DEF Part
      <3> QED
        BY <2>4, <3>1
    <2> QED
      BY <2>2, <2>3, <2>4
  <1>6. ASSUME NEW k \in 1 .. P + 1
        PROVE  f[k] = IF k > P THEN 1 .. L + 1
                      ELSE {i \in 1 .. L :
                               IF parts[k] = AnyDepth
                               THEN k = P \/ \E j \in f[k + 1] : i <= j
                               ELSE path[i] \in parts[k] /\ i + 1 \in f[k + 1]}
    <2>1. CASE k = P + 1
      BY <1>2, <2>1
    <2>2. CASE k # P + 1
      <3>1. k \in 1 .. P /\ ~(k > P)
        BY <2>2
      <3>2. \A i : i \in f[k] <=> i \in 1 .. L /\ (IF parts[k] = AnyDepth
                               THEN k = P \/ \E j \in f[k + 1] : i <= j
                               ELSE path[i] \in parts[k] /\ i + 1 \in f[k + 1])
        BY <1>3, <1>5, <3>1
      <3> QED
        BY <3>1, <3>2
    <2> QED
      BY <2>1, <2>2
  <1>7. f = [k \in 1 .. P + 1 |->
                IF k > P THEN 1 .. L + 1
                ELSE {i \in 1 .. L :
                         IF parts[k] = AnyDepth
                         THEN k = P \/ \E j \in f[k + 1] : i <= j
                         ELSE path[i] \in parts[k] /\ i + 1 \in f[k + 1]}]
    BY <1>1, <1>6
  <1>8. Solves(f, parts, path)
    BY <1>7 DEF Solves
  <1> QED
    BY <1>8 DEF f

(* So Covers finds a layout from the first name on, if there is one.         *)
LEMMA CoversLay ==
    ASSUME NEW parts, NEW path, NEW P \in Nat, P = Len(parts), NEW L \in Nat, L = Len(path),
           DOMAIN path = 1 .. L
    PROVE  Covers(parts, path) <=> \E e, at : Lay(parts, path, P, L, 1, 1, e, at)
  <1>1. Covers(parts, path) <=> 1 \in (CHOOSE f : Solves(f, parts, path))[1]
    BY DEF Covers, Solves
  <1>2. Solves(Fit(parts, path, P, L), parts, path)
    BY FitSolves
  <1>3. (CHOOSE f : Solves(f, parts, path)) = Fit(parts, path, P, L)
    BY <1>2, OneSolution
  <1>4. 1 \in 1 .. P + 1 /\ 1 \in 1 .. L + 1
    OBVIOUS
  <1>5. 1 \in Fit(parts, path, P, L)[1] <=> \E e, at : Lay(parts, path, P, L, 1, 1, e, at)
    BY <1>4 DEF Fit
  <1> QED
    BY <1>1, <1>3, <1>5

(* A stretch of a path.                                                      *)
LEMMA Stretch ==
    ASSUME NEW S, NEW path \in Seq(S), NEW a \in 1 .. Len(path), NEW b \in a .. Len(path)
    PROVE  /\ Len(SubSeq(path, a, b)) = b - a + 1 /\ b - a + 1 \in Nat
           /\ DOMAIN SubSeq(path, a, b) = 1 .. b - a + 1
           /\ \A i \in 1 .. b - a + 1 : SubSeq(path, a, b)[i] = path[a + i - 1]
  OBVIOUS

(* A pattern is laid out along a whole path.                                 *)
LEMMA LaidOutLay ==
    ASSUME NEW parts, NEW u, NEW P \in Nat, P = Len(parts), DOMAIN parts = 1 .. P,
           NEW M \in Nat, M = Len(u)
    PROVE  LaidOut(parts, u) <=> \E at : Lay(parts, u, P, M, 1, 1, M + 1, at)
  <1>1. ASSUME NEW at, NEW k \in 1 .. P
        PROVE  Part(parts, u, P, k, at[k], at[k + 1])
                 <=> \/ parts[k] = AnyDepth /\ at[k + 1] - at[k] >= IF k = Len(parts) THEN 1 ELSE 0
                     \/ parts[k] # AnyDepth /\ at[k + 1] = at[k] + 1 /\ u[at[k]] \in parts[k]
    BY DEF Part
  <1>2. ASSUME NEW at
        PROVE  Lay(parts, u, P, M, 1, 1, M + 1, at)
                 <=> /\ at \in [1 .. Len(parts) + 1 -> 1 .. Len(u) + 1]
                     /\ at[1] = 1 /\ at[Len(parts) + 1] = Len(u) + 1
                     /\ \A k \in DOMAIN parts :
                          \/ parts[k] = AnyDepth /\ at[k + 1] - at[k] >= IF k = Len(parts) THEN 1 ELSE 0
                          \/ parts[k] # AnyDepth /\ at[k + 1] = at[k] + 1 /\ u[at[k]] \in parts[k]
    BY <1>1 DEF Lay
  <1> QED
    BY <1>2 DEF LaidOut

(* Of a path and a longer one that begins with it, the same layouts end with *)
(* the shorter one.                                                          *)
LEMMA Cut ==
    ASSUME NEW p, NEW s, NEW u, NEW P \in Nat \ {0}, NEW K \in Nat, NEW M \in Nat, M <= K,
           \A i \in 1 .. M : u[i] = s[i]
    PROVE  (\E at : Lay(p, s, P, K, 1, 1, M + 1, at)) <=> (\E at : Lay(p, u, P, M, 1, 1, M + 1, at))
  <1>1. M + 1 \in 1 .. M + 1 /\ M + 1 \in 1 .. K + 1
    OBVIOUS
  <1>2. (\A i \in 1 .. M : i < M + 1 => u[i] = s[i]) /\ (\A i \in 1 .. K : i < M + 1 => s[i] = u[i])
    OBVIOUS
  <1>3. ASSUME NEW at, Lay(p, s, P, K, 1, 1, M + 1, at) PROVE Lay(p, u, P, M, 1, 1, M + 1, at)
    BY <1>1, <1>2, <1>3, LayElsewhere
  <1>4. ASSUME NEW at, Lay(p, u, P, M, 1, 1, M + 1, at) PROVE Lay(p, s, P, K, 1, 1, M + 1, at)
    BY <1>1, <1>2, <1>4, LayElsewhere
  <1> QED
    BY <1>3, <1>4

(* The code's search finds a pattern in a path exactly if it can be laid out *)
(* along some part of it.                                                    *)
LEMMA FoundLaidOut ==
    ASSUME NEW S, NEW path \in Seq(S), path # <<>>, NEW rule, IsList(rule.parts), Len(rule.parts) > 0
    PROVE  Found(rule, path) <=> \E a, b \in DOMAIN path : /\ a <= b
                                                           /\ Anchored(rule) => a = 1
                                                           /\ LaidOut(rule.parts, SubSeq(path, a, b))
  <1> PICK L \in Nat : L = Len(path) /\ DOMAIN path = 1 .. L /\ L > 0
    OBVIOUS
  <1> PICK parts : parts = rule.parts
    OBVIOUS
  <1> PICK P \in Nat : P = Len(parts) /\ DOMAIN parts = 1 .. P
    BY DEF IsList
  <1>1. P \in Nat \ {0} /\ 1 \in 1 .. P
    BY DEF IsList
  <1>2. ASSUME NEW a \in 1 .. L
        PROVE  Covers(parts, SubSeq(path, a, L))
                   <=> \E b \in a .. L : LaidOut(parts, SubSeq(path, a, b))
    <2> DEFINE s == SubSeq(path, a, L)
    <2>10. L - a + 1 \in Nat
      OBVIOUS
    <2> PICK K \in Nat : K = L - a + 1
      BY <2>10
    <2>0. L \in a .. L /\ a \in 1 .. Len(path) /\ L \in a .. Len(path)
      OBVIOUS
    <2>9. Len(s) = K /\ DOMAIN s = 1 .. K /\ \A i \in 1 .. K : s[i] = path[a + i - 1]
      BY <2>0, Stretch
    <2> HIDE DEF s
    <2>1. Covers(parts, s) <=> \E e, at : Lay(parts, s, P, K, 1, 1, e, at)
      BY <2>9, CoversLay
    <2>2. ASSUME NEW M \in 1 .. K
          PROVE  LaidOut(parts, SubSeq(path, a, a + M - 1)) <=> \E at : Lay(parts, s, P, K, 1, 1, M + 1, at)
      <3> DEFINE u == SubSeq(path, a, a + M - 1)
      <3>1. a + M - 1 \in a .. L /\ (a + M - 1) - a + 1 = M /\ M \in Nat /\ M <= K
        OBVIOUS
      <3>2. Len(u) = M /\ \A i \in 1 .. M : u[i] = path[a + i - 1]
        BY <3>1, Stretch
      <3> HIDE DEF u
      <3>3. \A i \in 1 .. M : u[i] = s[i]
        BY <2>9, <3>1, <3>2
      <3>4. LaidOut(parts, u) <=> \E at : Lay(parts, u, P, M, 1, 1, M + 1, at)
        BY <3>1, <3>2, LaidOutLay
      <3>5. (\E at : Lay(parts, s, P, K, 1, 1, M + 1, at)) <=> (\E at : Lay(parts, u, P, M, 1, 1, M + 1, at))
        BY <1>1, <3>1, <3>3, Cut
      <3> QED
        BY <3>4, <3>5 DEF u
    <2>3. ASSUME NEW e, NEW at, Lay(parts, s, P, K, 1, 1, e, at) PROVE e \in 2 .. K + 1
      BY <1>1, <2>3, LayCovers
    <2>4. \A e \in 2 .. K + 1 : e - 1 \in 1 .. K /\ (e - 1) + 1 = e
      OBVIOUS
    <2>5. Covers(parts, s) <=> \E M \in 1 .. K : \E at : Lay(parts, s, P, K, 1, 1, M + 1, at)
      BY <2>1, <2>3, <2>4
    <2>6. Covers(parts, s) <=> \E M \in 1 .. K : LaidOut(parts, SubSeq(path, a, a + M - 1))
      BY <2>2, <2>5
    <2>7. \A b \in a .. L : b - a + 1 \in 1 .. K /\ a + (b - a + 1) - 1 = b
      OBVIOUS
    <2>8. \A M \in 1 .. K : a + M - 1 \in a .. L
      OBVIOUS
    <2> QED
      BY <2>6, <2>7, <2>8 DEF s
  <1>3. Found(rule, path)
          <=> \E a \in 1 .. L : (Anchored(rule) => a = 1) /\ Covers(parts, SubSeq(path, a, L))
    BY DEF Found
  <1>4. \A a, b \in 1 .. L : b \in a .. L <=> a <= b
    OBVIOUS
  <1>5. \A a \in 1 .. L : a .. L \subseteq 1 .. L
    OBVIOUS
  <1> QED
    BY <1>2, <1>3, <1>4, <1>5

(* The last of some lines.                                                   *)
LEMMA LastOf ==
    ASSUME NEW n \in Nat, NEW T, T \subseteq 1 .. n, T # {}
    PROVE  Max(T) \in T /\ \A k \in T : k <= Max(T)
  <1> DEFINE rest == {n - k : k \in T}
  <1>0. \A k \in T : n - k \in Nat
    OBVIOUS
  <1>1. rest \subseteq Nat /\ rest # {}
    BY <1>0
  <1>2. PICK d \in rest : \A e \in rest : d <= e
    BY <1>1, Least
  <1>3. PICK x \in T : d = n - x
    BY <1>2
  <1>4. \A k \in T : x >= k
    <2> SUFFICES ASSUME NEW k \in T PROVE x >= k
      OBVIOUS
    <2>1. n - k \in rest
      OBVIOUS
    <2>2. n - x <= n - k
      BY <1>2, <1>3, <2>1
    <2> QED
      BY <2>2
  <1>5. Max(T) \in T /\ \A k \in T : Max(T) >= k
    BY <1>4 DEF Max
  <1> QED
    BY <1>5

(* The code ignores a path exactly if the file says so, as Listed reads it.  *)
LEMMA IgnoresListed ==
    ASSUME NEW S, NEW path \in Seq(S), path # <<>>, NEW lines, IsIgnoreFile(lines), NEW isDir
    PROVE  Ignores(lines, path, isDir) <=> Listed(lines, path, isDir)
  <1> DEFINE Heard(k) == (lines[k].dirOnly => isDir) /\ Found(lines[k], path)
             heard    == {k \in Rules(lines) : Heard(k)}
             Says(j)  == /\ lines[j].dirOnly => isDir
                         /\ \E a, b \in DOMAIN path : /\ a <= b
                                                      /\ Anchored(lines[j]) => a = 1
                                                      /\ LaidOut(lines[j].parts, SubSeq(path, a, b))
  <1>1. \A k \in Rules(lines) : Heard(k) <=> Says(k)
    <2> SUFFICES ASSUME NEW k \in Rules(lines)
                 PROVE  Found(lines[k], path) <=> \E a, b \in DOMAIN path :
                            /\ a <= b
                            /\ Anchored(lines[k]) => a = 1
                            /\ LaidOut(lines[k].parts, SubSeq(path, a, b))
      OBVIOUS
    <2>1. IsList(lines[k].parts) /\ Len(lines[k].parts) > 0
      BY DEF IsIgnoreFile
    <2> QED
      BY <2>1, FoundLaidOut
  <1>2. Ignores(lines, path, isDir) <=> heard # {} /\ ~lines[Max(heard)].negated
    BY DEF Ignores
  <1>3. Listed(lines, path, isDir) <=> \E k \in Rules(lines) : /\ Says(k) /\ ~lines[k].negated
                                                               /\ \A j \in Rules(lines) : j > k => ~Says(j)
    BY DEF Listed
  <1>0. Len(lines) \in Nat /\ DOMAIN lines = 1 .. Len(lines)
    BY DEF IsIgnoreFile, IsList
  <1> PICK n \in Nat : n = Len(lines)
    BY <1>0
  <1>4. DOMAIN lines = 1 .. n
    BY <1>0
  <1>5. Rules(lines) \subseteq 1 .. n
    BY <1>4 DEF Rules
  <1>6. \A k : k \in heard <=> k \in Rules(lines) /\ Says(k)
    BY <1>1
  <1> HIDE DEF heard, Heard, Says
  <1>7. heard # {} => Max(heard) \in heard /\ \A k \in heard : k <= Max(heard)
    BY <1>5, <1>6, LastOf
  <1>8. ASSUME Ignores(lines, path, isDir) PROVE Listed(lines, path, isDir)
    <2>1. Max(heard) \in heard /\ \A k \in heard : k <= Max(heard)
      BY <1>2, <1>7, <1>8
    <2> PICK m \in Rules(lines) : m = Max(heard) /\ Says(m) /\ ~lines[m].negated
      BY <1>2, <1>6, <1>8, <2>1
    <2>2. ASSUME NEW j \in Rules(lines), j > m PROVE ~Says(j)
      BY <1>5, <1>6, <2>1, <2>2
    <2> QED
      BY <1>3, <2>2
  <1>9. ASSUME Listed(lines, path, isDir) PROVE Ignores(lines, path, isDir)
    <2> PICK k \in Rules(lines) : /\ Says(k) /\ ~lines[k].negated
                                  /\ \A j \in Rules(lines) : j > k => ~Says(j)
      BY <1>3, <1>9
    <2>1. k \in heard
      BY <1>6
    <2> PICK m \in Rules(lines) : m = Max(heard) /\ Says(m) /\ k <= m
      BY <1>6, <1>7, <2>1
    <2>2. k = m
      BY <1>5
    <2> QED
      BY <1>2, <2>1, <2>2
  <1> QED
    BY <1>8, <1>9

-----------------------------------------------------------------------------
(* What a scan yields, and what the options promise to leave.                *)

(* What is above an entry is nearer to the root.                             *)
LEMMA UpLevel ==
    ASSUME NEW n \in Nodes, NEW t \in Up[n], t # n
    PROVE  Level[t] < Level[n]
  <1> DEFINE S == {m \in Nodes : \A u \in Up[m] : u \in Nodes /\ (u = m \/ Level[u] < Level[m])}
  <1>0. Top \in Nodes
    BY WorldAssumption DEF Dirs
  <1>1. Top \in S
    <2>1. Up[Top] = {Top}
      BY <1>0, UpSteps
    <2> QED
      BY <1>0, <2>1
  <1>2. ASSUME NEW m \in Nodes \ {Top}, Parent[m] \in S PROVE m \in S
    <2>1. PICK p \in Nodes : p = Parent[m] /\ Up[m] = {m} \cup Up[p]
      BY WorldAssumption, UpSteps DEF Dirs
    <2>2. PICK k \in Nat : k = Level[p] /\ Level[m] = k + 1
      BY <2>1, WorldAssumption
    <2>3. ASSUME NEW u \in Up[p] PROVE u \in Nodes /\ Level[u] < Level[m]
      <3>1. u \in Nodes /\ (u = p \/ Level[u] < Level[p])
        BY <1>2, <2>1
      <3> PICK l \in Nat : l = Level[u]
        BY <3>1, WorldAssumption
      <3> QED
        BY <2>2, <3>1
    <2> QED
      BY <2>1, <2>3
  <1> HIDE DEF S
  <1>3. Nodes \subseteq S
    BY <1>1, <1>2, Downwards
  <1> QED
    BY <1>3 DEF S

(* A route has an entry for every level.                                     *)
LEMMA RouteLength == \A n \in Nodes : Len(Route[n]) = Level[n] + 1
  <1> DEFINE S == {n \in Nodes : Len(Route[n]) = Level[n] + 1}
  <1>0. Top \in Nodes /\ Level[Top] = 0
    BY WorldAssumption DEF Dirs
  <1>1. Top \in S
    <2>1. Route[Top] = <<Top>>
      BY <1>0, RouteSteps
    <2>2. Len(Route[Top]) = 1
      BY <2>1
    <2>3. Len(Route[Top]) = Level[Top] + 1
      BY <1>0, <2>2
    <2> QED
      BY <1>0, <2>3
  <1>2. ASSUME NEW n \in Nodes \ {Top}, Parent[n] \in S PROVE n \in S
    <2>1. PICK p \in Nodes : p = Parent[n]
      BY WorldAssumption DEF Dirs
    <2>2. Route[n] = Append(Route[p], n) /\ Route[p] \in Seq(Nodes) /\ Level[n] = Level[p] + 1
      BY <2>1, RouteSteps, RouteType, WorldAssumption
    <2>3. Len(Route[n]) = Len(Route[p]) + 1
      BY <2>2
    <2>4. Len(Route[p]) = Level[p] + 1
      BY <1>2, <2>1
    <2> QED
      BY <2>2, <2>3, <2>4
  <1> HIDE DEF S
  <1>3. Nodes \subseteq S
    BY <1>1, <1>2, Downwards
  <1> QED
    BY <1>3 DEF S

(* The rest of a sequence from some place on.                                *)
LEMMA Rest ==
    ASSUME NEW S, NEW L \in Nat, NEW s \in Seq(S), Len(s) = L, NEW a \in 1 .. L + 1
    PROVE  SubSeq(s, a, L) \in Seq(S) /\ Len(SubSeq(s, a, L)) = L - a + 1
  OBVIOUS

(* The relative path has a name for each level between.                      *)
LEMMA RelLength ==
    ASSUME NEW t \in Nodes, NEW n \in Within(t)
    PROVE  /\ Rel(t, n) \in Seq({Entry[m].name : m \in Nodes})
           /\ Len(Rel(t, n)) \in Nat /\ Len(Rel(t, n)) = Level[n] - Level[t]
           /\ Rel(t, n) = <<>> <=> n = t
  <1> DEFINE Names == {Entry[m].name : m \in Nodes}
             names == [i \in DOMAIN Route[n] |-> Entry[Route[n][i]].name]
  <1>1. n \in Nodes /\ t \in Up[n]
    BY DEF Within
  <1> PICK k \in Nat, l \in Nat : k = Level[t] /\ l = Level[n]
    BY <1>1, WorldAssumption
  <1>2. Route[n] \in Seq(Nodes) /\ Len(Route[n]) = l + 1 /\ Len(Route[t]) = k + 1
    BY <1>1, RouteType, RouteLength
  <1>3. DOMAIN Route[n] = 1 .. l + 1 /\ \A i \in 1 .. l + 1 : Route[n][i] \in Nodes
    BY <1>2
  <1>4. names \in [1 .. l + 1 -> Names]
    BY <1>3
  <1> HIDE DEF names, Names
  <1>5. names \in Seq(Names) /\ Len(names) = l + 1
    BY <1>4
  <1>6. Rel(t, n) = SubSeq(names, k + 2, l + 1)
    <2>1. Rel(t, n) = SubSeq(names, Len(Route[t]) + 1, Len(names))
      BY DEF Rel, names
    <2>2. Len(Route[t]) + 1 = k + 2
      BY <1>2
    <2> QED
      BY <1>5, <2>1, <2>2
  <1>7. n # t => k < l
    BY <1>1, UpLevel
  <1>8. n = t => k = l
    OBVIOUS
  <1>9. SubSeq(names, k + 2, l + 1) \in Seq(Names) /\ Len(SubSeq(names, k + 2, l + 1)) = l - k
    <2> PICK m \in Nat : m = l + 1
      OBVIOUS
    <2> PICK a \in 1 .. m + 1 : a = k + 2 /\ m - a + 1 = l - k
      BY <1>7, <1>8
    <2>1. Len(names) = m
      BY <1>5
    <2>2. SubSeq(names, a, m) \in Seq(Names) /\ Len(SubSeq(names, a, m)) = m - a + 1
      BY <1>5, <2>1, Rest
    <2> QED
      BY <2>2
  <1> PICK rel \in Seq(Names) : rel = Rel(t, n) /\ Len(rel) = l - k
    BY <1>6, <1>9
  <1>10. rel = <<>> <=> Len(rel) = 0
    OBVIOUS
  <1> QED
    BY <1>7, <1>8, <1>10 DEF Names

(* Between t and a file in it is what is between t and the file's directory. *)
LEMMA BetweenFile ==
    ASSUME NEW t, NEW n \in Nodes \ Dirs, NEW a \in Between(t, n)
    PROVE  a = n \/ a \in Between(t, Parent[n])
  <1>1. n \in Nodes /\ n # Top
    BY WorldAssumption
  <1>2. Up[n] = {n} \cup Up[Parent[n]]
    BY <1>1, UpSteps
  <1> QED
    BY <1>2 DEF Between

(* Every directory on the way to what the scan yields is not excluded.       *)
LEMMA WayOpen ==
    ASSUME NEW t, NEW f, NEW dev, NEW n \in Items(t, f, dev) \ Unreadable, NEW a \in Between(t, n) \cup {n}
    PROVE  ~Excluded(f, Entry[a], Rel(t, a))
  <1>1. ASSUME NEW d \in Opened(t, f, dev), NEW x \in Between(t, d)
        PROVE  ~Excluded(f, Entry[x], Rel(t, x))
    BY <1>1 DEF Opened, ShouldTraverse
  <1>2. CASE n \in FileItems(t, f, dev)
    <2>1. /\ n \in Nodes \ Dirs /\ Parent[n] \in Opened(t, f, dev)
          /\ ~Excluded(f, Entry[n], Rel(t, n))
      BY <1>2 DEF FileItems, Below, Within, MatchesFile
    <2> QED
      BY <1>1, <2>1, BetweenFile
  <1>3. CASE n \in DirItems(t, f, dev)
    <2>1. n \in Opened(t, f, dev) /\ ~Excluded(f, Entry[n], Rel(t, n))
      BY <1>3 DEF DirItems, MatchesDirRemoval
    <2> QED
      BY <1>1, <2>1
  <1> QED
    BY <1>2, <1>3 DEF Items, ScanErrors

(* A limit that is respected.                                                *)
LEMMA Limited ==
    ASSUME NEW x \in Int, NEW limit \in Int \cup {None}
    PROVE  /\ AtLeast(x, limit) => ~(limit # None /\ x < limit)
           /\ AtMost(x, limit) => ~(limit # None /\ x > limit)
  BY DEF AtLeast, AtMost

(* The options that are limits.                                              *)
LEMMA LimitTypes ==
    ASSUME NEW f, IsFilter(f)
    PROVE  /\ f.minSize \in Int \cup {None} /\ f.maxSize \in Int \cup {None}
           /\ f.minDepth \in Int \cup {None} /\ f.maxDepth \in Int \cup {None}
           /\ \A c \in Clocks : f.older[c] \in Int \cup {None} /\ f.newer[c] \in Int \cup {None}
  BY DEF IsFilter, Limits

(* A sequence of members of a set is one of members of a larger set.         *)
LEMMA Wider ==
    ASSUME NEW S, NEW T, S \subseteq T, NEW s \in Seq(S)
    PROVE  s \in Seq(T)
  OBVIOUS

(* The path that the matcher of an ignore file is asked about.               *)
LEMMA AskedPath ==
    ASSUME NEW t \in Nodes, NEW n \in Within(t)
    PROVE  LET path == IF n = t THEN <<"">> ELSE Rel(t, n)
           IN  /\ path = IF Rel(t, n) = <<>> THEN <<"">> ELSE Rel(t, n)
               /\ path # <<>>
               /\ path \in Seq({Entry[m].name : m \in Nodes} \cup {""})
  <1> DEFINE Names == {Entry[m].name : m \in Nodes}
  <1>1. Rel(t, n) \in Seq(Names) /\ (Rel(t, n) = <<>> <=> n = t)
    BY RelLength
  <1> HIDE DEF Names
  <1>2. <<"">> \in Seq({""}) /\ <<"">> # <<>>
    OBVIOUS
  <1>3. <<"">> \in Seq(Names \cup {""}) /\ Rel(t, n) \in Seq(Names \cup {""})
    BY <1>1, <1>2, Wider
  <1> QED
    BY <1>1, <1>2, <1>3 DEF Names

(* The matcher ignores a path exactly if the file lists it.                  *)
LEMMA IgnoreSelects ==
    ASSUME NEW t \in Nodes, NEW n \in Within(t), NEW f, IsFilter(f), NEW isDir
    PROVE  IgnoreWanted(f, Rel(t, n), isDir)
               <=> (f.ignore # None => Listed(f.ignore, IF n = t THEN <<"">> ELSE Rel(t, n), isDir))
  <1> PICK path : path = IF n = t THEN <<"">> ELSE Rel(t, n)
    OBVIOUS
  <1>1. /\ path = IF Rel(t, n) = <<>> THEN <<"">> ELSE Rel(t, n)
        /\ path # <<>> /\ path \in Seq({Entry[m].name : m \in Nodes} \cup {""})
    BY AskedPath
  <1>2. IgnoreWanted(f, Rel(t, n), isDir) <=> (f.ignore # None => Ignores(f.ignore, path, isDir))
    BY <1>1 DEF IgnoreWanted
  <1>3. f.ignore # None => (Ignores(f.ignore, path, isDir) <=> Listed(f.ignore, path, isDir))
    BY <1>1, IgnoresListed DEF IsFilter
  <1> QED
    BY <1>2, <1>3

(* What --type and --empty-files-only make the code pass over; with what the *)
(* other options spare, all that it passes over.                             *)
OtherType(f, t) == {n \in Within(t) : f.types # None
                       /\ (IF n \in Dirs THEN "d" ELSE TypeOf(Entry[n])) \notin f.types}
FullFile(f, t)  == {n \in Within(t) \ Dirs : Entry[n].kind = "file" /\ f.emptyFilesOnly
                                              /\ Entry[n].size > 0}
PassedOver(f, t) == SparedBy(f, t) \cup OtherType(f, t) \cup FullFile(f, t)

(* It is what the options spare by their documentation, with the exceptions. *)
LEMMA SamePassedOver ==
    ASSUME NEW f, NEW t
    PROVE  PassedOver(f, t) = Skipped(f, t)
  <1>1. OtherType(f, t) = (OfOtherType(f, t) \ AsSocket(f, t)) \cup NoSocket(f, t)
    <2>1. ASSUME NEW n \in Within(t)
          PROVE  n \in OtherType(f, t)
                     <=> n \in (OfOtherType(f, t) \ AsSocket(f, t)) \cup NoSocket(f, t)
      <3>1. n \in Nodes
        BY DEF Within
      <3>2. CASE n \in Dirs
        BY <3>2 DEF Dirs, OtherType, OfOtherType, AsSocket, NoSocket, Special, Letter
      <3>3. CASE n \notin Dirs
        <4>1. Entry[n].kind # "dir"
          BY <3>1, <3>3 DEF Dirs
        <4> QED
          BY <3>3, <4>1 DEF OtherType, OfOtherType, AsSocket, NoSocket, Special, Letter, TypeOf
      <3> QED
        BY <3>2, <3>3
    <2> QED
      BY <2>1 DEF OtherType, OfOtherType, NoSocket
  <1>2. FullFile(f, t) = NotEmptyFile(f, t) \ NoRegularFile(t)
    BY DEF FullFile, NotEmptyFile, NoRegularFile, Dirs, Within
  <1> QED
    BY <1>1, <1>2 DEF PassedOver, Skipped

(* No file that the scan yields is one the code passes over: ...             *)
LEMMA FileSelected ==
    ASSUME NEW t \in Nodes, NEW f, IsFilter(f), NEW dev, NEW n \in FileItems(t, f, dev)
    PROVE  n \notin PassedOver(f, t)
  <1>1. n \in Nodes \ Dirs /\ n \in Within(t) /\ MatchesFile(f, Entry[n], Rel(t, n))
    BY DEF FileItems, Below, Within
  <1>2. /\ ~f.dirsOnly /\ ~f.emptyDirsOnly /\ DepthWanted(f, Rel(t, n))
        /\ IgnoreWanted(f, Rel(t, n), FALSE) /\ Included(f, Entry[n], Rel(t, n))
        /\ f.types # None => TypeOf(Entry[n]) \in f.types
        /\ NeedsStat(f) => Measured(f, Entry[n])
    BY <1>1 DEF MatchesFile
  <1>3. \A a \in Between(t, n) \cup {n} : ~Excluded(f, Entry[a], Rel(t, a))
    <2>1. n \in Items(t, f, dev) \ Unreadable
      BY <1>1, WorldAssumption DEF Items
    <2> QED
      BY <2>1, WayOpen
  <1>4. /\ ~(f.maxDepth # None /\ Len(Rel(t, n)) > f.maxDepth)
        /\ ~(f.minDepth # None /\ Len(Rel(t, n)) < f.minDepth)
    <2> PICK l \in Nat : l = Len(Rel(t, n))
      BY <1>1, RelLength
    <2>1. AtLeast(l, f.minDepth) /\ AtMost(l, f.maxDepth)
      BY <1>2 DEF DepthWanted
    <2>2. f.minDepth \in Int \cup {None} /\ f.maxDepth \in Int \cup {None} /\ l \in Int
      BY LimitTypes
    <2>3. ~(f.maxDepth # None /\ l > f.maxDepth) /\ ~(f.minDepth # None /\ l < f.minDepth)
      BY <2>1, <2>2, Limited
    <2> QED
      BY <2>3
  <1>5. NeedsStat(f) => Entry[n].measured
    BY <1>2 DEF Measured
  <1>6. ASSUME Entry[n].kind = "file"
        PROVE  /\ ~(f.emptyFilesOnly /\ Entry[n].size > 0)
               /\ ~(f.minSize # None /\ Entry[n].size < f.minSize)
               /\ ~(f.maxSize # None /\ Entry[n].size > f.maxSize)
    <2> PICK s \in Nat : s = Entry[n].size
      BY <1>1, WorldAssumption
    <2>1. NeedsStat(f) => /\ f.emptyFilesOnly => s = 0
                          /\ AtLeast(s, f.minSize) /\ AtMost(s, f.maxSize)
      BY <1>2, <1>6 DEF Measured
    <2>2. f.emptyFilesOnly \/ f.minSize # None \/ f.maxSize # None => NeedsStat(f)
      BY DEF NeedsStat
    <2>3. f.minSize \in Int \cup {None} /\ f.maxSize \in Int \cup {None} /\ s \in Int
      BY LimitTypes
    <2>4. /\ AtLeast(s, f.minSize) => ~(f.minSize # None /\ s < f.minSize)
          /\ AtMost(s, f.maxSize) => ~(f.maxSize # None /\ s > f.maxSize)
      BY <2>3, Limited
    <2>5. ~(f.emptyFilesOnly /\ s > 0)
      BY <2>1, <2>2
    <2>6. ~(f.minSize # None /\ s < f.minSize) /\ ~(f.maxSize # None /\ s > f.maxSize)
      BY <2>1, <2>2, <2>4
    <2> QED
      BY <2>5, <2>6
  <1>7. ASSUME NEW c \in Clocks
        PROVE  /\ ~(f.older[c] # None /\ Entry[n].age[c] < f.older[c])
               /\ ~(f.newer[c] # None /\ Entry[n].age[c] > f.newer[c])
    <2> PICK a \in Int : a = Entry[n].age[c]
      BY <1>1, WorldAssumption
    <2>1. NeedsStat(f) => AtLeast(a, f.older[c]) /\ AtMost(a, f.newer[c])
      BY <1>2 DEF Measured
    <2>2. f.older[c] # None \/ f.newer[c] # None => NeedsStat(f)
      BY DEF NeedsStat
    <2>3. f.older[c] \in Int \cup {None} /\ f.newer[c] \in Int \cup {None}
      BY LimitTypes
    <2>4. /\ AtLeast(a, f.older[c]) => ~(f.older[c] # None /\ a < f.older[c])
          /\ AtMost(a, f.newer[c]) => ~(f.newer[c] # None /\ a > f.newer[c])
      BY <2>3, Limited
    <2>5. ~(f.older[c] # None /\ a < f.older[c]) /\ ~(f.newer[c] # None /\ a > f.newer[c])
      BY <2>1, <2>2, <2>4
    <2> QED
      BY <2>5
  <1>8. f.ignore # None => Listed(f.ignore, IF n = t THEN <<"">> ELSE Rel(t, n), n \in Dirs)
    <2>1. (n \in Dirs) = FALSE
      BY <1>1
    <2>2. f.ignore # None => Listed(f.ignore, IF n = t THEN <<"">> ELSE Rel(t, n), FALSE)
      BY <1>1, <1>2, IgnoreSelects
    <2> QED
      BY <2>1, <2>2
  <1> QED
    BY <1>1, <1>2, <1>3, <1>4, <1>5, <1>6, <1>7, <1>8 DEF PassedOver, SparedBy, OtherType, FullFile

(* ... and neither is a directory.                                           *)
LEMMA DirectorySelected ==
    ASSUME NEW t \in Nodes, NEW f, IsFilter(f), NEW dev, NEW n \in DirItems(t, f, dev)
    PROVE  n \notin PassedOver(f, t)
  <1>1. n \in Dirs /\ n \in Within(t) /\ MatchesDirRemoval(f, Entry[n], Rel(t, n))
    BY DEF DirItems, Opened
  <1>2. /\ ~f.filesOnly /\ (f.types # None => "d" \in f.types) /\ DepthWanted(f, Rel(t, n))
        /\ IgnoreWanted(f, Rel(t, n), TRUE)
    BY <1>1 DEF MatchesDirRemoval
  <1>3. \A a \in Between(t, n) \cup {n} : ~Excluded(f, Entry[a], Rel(t, a))
    <2>1. n \in Items(t, f, dev) \ Unreadable
      BY DEF Items, DirItems
    <2> QED
      BY <2>1, WayOpen
  <1>4. /\ ~(f.maxDepth # None /\ Len(Rel(t, n)) > f.maxDepth)
        /\ ~(f.minDepth # None /\ Len(Rel(t, n)) < f.minDepth)
    <2> PICK l \in Nat : l = Len(Rel(t, n))
      BY <1>1, RelLength
    <2>1. AtLeast(l, f.minDepth) /\ AtMost(l, f.maxDepth)
      BY <1>2 DEF DepthWanted
    <2>2. f.minDepth \in Int \cup {None} /\ f.maxDepth \in Int \cup {None} /\ l \in Int
      BY LimitTypes
    <2>3. ~(f.maxDepth # None /\ l > f.maxDepth) /\ ~(f.minDepth # None /\ l < f.minDepth)
      BY <2>1, <2>2, Limited
    <2> QED
      BY <2>3
  <1>5. f.ignore # None => Listed(f.ignore, IF n = t THEN <<"">> ELSE Rel(t, n), n \in Dirs)
    <2>1. (n \in Dirs) = TRUE
      BY <1>1
    <2>2. f.ignore # None => Listed(f.ignore, IF n = t THEN <<"">> ELSE Rel(t, n), TRUE)
      BY <1>1, <1>2, IgnoreSelects
    <2> QED
      BY <2>1, <2>2
  <1> QED
    BY <1>1, <1>2, <1>3, <1>4, <1>5 DEF PassedOver, SparedBy, OtherType, FullFile

(* What the scan yields and can be read, the options do not spare.           *)
LEMMA ItemsSelected ==
    ASSUME NEW t \in Nodes, NEW f, IsFilter(f), NEW dev
    PROVE  (Items(t, f, dev) \ Unreadable) \cap PassedOver(f, t) = {}
  BY FileSelected, DirectorySelected DEF Items, ScanErrors


(* What is above an entry is a directory, unless it is the entry itself, and *)
(* what is above that is above the entry.                                    *)
LEMMA UpClosed ==
    ASSUME NEW n \in Nodes, NEW d \in Up[n]
    PROVE  d \in Nodes /\ (d # n => d \in Dirs) /\ Up[d] \subseteq Up[n]
  <1> DEFINE S == {m \in Nodes : \A u \in Up[m] : u \in Nodes /\ (u # m => u \in Dirs) /\ Up[u] \subseteq Up[m]}
  <1>0. Top \in Nodes
    BY WorldAssumption DEF Dirs
  <1>1. Top \in S
    <2>1. Up[Top] = {Top}
      BY <1>0, UpSteps
    <2> QED
      BY <1>0, <2>1
  <1>2. ASSUME NEW m \in Nodes \ {Top}, Parent[m] \in S PROVE m \in S
    <2>1. PICK p \in Dirs : p = Parent[m] /\ p \in Nodes /\ Up[m] = {m} \cup Up[p]
      BY WorldAssumption, UpSteps DEF Dirs
    <2>2. ASSUME NEW u \in Up[m] PROVE u \in Nodes /\ (u # m => u \in Dirs) /\ Up[u] \subseteq Up[m]
      <3>1. CASE u = m
        BY <3>1
      <3>2. CASE u # m
        <4>1. u \in Up[p]
          BY <2>1, <3>2
        <4>2. u \in Nodes /\ (u # p => u \in Dirs) /\ Up[u] \subseteq Up[p]
          BY <1>2, <2>1, <4>1
        <4> QED
          BY <2>1, <4>2
      <3> QED
        BY <3>1, <3>2
    <2> QED
      BY <2>2
  <1> HIDE DEF S
  <1>3. Nodes \subseteq S
    BY <1>1, <1>2, Downwards
  <1> QED
    BY <1>3 DEF S

(* A relative path grows with the level.                                     *)
LEMMA RelDepth ==
    ASSUME NEW t \in Nodes, NEW n \in Within(t), NEW a \in Between(t, n) \cup {n}
    PROVE  a \in Within(t) /\ Len(Rel(t, a)) \in Nat /\ Len(Rel(t, n)) \in Nat
           /\ Len(Rel(t, a)) <= Len(Rel(t, n))
  <1>1. n \in Nodes /\ a \in Up[n] /\ a \in Within(t) /\ a \in Nodes
    BY UpSteps DEF Within, Between, Below
  <1>2. Len(Rel(t, a)) = Level[a] - Level[t] /\ Len(Rel(t, n)) = Level[n] - Level[t]
    BY <1>1, RelLength
  <1> PICK i \in Nat, j \in Nat, k \in Nat : i = Level[t] /\ j = Level[a] /\ k = Level[n]
    BY <1>1, WorldAssumption
  <1>3. j <= k
    BY <1>1, UpLevel
  <1> QED
    BY <1>1, <1>2, <1>3, RelLength

(* Nothing is between an entry and itself.                                   *)
LEMMA NoWay ==
    ASSUME NEW t \in Nodes
    PROVE  Between(t, t) = {}
  <1> SUFFICES ASSUME NEW a \in Between(t, t) PROVE FALSE
    OBVIOUS
  <1>1. a \in Up[t] /\ a \in Nodes /\ t \in Up[a] /\ a # t
    BY DEF Between, Below, Within
  <1> PICK i \in Nat, j \in Nat : i = Level[a] /\ j = Level[t]
    BY <1>1, WorldAssumption
  <1>2. i < j /\ j < i
    BY <1>1, UpLevel
  <1> QED
    BY <1>2

(* The scan looks into every directory on the way to what nothing spares.    *)
LEMMA WayTraversed ==
    ASSUME NEW t \in Dirs, NEW f, IsFilter(f), NEW dev, f.oneFileSystem => dev = Entry[t].dev,
           NEW n \in Within(t) \ PassedOver(f, t), f.oneFileSystem => n \notin Foreign(t),
           NEW a \in Between(t, n) \cap Dirs
    PROVE  ShouldTraverse(f, dev, Entry[a], Rel(t, a))
  <1>1. t \in Nodes /\ n \in Within(t)
    BY DEF Dirs
  <1>2. ~Excluded(f, Entry[a], Rel(t, a)) /\ ~(f.maxDepth # None /\ Len(Rel(t, n)) > f.maxDepth)
    BY <1>1 DEF PassedOver, SparedBy, OtherType, FullFile
  <1>3. AtMost(Len(Rel(t, a)), f.maxDepth)
    <2>1. Len(Rel(t, a)) \in Nat /\ Len(Rel(t, n)) \in Nat /\ Len(Rel(t, a)) <= Len(Rel(t, n))
      BY <1>1, RelDepth
    <2> PICK i \in Nat, j \in Nat : i = Len(Rel(t, a)) /\ j = Len(Rel(t, n)) /\ i <= j
      BY <2>1
    <2>2. CASE f.maxDepth = None
      BY <2>2 DEF AtMost
    <2>3. CASE f.maxDepth # None
      <3> PICK k \in Int : k = f.maxDepth
        BY <2>3, LimitTypes
      <3>1. ~(j > k)
        BY <1>2, <2>3
      <3>2. i <= k
        BY <3>1
      <3> QED
        BY <3>2 DEF AtMost
    <2> QED
      BY <2>2, <2>3
  <1>4. f.oneFileSystem /\ Entry[a].measured => Entry[a].dev = dev
    <2>1. f.oneFileSystem /\ Entry[a].measured /\ Entry[a].dev # Entry[t].dev => n \in Foreign(t)
      <3>1. n \in Below(t)
        BY <1>1, NoWay DEF Below
      <3> QED
        BY <3>1 DEF Foreign
    <2> QED
      BY <2>1
  <1> QED
    BY <1>2, <1>3, <1>4 DEF ShouldTraverse


(* A limit that is kept is one that is not broken.                           *)
LEMMA Unlimited ==
    ASSUME NEW x \in Int, NEW limit \in Int \cup {None}
    PROVE  /\ ~(limit # None /\ x < limit) => AtLeast(x, limit)
           /\ ~(limit # None /\ x > limit) => AtMost(x, limit)
  BY DEF AtLeast, AtMost

(* What no option spares has a wanted depth.                                 *)
LEMMA DepthKept ==
    ASSUME NEW t \in Nodes, NEW f, IsFilter(f), NEW n \in Within(t) \ PassedOver(f, t)
    PROVE  DepthWanted(f, Rel(t, n))
  <1> PICK l \in Nat : l = Len(Rel(t, n))
    BY RelLength
  <1>1. ~(f.maxDepth # None /\ l > f.maxDepth) /\ ~(f.minDepth # None /\ l < f.minDepth)
    BY DEF PassedOver, SparedBy, OtherType, FullFile
  <1>2. f.minDepth \in Int \cup {None} /\ f.maxDepth \in Int \cup {None} /\ l \in Int
    BY LimitTypes
  <1> QED
    BY <1>1, <1>2, Unlimited DEF DepthWanted

(* A file that no option spares matches, ...                                 *)
LEMMA FileMatches ==
    ASSUME NEW t \in Nodes, NEW f, IsFilter(f), NEW n \in (Within(t) \ Dirs) \ PassedOver(f, t)
    PROVE  MatchesFile(f, Entry[n], Rel(t, n))
  <1>0. n \in Nodes
    BY DEF Within
  <1>1. /\ ~f.dirsOnly /\ ~f.emptyDirsOnly /\ Included(f, Entry[n], Rel(t, n))
        /\ ~Excluded(f, Entry[n], Rel(t, n))
        /\ f.types # None => TypeOf(Entry[n]) \in f.types
        /\ NeedsStat(f) => Entry[n].measured
    BY DEF PassedOver, SparedBy, OtherType, FullFile
  <1>2. DepthWanted(f, Rel(t, n))
    BY DepthKept
  <1>3. IgnoreWanted(f, Rel(t, n), FALSE)
    <2>1. f.ignore # None => Listed(f.ignore, IF n = t THEN <<"">> ELSE Rel(t, n), n \in Dirs)
      BY DEF PassedOver, SparedBy, OtherType, FullFile
    <2>2. (n \in Dirs) = FALSE
      OBVIOUS
    <2>3. f.ignore # None => Listed(f.ignore, IF n = t THEN <<"">> ELSE Rel(t, n), FALSE)
      BY <2>1, <2>2
    <2> QED
      BY <2>3, IgnoreSelects
  <1>4. ASSUME NeedsStat(f) PROVE Measured(f, Entry[n])
    <2>1. ASSUME Entry[n].kind = "file"
          PROVE  /\ f.emptyFilesOnly => Entry[n].size = 0
                 /\ AtLeast(Entry[n].size, f.minSize) /\ AtMost(Entry[n].size, f.maxSize)
      <3> PICK s \in Nat : s = Entry[n].size
        BY <1>0, WorldAssumption
      <3>1. /\ ~(f.emptyFilesOnly /\ s > 0)
            /\ ~(f.minSize # None /\ s < f.minSize) /\ ~(f.maxSize # None /\ s > f.maxSize)
        BY <2>1 DEF PassedOver, SparedBy, OtherType, FullFile
      <3>2. f.minSize \in Int \cup {None} /\ f.maxSize \in Int \cup {None} /\ s \in Int
        BY LimitTypes
      <3>3. AtLeast(s, f.minSize) /\ AtMost(s, f.maxSize)
        BY <3>1, <3>2, Unlimited
      <3>4. s > 0 \/ s = 0
        OBVIOUS
      <3> QED
        BY <3>1, <3>3, <3>4
    <2>2. ASSUME NEW c \in Clocks
          PROVE  AtLeast(Entry[n].age[c], f.older[c]) /\ AtMost(Entry[n].age[c], f.newer[c])
      <3> PICK a \in Int : a = Entry[n].age[c]
        BY <1>0, WorldAssumption
      <3>1. ~(f.older[c] # None /\ a < f.older[c]) /\ ~(f.newer[c] # None /\ a > f.newer[c])
        BY DEF PassedOver, SparedBy, OtherType, FullFile
      <3>2. f.older[c] \in Int \cup {None} /\ f.newer[c] \in Int \cup {None}
        BY LimitTypes
      <3> QED
        BY <3>1, <3>2, Unlimited
    <2> QED
      BY <1>1, <1>4, <2>1, <2>2 DEF Measured
  <1> QED
    BY <1>1, <1>2, <1>3, <1>4 DEF MatchesFile

(* ... and so does a directory.                                              *)
LEMMA DirectoryMatches ==
    ASSUME NEW t \in Nodes, NEW f, IsFilter(f), NEW n \in (Within(t) \cap Dirs) \ PassedOver(f, t)
    PROVE  MatchesDirRemoval(f, Entry[n], Rel(t, n))
  <1>1. /\ ~f.filesOnly /\ (f.types # None => "d" \in f.types)
        /\ ~Excluded(f, Entry[n], Rel(t, n))
    BY DEF PassedOver, SparedBy, OtherType, FullFile
  <1>2. DepthWanted(f, Rel(t, n))
    BY DepthKept
  <1>3. IgnoreWanted(f, Rel(t, n), TRUE)
    <2>1. f.ignore # None => Listed(f.ignore, IF n = t THEN <<"">> ELSE Rel(t, n), n \in Dirs)
      BY DEF PassedOver, SparedBy, OtherType, FullFile
    <2>2. (n \in Dirs) = TRUE
      OBVIOUS
    <2>3. f.ignore # None => Listed(f.ignore, IF n = t THEN <<"">> ELSE Rel(t, n), TRUE)
      BY <2>1, <2>2
    <2> QED
      BY <2>3, IgnoreSelects
  <1> QED
    BY <1>1, <1>2, <1>3 DEF MatchesDirRemoval


(* Of some entries one is the nearest to the root.                           *)
LEMMA Nearest ==
    ASSUME NEW S, S \subseteq Nodes, S # {}
    PROVE  \E d \in S : \A e \in S : Level[d] <= Level[e]
  <1> DEFINE levels == {Level[n] : n \in S}
  <1>1. levels \subseteq Nat /\ levels # {}
    BY WorldAssumption
  <1>2. PICK x \in levels : \A y \in levels : x <= y
    BY <1>1, Least
  <1>3. PICK d \in S : x = Level[d]
    BY <1>2
  <1> QED
    BY <1>2, <1>3

(* What nothing spares is yielded, or lies in a directory that cannot be     *)
(* read, and then the error is.                                              *)
LEMMA ScanComplete ==
    ASSUME NEW t \in Dirs, NEW f, IsFilter(f), NEW dev, f.oneFileSystem => dev = Entry[t].dev,
           NEW n \in Within(t) \ PassedOver(f, t), f.oneFileSystem => n \notin Foreign(t)
    PROVE  n \in Items(t, f, dev) \/ \E d \in Items(t, f, dev) \cap Unreadable : d \in Up[n]
  <1>1. t \in Nodes /\ n \in Nodes /\ n \in Within(t) /\ t \in Up[n] /\ n \in Up[n]
    BY UpSteps DEF Dirs, Within
  <1>2. \A a \in Between(t, n) \cap Dirs : ShouldTraverse(f, dev, Entry[a], Rel(t, a))
    BY WayTraversed
  <1> PICK D \in Dirs : /\ n \in Dirs => D = n
                        /\ n \notin Dirs => n # Top /\ n # t /\ D = Parent[n]
    <2>1. n \notin Dirs => n # Top /\ Parent[n] \in Dirs /\ n # t
      BY <1>1, WorldAssumption
    <2> QED
      BY <2>1
  <1>3. D \in Nodes /\ D \in Up[n] /\ t \in Up[D] /\ D \in Within(t)
    <2>1. CASE n \in Dirs
      BY <1>1, <2>1
    <2>2. CASE n \notin Dirs
      <3>1. Up[n] = {n} \cup Up[D] /\ D \in Nodes
        BY <1>1, <2>2, UpSteps DEF Dirs
      <3>2. D \in Up[D]
        BY <3>1, UpSteps
      <3> QED
        BY <1>1, <2>2, <3>1, <3>2 DEF Within
    <2> QED
      BY <2>1, <2>2
  <1>4. ASSUME NEW d \in Up[D], t \in Up[d]
        PROVE  /\ d \in Dirs \cap Within(t) /\ d \in Up[n]
               /\ \A a \in Between(t, d) : ShouldTraverse(f, dev, Entry[a], Rel(t, a))
    <2>1. d \in Nodes /\ d \in Dirs /\ Up[d] \subseteq Up[D]
      BY <1>3, UpClosed
    <2>2. Up[D] \subseteq Up[n]
      BY <1>1, <1>3, UpClosed
    <2>3. \A a \in Up[d] : a \in Dirs
      BY <2>1, UpClosed
    <2> QED
      BY <1>2, <1>4, <2>1, <2>2, <2>3 DEF Between, Within
  <1> DEFINE blocked == Up[D] \cap Within(t) \cap Unreadable
  <1>5. CASE blocked = {}
    <2>1. D \in Up[D]
      BY <1>3, UpSteps
    <2>2. D \in Opened(t, f, dev) \ Unreadable
      BY <1>3, <1>4, <1>5, <2>1 DEF Opened
    <2>3. CASE n \in Dirs
      <3>1. n \in DirItems(t, f, dev)
        BY <1>1, <2>2, <2>3, DirectoryMatches DEF DirItems
      <3> QED
        BY <3>1 DEF Items
    <2>4. CASE n \notin Dirs
      <3>1. n \in FileItems(t, f, dev)
        BY <1>1, <2>2, <2>4, FileMatches DEF FileItems, Below
      <3> QED
        BY <3>1 DEF Items
    <2> QED
      BY <2>3, <2>4
  <1>6. CASE blocked # {}
    <2>1. blocked \subseteq Nodes
      BY WorldAssumption DEF Dirs
    <2> PICK d \in blocked : \A e \in blocked : Level[d] <= Level[e]
      BY <1>6, <2>1, Nearest
    <2>2. d \in Nodes /\ d \in Up[D] /\ t \in Up[d] /\ d \in Unreadable
      BY <2>1 DEF Within
    <2>3. Up[d] \subseteq Up[D]
      BY <1>3, UpClosed
    <2>4. ASSUME NEW e \in (Up[d] \ {d}) \cap Within(t) \cap Unreadable PROVE FALSE
      <3>1. e \in Nodes /\ e \in blocked /\ Level[e] < Level[d]
        BY <2>1, <2>2, <2>3, UpLevel
      <3> PICK i \in Nat, j \in Nat : i = Level[e] /\ j = Level[d]
        BY <2>2, <3>1, WorldAssumption
      <3> QED
        BY <3>1
    <2>5. d \in Opened(t, f, dev)
      BY <1>4, <2>2, <2>4 DEF Opened
    <2>6. d \in Items(t, f, dev) \cap Unreadable /\ d \in Up[n]
      BY <1>4, <2>2, <2>5 DEF Items, ScanErrors
    <2> QED
      BY <2>6
  <1> QED
    BY <1>5, <1>6


-----------------------------------------------------------------------------
(* The invariant.                                                            *)

(* A prompt is about the first target that waits, which was found and        *)
(* allowed; the second prompt follows the first.                             *)
Prompted ==
    pc \in {"prompt", "secondary"} =>
        /\ Kind("delete") /\ waiting # <<>>
        /\ Object[First] \in Nodes /\ Allowed(First)
        /\ pc = "secondary" => <<First, "prompt">> \in replies

(* A run has a target. *)
Aimed == pc \in {"scan", "call"} => target \in Nodes

(* The main command deletes nothing while a target waits, and a dry run      *)
(* nothing at all; until then nothing is missing.                            *)
Settled ==
    /\ Kind("delete") => /\ pc \in {"execute", "scan", "call"} => waiting = <<>>
                         /\ removed # {} => waiting = <<>>
    /\ command.dryRun => removed = {}
    /\ removed = {} => present = Nodes

Answered(p) ==
    /\ <<p, "prompt">> \in replies
    /\ Object[p] \in Dirs /\ Dangerous(p) => <<p, "secondary">> \in replies

(* A target of a command that asks was answered for or waits still. *)
Replied ==
    Asks => \A p \in Named : \/ Object[p] = None \/ Answered(p)
                             \/ \E i \in DOMAIN waiting : waiting[i] = p

(* Some path that leads to t was allowed. *)
Judged(t) == \E p \in Paths : Object[p] = t /\ Allowed(p)

AllJudged ==
    Deletes => /\ \A i \in DOMAIN queue : \A t \in queue[i] : Judged(t)
               /\ target # None => Judged(target)
               /\ \A r \in removed : Judged(r[2])

IInv == TypeOK /\ command \in Commands /\ Prompted /\ Aimed /\ Settled /\ Replied /\ AllJudged

-----------------------------------------------------------------------------
(* Sequences. *)

LEMMA TailType ==
    ASSUME NEW S, NEW s \in Seq(S), s # <<>>
    PROVE  Head(s) \in S /\ Tail(s) \in Seq(S)
BY SMT

(* What is in a sequence is its head or in its tail.                         *)
LEMMA TailRest ==
    ASSUME NEW S, NEW s \in Seq(S), s # <<>>, NEW i \in DOMAIN s
    PROVE  s[i] = Head(s) \/ \E j \in DOMAIN Tail(s) : Tail(s)[j] = s[i]
<1>1. CASE i = 1
  BY <1>1
<1>2. CASE i # 1
  <2>1. i - 1 \in DOMAIN Tail(s) /\ Tail(s)[i - 1] = s[i]
    BY <1>2
  <2> QED BY <2>1
<1> QED BY <1>1, <1>2

(* Taking an element from the first set of a sequence of sets.               *)
LEMMA Shrunk ==
    ASSUME NEW S, NEW s \in Seq(SUBSET S), s # <<>>, NEW x
    PROVE  /\ [s EXCEPT ![1] = @ \ {x}] \in Seq(SUBSET S)
           /\ DOMAIN [s EXCEPT ![1] = @ \ {x}] = DOMAIN s
           /\ \A i \in DOMAIN s : [s EXCEPT ![1] = @ \ {x}][i] \subseteq s[i]
BY SMT

(* Replacing the last element of a sequence.                                 *)
LEMMA LastStep ==
    ASSUME NEW S, NEW s \in Seq(S), s # <<>>, NEW x \in S
    PROVE  [s EXCEPT ![Len(s)] = x] \in Seq(S)
BY SMT

(* Relations that grow by a set of pairs.                                    *)
LEMMA Pairs ==
    ASSUME NEW S, NEW T, NEW R \in SUBSET (S \X T), NEW A \in SUBSET S, NEW y \in T
    PROVE  R \cup {<<x, y>> : x \in A} \in SUBSET (S \X T)
OBVIOUS

(* Relations that grow by one pair.                                          *)
LEMMA Pair ==
    ASSUME NEW S, NEW T, NEW R \in SUBSET (S \X T), NEW x \in S, NEW y \in T
    PROVE  R \cup {<<x, y>>} \in SUBSET (S \X T)
OBVIOUS

(* An element of a longer sequence is the new one or was there before.       *)
LEMMA AppendedItems ==
    ASSUME NEW S, NEW s \in Seq(S), NEW x, NEW i \in DOMAIN Append(s, x)
    PROVE  Append(s, x)[i] = x \/ (i \in DOMAIN s /\ Append(s, x)[i] = s[i])
BY SMT

(* The stages of a deletion are sets of entries.                             *)
LEMMA StageType ==
    ASSUME NEW S, NEW x \in SUBSET S, NEW y \in SUBSET S
    PROVE  Stage(x) \o Stage(y) \in Seq(SUBSET S)
<1>1. <<x>> \in Seq(SUBSET S) /\ <<y>> \in Seq(SUBSET S) /\ <<>> \in Seq(SUBSET S)
  OBVIOUS
<1>2. Stage(x) \in Seq(SUBSET S) /\ Stage(y) \in Seq(SUBSET S)
  BY <1>1 DEF Stage
<1> QED BY <1>2

(* Counting keeps the type of the statistics.                                *)
LEMMA CountType ==
    ASSUME NEW k, stats \in [DOMAIN NoStats -> Nat], Count(k)
    PROVE  stats' \in [DOMAIN NoStats -> Nat]
<1>1. ASSUME NEW D, NEW f \in [D -> Nat], k \in D PROVE [f EXCEPT ![k] = @ + 1] \in [D -> Nat]
  BY <1>1
<1>2. ASSUME NEW D, NEW f \in [D -> Nat], k \notin D PROVE [f EXCEPT ![k] = @ + 1] \in [D -> Nat]
  BY <1>2
<1> QED BY <1>1, <1>2 DEF Count

(* A sequence without its last element.                                      *)
LEMMA Front ==
    ASSUME NEW S, NEW s \in Seq(S), s # <<>>
    PROVE  SubSeq(s, 1, Len(s) - 1) \in Seq(S)
BY SMT

-----------------------------------------------------------------------------
(* What the proof of every step starts from. *)

LEMMA InitHolds == Init => IInv
<1> SUFFICES ASSUME Init PROVE IInv
  OBVIOUS
<1> USE DEF Init
<1>1. command.targets \in Seq(Paths) /\ command.signals \in Nat
  BY CommandAssumption DEF Options
<1>2. TypeOK
  <2>1. NoStats \in [DOMAIN NoStats -> Nat]
    BY DEF NoStats
  <2>2. queue \in Seq(SUBSET Nodes) /\ frames \in Seq({"enter", "set", "enter again", "set again"})
    OBVIOUS
  <2>3. arrivals \in Nat /\ pending \in Nat /\ arrivals + pending <= command.signals
    BY <1>1
  <2> QED BY <1>1, <2>1, <2>2, <2>3 DEF TypeOK
<1>3. Prompted /\ Aimed /\ Settled /\ AllJudged
  BY DEF Prompted, Aimed, Settled, AllJudged
<1>4. ASSUME NEW p \in Named PROVE \E i \in DOMAIN waiting : waiting[i] = p
  BY <1>4 DEF Named
<1>5. Replied
  BY <1>4 DEF Replied
<1> QED BY <1>2, <1>3, <1>5 DEF IInv

(* The type of the state after each action. *)
LEMMA TypeStep == IInv /\ [Next]_vars => TypeOK' /\ command' = command
<1> SUFFICES ASSUME TypeOK, command \in Commands, Prompted, Aimed, [Next]_vars
             PROVE  TypeOK' /\ command' = command
  BY DEF IInv
<1> USE DEF Exit, KeepAll, Untouched, signals, history, duVars
<1>files. present \subseteq Nodes /\ removed \subseteq Nodes \X Nodes
  BY DEF TypeOK
<1>queues. waiting \in Seq(Paths) /\ queue \in Seq(SUBSET Nodes)
  BY DEF TypeOK
<1>stats. stats \in [DOMAIN NoStats -> Nat]
  BY DEF TypeOK
<1>signals. arrivals \in Nat /\ pending \in Nat /\ arrivals + pending <= command.signals
  BY DEF TypeOK
<1>frames. frames \in Seq({"enter", "set", "enter again", "set again"})
  BY DEF TypeOK
<1>replies. replies \subseteq Paths \X {"prompt", "secondary"}
  BY DEF TypeOK
<1>device. baseDev \in Devices \cup {None}
  BY DEF TypeOK
<1>1. CASE StartDelete
  BY <1>1 DEF TypeOK, StartDelete
<1>2. CASE StartClean
  <2>1. \A root, preset : /\ FindPresetTargets(root, preset)[1] \in SUBSET Nodes
                          /\ FindPresetTargets(root, preset)[2] \in SUBSET Nodes
    BY DEF FindPresetTargets, Below, Within
  <2>2. \A root, preset : Stage(FindPresetTargets(root, preset)[1])
                             \o Stage(FindPresetTargets(root, preset)[2]) \in Seq(SUBSET Nodes)
    BY <2>1, StageType
  <2>3. <<>> \in Seq(SUBSET Nodes)
    OBVIOUS
  <2>4. queue' \in Seq(SUBSET Nodes)
    BY <1>queues, <1>2, <2>2, <2>3 DEF StartClean
  <2> QED BY <1>2, <2>4 DEF TypeOK, StartClean
<1>3. CASE StartDu \/ Visit
  BY <1>3 DEF TypeOK, StartDu, Visit
<1>4. CASE Inspect
  <2>1. {Object[First]} \in SUBSET Nodes
    BY <1>queues, <1>files, <1>4 DEF Inspect, Reached
  <2>2. queue' \in Seq(SUBSET Nodes) /\ waiting' \in Seq(Paths)
    <3>1. waiting # <<>> /\ Tail(waiting) \in Seq(Paths)
      BY <1>queues, <1>4, TailType DEF Inspect
    <3>2. Append(queue, {Object[First]}) \in Seq(SUBSET Nodes)
      BY <1>queues, <1>files, <2>1, Appended
    <3> QED BY <1>queues, <1>4, <3>1, <3>2 DEF Inspect, Accept
  <2> QED BY <1>4, <2>2 DEF TypeOK, Inspect, Accept
<1>5. CASE InspectUnsafe
  BY <1>5 DEF TypeOK, InspectUnsafe
<1>6. CASE InspectMissing
  <2>1. waiting' \in Seq(Paths) /\ stats' \in [DOMAIN NoStats -> Nat]
    BY <1>queues, <1>stats, <1>6, TailType, CountType DEF InspectMissing
  <2> QED BY <1>6, <2>1 DEF TypeOK, InspectMissing
<1>7. CASE Confirmed \/ RunReturns \/ NextOfMany \/ Finish
  BY <1>7 DEF TypeOK, Confirmed, RunReturns, NextOfMany, Finish, ExitCode
<1>8. ASSUME NEW t \in Nodes, Next1(t)
      PROVE  queue' \in Seq(SUBSET Nodes) /\ target' \in Nodes
  BY <1>queues, <1>8, TailType, Shrunk DEF Next1
<1>9. ASSUME NEW t \in Nodes, TrashTarget(t) PROVE TypeOK' /\ command' = command
  <2>1. queue' \in Seq(SUBSET Nodes) /\ target' \in Nodes
    BY <1>queues, <1>9, <1>8 DEF TrashTarget
  <2>2. stats' \in [DOMAIN NoStats -> Nat]
    BY <1>stats, <1>9, CountType DEF TrashTarget
  <2>3. /\ present' = present \/ present' = present \ Within(t)
        /\ removed' = removed \/ removed' = removed \cup {<<n, t>> : n \in Within(t) \cap present}
    BY <1>files, <1>9 DEF TrashTarget
  <2>4. present' \subseteq Nodes /\ removed' \subseteq Nodes \X Nodes
    BY <1>files, <2>3, Pairs
  <2> QED BY <1>9, <2>1, <2>2, <2>4 DEF TypeOK, TrashTarget
<1>10. ASSUME NEW t \in Nodes, TargetGone(t) PROVE TypeOK' /\ command' = command
  BY <1>10, <1>8, CountType DEF TypeOK, TargetGone
<1>11. ASSUME NEW t \in Nodes, SingleTarget(t) PROVE TypeOK' /\ command' = command
  BY <1>11, <1>8 DEF TypeOK, SingleTarget
<1>12. ASSUME NEW t \in Nodes, DirectoryTarget(t) PROVE TypeOK' /\ command' = command
  <2>1. baseDev' \in Devices \cup {None}
    BY <1>device, <1>12 DEF DirectoryTarget, BaseDev, Devices
  <2> QED BY <1>12, <1>8, <2>1 DEF TypeOK, DirectoryTarget
<1>13. ASSUME NEW n \in Nodes, Process(n) PROVE TypeOK' /\ command' = command
  <2>1. stats' \in [DOMAIN NoStats -> Nat]
    BY <1>stats, <1>13, CountType DEF Process, Dispose
  <2>2. /\ present' = present \/ present' = present \ {n}
        /\ removed' = removed \/ removed' = removed \cup {<<n, target>>}
    BY <1>files, <1>13 DEF Process, Dispose
  <2>3. target \in Nodes
    BY <1>13 DEF Process, Aimed
  <2>4. present' \subseteq Nodes /\ removed' \subseteq Nodes \X Nodes
    BY <1>files, <2>2, <2>3, Pair
  <2> QED BY <1>13, <2>1, <2>4 DEF TypeOK, Process
<1>14. CASE Consent
  <2>1. First \in Paths /\ Tail(waiting) \in Seq(Paths) /\ {Object[First]} \in SUBSET Nodes
    BY <1>queues, <1>files, <1>14, TailType DEF Consent, Prompted, First
  <2>2. queue' \in Seq(SUBSET Nodes) /\ waiting' \in Seq(Paths)
    BY <1>queues, <1>14, <2>1, Appended DEF Consent, Accept
  <2>3. replies' \subseteq Paths \X {"prompt", "secondary"}
    <3>1. replies' = replies \cup {<<First, pc>>} /\ pc \in {"prompt", "secondary"}
      BY <1>14 DEF Consent
    <3> QED BY <1>replies, <2>1, <3>1, Pair
  <2> QED BY <1>14, <2>2, <2>3 DEF TypeOK, Consent, Accept
<1>15. command.signals \in Nat
  BY CommandAssumption DEF Options
<1>16. CASE Decline \/ Interrupt
  <2>1. arrivals' \in Nat /\ pending' \in Nat /\ arrivals' + pending' <= command.signals
    BY <1>signals, <1>15, <1>16 DEF Decline, Interrupt
  <2> QED BY <1>16, <2>1 DEF TypeOK, Decline, Interrupt
<1>17. CASE Arrive \/ Deliver
  <2>1. arrivals' \in Nat /\ pending' \in Nat /\ arrivals' + pending' <= command.signals
    BY <1>signals, <1>15, <1>17 DEF Arrive, Deliver
  <2>2. frames' \in Seq({"enter", "set", "enter again", "set again"})
    BY <1>frames, <1>17, Appended DEF Arrive, Deliver
  <2> QED BY <1>17, <2>1, <2>2 DEF TypeOK, Arrive, Deliver, main
<1>18. CASE EnterSet \/ LeaveSet
  <2>1. frames' \in Seq({"enter", "set", "enter again", "set again"})
    BY <1>frames, <1>18, LastStep, Front DEF EnterSet, LeaveSet, Step, Return
  <2> QED BY <1>18, <2>1 DEF TypeOK, EnterSet, LeaveSet, main
<1>19. CASE UNCHANGED vars
  BY <1>19 DEF TypeOK, vars, main
<1> QED
  BY <1>1, <1>2, <1>3, <1>4, <1>5, <1>6, <1>7, <1>9, <1>10, <1>11, <1>12, <1>13, <1>14,
     <1>16, <1>17, <1>18, <1>19 DEF Next, Program, User, Handler, Finished

(* The prompts and the runs. *)
LEMMA PromptStep == IInv /\ [Next]_vars => Prompted' /\ Aimed'
<1> SUFFICES ASSUME TypeOK, command' = command, Prompted, Aimed, [Next]_vars
             PROVE  Prompted' /\ Aimed'
  BY TypeStep DEF IInv
<1> USE DEF Prompted, Aimed, Exit, KeepAll, history, Kind, First, Allowed
<1>1. CASE StartDelete \/ StartClean \/ StartDu \/ Visit
  BY <1>1 DEF StartDelete, StartClean, StartDu, Visit
<1>2. CASE Inspect
  <2>1. Object[First] \in Nodes
    BY <1>2 DEF Inspect, Reached, TypeOK
  <2>2. CASE Asks
    BY <1>2, <2>1, <2>2 DEF Inspect, Asks
  <2>3. CASE ~Asks
    BY <1>2, <2>3 DEF Inspect, Accept
  <2> QED BY <2>2, <2>3
<1>3. CASE InspectUnsafe \/ InspectMissing \/ Confirmed
  BY <1>3 DEF InspectUnsafe, InspectMissing, Confirmed
<1>4. ASSUME NEW t \in Nodes, TrashTarget(t) \/ TargetGone(t) \/ SingleTarget(t) \/ DirectoryTarget(t)
      PROVE  Prompted' /\ Aimed'
  BY <1>4 DEF TrashTarget, TargetGone, SingleTarget, DirectoryTarget, Next1
<1>5. ASSUME NEW n \in Nodes, Process(n) PROVE Prompted' /\ Aimed'
  BY <1>5 DEF Process
<1>6. CASE RunReturns \/ NextOfMany \/ Finish
  BY <1>6 DEF RunReturns, NextOfMany, Finish
<1>7. CASE Consent
  BY <1>7 DEF Consent, Accept
<1>8. CASE Decline \/ Interrupt
  BY <1>8 DEF Decline, Interrupt
<1>9. CASE Arrive \/ Deliver \/ EnterSet \/ LeaveSet \/ UNCHANGED vars
  BY <1>9 DEF Arrive, Deliver, EnterSet, LeaveSet, vars, main
<1> QED
  BY <1>1, <1>2, <1>3, <1>4, <1>5, <1>6, <1>7, <1>8, <1>9
     DEF Next, Program, User, Handler, Finished

(* What was removed before the last target was through. *)
LEMMA SettledStep == IInv /\ [Next]_vars => Settled'
<1> SUFFICES ASSUME command' = command, Prompted, Settled, [Next]_vars PROVE Settled'
  BY TypeStep DEF IInv
<1> USE DEF Settled, Exit, KeepAll, history, Kind
<1>1. CASE StartDelete \/ StartClean \/ StartDu \/ Visit
  BY <1>1 DEF StartDelete, StartClean, StartDu, Visit
<1>2. CASE Inspect
  BY <1>2 DEF Inspect, Accept
<1>3. CASE InspectUnsafe \/ InspectMissing \/ Confirmed
  BY <1>3 DEF InspectUnsafe, InspectMissing, Confirmed
<1>4. ASSUME NEW t \in Nodes, TrashTarget(t) PROVE Settled'
  <2>1. CASE UNCHANGED <<present, removed>>
    BY <1>4, <2>1 DEF TrashTarget, Next1
  <2>2. CASE ~UNCHANGED <<present, removed>>
    <3>1. /\ ~command.dryRun
          /\ present' = present \ Within(t)
          /\ removed' = removed \cup {<<n, t>> : n \in Within(t) \cap present}
      BY <1>4, <2>2 DEF TrashTarget, Untouched
    <3>2. removed' = {} => removed = {} /\ Within(t) \cap present = {}
      BY <3>1
    <3>3. removed' = {} => present' = Nodes
      BY <3>1, <3>2
    <3> QED BY <1>4, <3>1, <3>3 DEF TrashTarget, Next1
  <2> QED BY <2>1, <2>2
<1>5. ASSUME NEW t \in Nodes, TargetGone(t) \/ SingleTarget(t) \/ DirectoryTarget(t) PROVE Settled'
  BY <1>5 DEF TargetGone, SingleTarget, DirectoryTarget, Next1
<1>6. ASSUME NEW n \in Nodes, Process(n) PROVE Settled'
  <2>1. CASE UNCHANGED <<present, removed>>
    BY <1>6, <2>1 DEF Process
  <2>2. CASE ~UNCHANGED <<present, removed>>
    <3>1. ~command.dryRun /\ removed' # {}
      BY <1>6, <2>2 DEF Process, Untouched, Simulated, Dispose
    <3> QED BY <1>6, <3>1 DEF Process
  <2> QED BY <2>1, <2>2
<1>7. CASE RunReturns \/ NextOfMany \/ Finish
  BY <1>7 DEF RunReturns, NextOfMany, Finish
<1>8. CASE Consent
  BY <1>8 DEF Consent, Accept, Prompted
<1>9. CASE Decline \/ Interrupt
  BY <1>9 DEF Decline, Interrupt
<1>10. CASE Arrive \/ Deliver \/ EnterSet \/ LeaveSet \/ UNCHANGED vars
  BY <1>10 DEF Arrive, Deliver, EnterSet, LeaveSet, vars, main
<1> QED
  BY <1>1, <1>2, <1>3, <1>4, <1>5, <1>6, <1>7, <1>8, <1>9, <1>10
     DEF Next, Program, User, Handler, Finished

(* A target leaves the queue of the waiting when it is missing or answered for. *)
LEMMA RepliedStep == IInv /\ [Next]_vars => Replied'
<1> SUFFICES ASSUME TypeOK, command' = command, Prompted, Settled, Replied, [Next]_vars
             PROVE  Replied'
  BY TypeStep DEF IInv
<1>1. CASE waiting' = waiting /\ replies \subseteq replies'
  BY <1>1 DEF Replied, Answered, Asks, Kind, Named
<1>2. ASSUME NEW q, q = First,
             waiting # <<>>, waiting' = Tail(waiting), replies \subseteq replies',
             Asks => Object[q] = None \/ Answered(q)'
      PROVE  Replied'
  <2> SUFFICES ASSUME Asks, NEW p \in Named
               PROVE  \/ Object[p] = None \/ Answered(p)'
                      \/ \E i \in DOMAIN waiting' : waiting'[i] = p
    BY DEF Replied, Asks, Kind, Named
  <2>1. CASE Object[p] = None \/ Answered(p)
    BY <1>2, <2>1 DEF Answered
  <2>2. ASSUME NEW i \in DOMAIN waiting, waiting[i] = p
        PROVE  p = q \/ \E j \in DOMAIN waiting' : waiting'[j] = p
    <3>1. waiting \in Seq(Paths)
      BY DEF TypeOK
    <3> QED BY <1>2, <2>2, <3>1, TailRest DEF First
  <2> QED BY <1>2, <2>1, <2>2 DEF Replied
<1> USE DEF Exit, KeepAll, history
<1>3. CASE StartDelete \/ StartClean \/ StartDu \/ Visit
  BY <1>1, <1>3 DEF StartDelete, StartClean, StartDu, Visit
<1>4. CASE Inspect
  <2>1. CASE Asks
    BY <1>1, <1>4, <2>1 DEF Inspect
  <2>2. CASE ~Asks
    BY <1>2, <1>4, <2>2 DEF Inspect, Accept
  <2> QED BY <2>1, <2>2
<1>5. CASE InspectUnsafe \/ Confirmed
  BY <1>1, <1>5 DEF InspectUnsafe, Confirmed
<1>6. CASE InspectMissing
  <2>1. CASE Kind("many")
    BY <1>1, <1>6, <2>1 DEF InspectMissing
  <2>2. CASE ~Kind("many")
    <3>1. waiting # <<>> /\ waiting' = Tail(waiting) /\ replies' = replies
      BY <1>6, <2>2 DEF InspectMissing
    <3>2. First \in Paths
      BY <3>1, TailType DEF TypeOK, First
    <3>3. Asks => present = Nodes
      BY <3>1 DEF Settled, Asks
    <3>4. Asks => Object[First] = None
      BY <1>6, <3>2, <3>3, WorldAssumption DEF InspectMissing, Reached
    <3> QED BY <1>2, <3>1, <3>4
  <2> QED BY <2>1, <2>2
<1>7. ASSUME NEW t \in Nodes, TrashTarget(t) \/ TargetGone(t) \/ SingleTarget(t) \/ DirectoryTarget(t)
      PROVE  Replied'
  BY <1>1, <1>7 DEF TrashTarget, TargetGone, SingleTarget, DirectoryTarget
<1>8. ASSUME NEW n \in Nodes, Process(n) PROVE Replied'
  BY <1>1, <1>8 DEF Process
<1>9. CASE RunReturns \/ NextOfMany \/ Finish
  BY <1>1, <1>9 DEF RunReturns, NextOfMany, Finish
<1>10. CASE Consent
  <2> PICK q : q = First
    OBVIOUS
  <2>1. pc \in {"prompt", "secondary"} /\ replies' = replies \cup {<<q, pc>>}
    BY <1>10 DEF Consent
  <2>2. waiting # <<>> /\ Allowed(q) /\ (pc = "secondary" => <<q, "prompt">> \in replies)
    BY <2>1 DEF Prompted
  <2>3. CASE pc = "prompt" /\ Twice
    BY <1>1, <1>10, <2>3 DEF Consent
  <2>4. CASE ~(pc = "prompt" /\ Twice)
    <3>1. waiting' = Tail(waiting)
      BY <1>10, <2>4 DEF Consent, Accept
    <3>2. CASE pc = "prompt"
      <4>1. ~(Object[q] \in Dirs /\ Dangerous(q))
        BY <2>2, <2>4, <3>2 DEF Twice, Allowed, ValidateSafety, Dangerous
      <4> QED BY <1>2, <2>1, <2>2, <3>1, <3>2, <4>1 DEF Answered
    <3>3. CASE pc = "secondary"
      BY <1>2, <2>1, <2>2, <3>1, <3>3 DEF Answered
    <3> QED BY <2>1, <3>2, <3>3
  <2> QED BY <2>3, <2>4
<1>11. CASE Decline \/ Interrupt
  BY <1>1, <1>11 DEF Decline, Interrupt
<1>12. CASE Arrive \/ Deliver \/ EnterSet \/ LeaveSet \/ UNCHANGED vars
  BY <1>1, <1>12 DEF Arrive, Deliver, EnterSet, LeaveSet, vars, main
<1> QED
  BY <1>3, <1>4, <1>5, <1>6, <1>7, <1>8, <1>9, <1>10, <1>11, <1>12
     DEF Next, Program, User, Handler, Finished

(* What is queued was judged, and only that becomes a target. *)
LEMMA NextJudged ==
    ASSUME TypeOK, AllJudged, Deletes, command' = command, NEW t, Next1(t)
    PROVE  /\ Judged(t) /\ target' = t
           /\ \A i \in DOMAIN queue' : \A u \in queue'[i] : Judged(u)
<1>1. queue \in Seq(SUBSET Nodes) /\ queue # <<>> /\ t \in Head(queue) /\ target' = t
  BY DEF TypeOK, Next1
<1>2. 1 \in DOMAIN queue /\ Head(queue) = queue[1]
  BY <1>1
<1>3. Judged(t)
  BY <1>1, <1>2 DEF AllJudged
<1>4. CASE queue' = Tail(queue)
  <2>1. \A i \in DOMAIN Tail(queue) : i + 1 \in DOMAIN queue /\ Tail(queue)[i] = queue[i + 1]
    BY <1>1
  <2> QED BY <1>1, <1>3, <1>4, <2>1 DEF AllJudged
<1>5. CASE queue' = [queue EXCEPT ![1] = @ \ {t}]
  BY <1>1, <1>3, <1>5, Shrunk DEF AllJudged
<1> QED BY <1>4, <1>5 DEF Next1

(* A target that enters the queue was judged.                                *)
LEMMA AcceptJudged ==
    ASSUME TypeOK, AllJudged, Deletes, waiting # <<>>, Allowed(First), Accept
    PROVE  \A i \in DOMAIN queue' : \A u \in queue'[i] : Judged(u)
<1>1. queue \in Seq(SUBSET Nodes) /\ queue' = Append(queue, {Object[First]})
  BY DEF TypeOK, Accept
<1>2. First \in Paths
  BY TailType DEF TypeOK, First
<1>3. Judged(Object[First])
  BY <1>2 DEF Judged
<1>4. ASSUME NEW i \in DOMAIN queue', NEW u \in queue'[i] PROVE Judged(u)
  <2>1. i \in DOMAIN Append(queue, {Object[First]})
    BY <1>1, <1>4
  <2>2. queue'[i] = {Object[First]} \/ (i \in DOMAIN queue /\ queue'[i] = queue[i])
    BY <1>1, <2>1, AppendedItems
  <2> QED BY <1>3, <1>4, <2>2 DEF AllJudged
<1> QED BY <1>4

(* Every step keeps what is queued, aimed at and removed judged.             *)
LEMMA JudgedStep == IInv /\ [Next]_vars => AllJudged'
<1> SUFFICES ASSUME TypeOK, command' = command, Prompted, Aimed, AllJudged, [Next]_vars, Deletes
             PROVE  AllJudged'
  BY TypeStep DEF IInv, AllJudged, Deletes
<1>1. \A t : Judged(t)' <=> Judged(t)
  BY DEF Judged, Allowed
<1>2. CASE UNCHANGED <<queue, target, removed>>
  BY <1>1, <1>2 DEF AllJudged
<1> USE DEF Exit, KeepAll, history
<1>3. CASE StartDelete \/ StartDu \/ Visit
  BY <1>2, <1>3 DEF StartDelete, StartDu, Visit
<1>4. CASE StartClean
  BY <1>4 DEF StartClean, Deletes, Kind
<1>5. CASE Inspect
  <2>1. CASE Asks
    BY <1>2, <1>5, <2>1 DEF Inspect
  <2>2. CASE ~Asks
    BY <1>1, <1>5, <2>2, AcceptJudged DEF Inspect, AllJudged
  <2> QED BY <2>1, <2>2
<1>6. CASE InspectUnsafe \/ InspectMissing \/ Confirmed
  BY <1>2, <1>6 DEF InspectUnsafe, InspectMissing, Confirmed
<1>7. ASSUME NEW t \in Nodes, TrashTarget(t) PROVE AllJudged'
  <2>1. removed' = removed \/ removed' = removed \cup {<<n, t>> : n \in Within(t) \cap present}
    BY <1>7 DEF TrashTarget, Untouched
  <2>2. Next1(t)
    BY <1>7 DEF TrashTarget
  <2>3. \A r \in removed' : Judged(r[2])
    BY <2>1, <2>2, NextJudged DEF AllJudged
  <2> QED BY <1>1, <2>2, <2>3, NextJudged DEF AllJudged
<1>8. ASSUME NEW t \in Nodes, TargetGone(t) \/ SingleTarget(t) \/ DirectoryTarget(t) PROVE AllJudged'
  <2>1. Next1(t) /\ removed' = removed
    BY <1>8 DEF TargetGone, SingleTarget, DirectoryTarget
  <2> QED BY <1>1, <2>1, NextJudged DEF AllJudged
<1>9. ASSUME NEW n \in Nodes, Process(n) PROVE AllJudged'
  <2>1. /\ UNCHANGED <<queue, target>>
        /\ removed' = removed \/ removed' = removed \cup {<<n, target>>}
    BY <1>9 DEF Process, Dispose, Untouched
  <2>2. target # None
    BY <1>9, WorldAssumption DEF Process, Aimed
  <2> QED BY <1>1, <2>1, <2>2 DEF AllJudged
<1>10. CASE RunReturns \/ NextOfMany \/ Finish
  BY <1>2, <1>10 DEF RunReturns, NextOfMany, Finish
<1>11. CASE Consent
  <2>1. CASE pc = "prompt" /\ Twice
    BY <1>2, <1>11, <2>1 DEF Consent
  <2>2. CASE ~(pc = "prompt" /\ Twice)
    <3>1. Accept /\ waiting # <<>> /\ Allowed(First) /\ UNCHANGED <<target, removed>>
      BY <1>11, <2>2 DEF Consent, Prompted
    <3> QED BY <1>1, <3>1, AcceptJudged DEF AllJudged
  <2> QED BY <2>1, <2>2
<1>12. CASE Decline \/ Interrupt
  BY <1>2, <1>12 DEF Decline, Interrupt
<1>13. CASE Arrive \/ Deliver \/ EnterSet \/ LeaveSet \/ UNCHANGED vars
  BY <1>2, <1>13 DEF Arrive, Deliver, EnterSet, LeaveSet, vars, main
<1> QED
  BY <1>3, <1>4, <1>5, <1>6, <1>7, <1>8, <1>9, <1>10, <1>11, <1>12, <1>13
     DEF Next, Program, User, Handler, Finished

-----------------------------------------------------------------------------
(* The invariant, and what follows from it. *)

LEMMA Invariant == Spec => []IInv
<1>1. IInv /\ [Next]_vars => IInv'
  BY TypeStep, PromptStep, SettledStep, RepliedStep, JudgedStep DEF IInv
<1> QED BY InitHolds, <1>1, PTL DEF Spec

(* The state of main, FastDeleter and the signal handler is always of its    *)
(* type: what is queued is an entry that was found, what is aimed at exists  *)
(* in the file system, and no more signals are handled than came.            *)
THEOREM TypeCorrect == Spec => []TypeOK
BY Invariant, PTL DEF IInv

(* Nothing is deleted before every target has been judged and, unless the    *)
(* options say otherwise, confirmed: Phase 1 of main.                        *)
THEOREM Confirmation == Spec => []ConfirmedFirst
<1>1. IInv => ConfirmedFirst
  <2> SUFFICES ASSUME IInv, Kind("delete"), removed # {}, ~command.unattended,
                      NEW p \in Named, Object[p] # None
               PROVE  Answered(p)
    BY DEF ConfirmedFirst, Answered
  <2>1. waiting = <<>> /\ Asks
    BY DEF IInv, Settled, Asks
  <2> QED BY <2>1 DEF IInv, Replied
<1> QED BY Invariant, <1>1, PTL

(* No protected directory is deleted under whatever name without the option  *)
(* that allows it: classify_target_danger, validate_safety.                  *)
THEOREM Protection == Spec => []ProtectedKept
<1>1. ASSUME NEW t \in Nodes, t \in ProtectedDirs, Judged(t) PROVE command.allowRoot
  <2>1. PICK p \in Paths : Object[p] = t /\ Allowed(p)
    BY <1>1 DEF Judged
  <2>2. PICK c \in Critical \cup {RootPath} : t = Object[RealPath[c]] /\ t # Object[Home]
    BY <1>1 DEF ProtectedDirs
  <2>3. c \in Paths /\ RealPath[c] \in Paths
    BY <2>2, WorldAssumption
  <2>4. RealPath[p] = RealPath[c]
    BY <2>1, <2>2, <2>3, WorldAssumption, PathAssumption
  <2>5. RealPath[c] # Home
    BY <2>2
  <2>6. CASE c = RootPath
    BY <2>1, <2>4, <2>6, PathAssumption DEF Allowed, ValidateSafety, IsRoot, Spellings
  <2>7. CASE c \in Critical
    BY <2>1, <2>4, <2>5, <2>7 DEF Allowed, ValidateSafety, IsSystem, Spellings, DangerousPaths
  <2> QED BY <2>6, <2>7
<1>2. ASSUME NEW t \in Nodes, t = Object[Home], Judged(t)
      PROVE  command.allowRoot \/ command.allowHome
  <2>1. PICK p \in Paths : Object[p] = t /\ Allowed(p)
    BY <1>2 DEF Judged
  <2>2. RealPath[p] = Home
    BY <1>2, <2>1, WorldAssumption, PathAssumption
  <2> QED BY <2>1, <2>2 DEF Allowed, ValidateSafety, IsHome, Spellings
<1>3. IInv => ProtectedKept
  <2> SUFFICES ASSUME IInv, Deletes, NEW r \in removed
               PROVE  /\ r[2] \in ProtectedDirs => command.allowRoot
                      /\ r[2] = Object[Home] => command.allowRoot \/ command.allowHome
    BY DEF ProtectedKept
  <2>1. r[2] \in Nodes /\ Judged(r[2])
    BY DEF IInv, TypeOK, AllJudged
  <2> QED BY <1>1, <1>2, <2>1
<1> QED BY Invariant, <1>3, PTL

-----------------------------------------------------------------------------
(* What the exit code and the boundaries rest on.                            *)

(* The signals: what has been handled came before, the handler runs only     *)
(* while the main command deletes, and the event leads to one exit code.     *)
Alarmed ==
    /\ event \/ frames # <<>> \/ code = "interrupted" => arrivals < command.signals
    /\ frames # <<>> => Kind("delete") /\ pc \in {"execute", "scan"}
    /\ event => Kind("delete") /\ (pc \in {"execute", "scan", "call"} \/ (Over /\ code = "interrupted"))

(* Why a deletion may fail. *)
Reasons ==
    \/ None \in {Object[p] : p \in Named}
    \/ (UNION {Within(t) : t \in Targets}) \cap (Stuck \cup Unreadable) # {}
    \/ Overlapping

(* The exit code was decided at the end, from what the counters say. *)
Coded ==
    /\ code # "none" => Over
    /\ pc = "visit" => Kind("du")
    /\ pc = "start" => removed = {} /\ waiting = command.targets /\ queue = <<>>
    /\ code = "refused" /\ Deletes => removed = {}
    /\ code = "ok" /\ Deletes => stats.failed = 0
    /\ code = "failed" /\ Deletes => Named = {} \/ stats.failed > 0
    /\ code \in {"ok", "failed"} /\ Deletes => waiting = <<>> /\ queue = <<>>

(* A target that is missing waits or was counted. *)
MissingCounted ==
    Deletes /\ stats.failed = 0 =>
        \A p \in Named : Object[p] = None => \E i \in DOMAIN waiting : waiting[i] = p

(* What fails has a reason. *)
Blamed == Deletes /\ stats.failed > 0 => Reasons

(* What is missing was removed with a target that it was in. *)
Removals ==
    /\ \A n \in Nodes \ present : \E u \in Nodes : <<n, u>> \in removed
    /\ \A r \in removed : r[1] \in Within(r[2])
    /\ pc \in {"scan", "call"} => chosen \subseteq Within(target)
    /\ target = None => removed = {}

(* The targets are taken in the order in which they were given: the first m  *)
(* are through, those at ix are queued, those after w wait.                  *)
Given(i) == Object[command.targets[i]]
LinedUp(m, w, ix) ==
    /\ m <= w /\ w + Len(waiting) = Len(command.targets)
    /\ \A i \in DOMAIN waiting : waiting[i] = command.targets[w + i]
    /\ \A k \in DOMAIN queue : ix[k] \in (m + 1) .. w /\ queue[k] = {Given(ix[k])}
    /\ \A k, l \in DOMAIN queue : k < l => ix[k] < ix[l]
    /\ target # None => \E i \in 1 .. m : target = Given(i)
    /\ \A r \in removed : \E i \in 1 .. m : r[2] = Given(i)

Ordered ==
    Deletes => \E m \in 0 .. Len(command.targets), w \in 0 .. Len(command.targets) :
                   \E ix \in [DOMAIN queue -> 1 .. Len(command.targets)] : LinedUp(m, w, ix)

(* The first target is the first in the queue, and its device is compared    *)
(* with; nothing on another one is chosen in it.                             *)
Bounded == Deletes /\ Filter.oneFileSystem /\ ~command.trash /\ Len(command.targets) > 0 /\ Given(1) \in Nodes
OwnDevice ==
    Bounded =>
        /\ target = None => \/ queue = <<>> /\ waiting = command.targets
                            \/ queue # <<>> /\ queue[1] = {Given(1)}
        /\ target = None => baseDev = None
        /\ target # None /\ Given(1) \in Dirs => baseDev = Entry[Given(1)].dev
        /\ pc \in {"scan", "call"} /\ target = Given(1) => chosen \cap Foreign(target) = {}
        /\ \A r \in removed : r[2] = Given(1) => r[1] \notin Foreign(r[2])

(* What is chosen and can be read, and what was removed, the options do not  *)
(* spare.                                                                    *)
Sparing ==
    Deletes /\ ~command.trash =>
        /\ pc \in {"scan", "call"} /\ target \in Dirs =>
               (chosen \ Unreadable) \cap PassedOver(Filter, target) = {}
        /\ \A r \in removed : r[2] \in Dirs => r[1] \notin PassedOver(Filter, r[2])

(* The directory of what exists exists. *)
Grounded == \A n \in present \ {Top} : Parent[n] \in present

(* t waits still, or is queued. *)
ToCome(t) == \/ \E i \in DOMAIN waiting : Object[waiting[i]] = t
             \/ \E k \in DOMAIN queue : t \in queue[k]

(* n is still to be deleted, or a directory will fail in which it may be. *)
Coming(n, t) ==
    pc \in {"scan", "call"} /\ target = t /\ (n \in chosen \/ chosen \cap Unreadable # {})

(* While nothing has failed, all that is selected in a target that was taken *)
(* is gone, had to stay, or is still to come.                                *)
HadToStay(n, t) == n \in Dirs /\ ~(Within(n) \subseteq Selected(t))
Faultless == Deletes /\ stats.failed = 0 /\ ~event /\ ~command.dryRun /\ ~Exempt
Complete ==
    Faultless => \A t \in Targets : \/ ToCome(t)
                                     \/ \A n \in Selected(t) \cap present : HadToStay(n, t) \/ Coming(n, t)

OInv == /\ Alarmed /\ Coded /\ MissingCounted /\ Blamed /\ Removals /\ Ordered
        /\ OwnDevice /\ Sparing /\ Grounded /\ Complete

(* The event and the handlers. *)
LEMMA AlarmedStep == IInv /\ Alarmed /\ [Next]_vars => Alarmed'
<1> SUFFICES ASSUME command' = command, Alarmed, [Next]_vars,
                    arrivals \in Nat, pending \in Nat, arrivals + pending <= command.signals,
                    command.signals \in Nat
             PROVE  Alarmed'
  BY TypeStep, CommandAssumption DEF IInv, TypeOK, Options
<1> USE DEF Alarmed, Exit, KeepAll, signals, Kind, Over
<1>1. CASE StartDelete \/ StartClean \/ StartDu \/ Visit
  BY <1>1 DEF StartDelete, StartClean, StartDu, Visit
<1>2. CASE Inspect \/ InspectUnsafe \/ InspectMissing \/ Confirmed
  BY <1>2 DEF Inspect, InspectUnsafe, InspectMissing, Confirmed, Accept
<1>3. ASSUME NEW t \in Nodes, TrashTarget(t) \/ TargetGone(t) \/ SingleTarget(t) \/ DirectoryTarget(t)
      PROVE  Alarmed'
  BY <1>3 DEF TrashTarget, TargetGone, SingleTarget, DirectoryTarget, Next1, Running
<1>4. ASSUME NEW n \in Nodes, Process(n) PROVE Alarmed'
  BY <1>4 DEF Process
<1>5. CASE RunReturns \/ NextOfMany
  BY <1>5 DEF RunReturns, NextOfMany, Running
<1>6. CASE Finish
  BY <1>6 DEF Finish, Running, ExitCode
<1>7. CASE Consent \/ Decline
  BY <1>7 DEF Consent, Decline, Accept
<1>8. CASE Interrupt
  BY <1>8 DEF Interrupt
<1>9. CASE Arrive \/ Deliver
  BY <1>9 DEF Arrive, Deliver, Handling, main
<1>10. CASE EnterSet \/ LeaveSet
  BY <1>10 DEF EnterSet, LeaveSet, main
<1>11. CASE UNCHANGED vars
  BY <1>11 DEF vars, main
<1> QED
  BY <1>1, <1>2, <1>3, <1>4, <1>5, <1>6, <1>7, <1>8, <1>9, <1>10, <1>11
     DEF Next, Program, User, Handler, Finished

(* The exit code. *)
LEMMA CodedStep == IInv /\ Coded /\ [Next]_vars => Coded'
<1> SUFFICES ASSUME command' = command, stats.failed \in Nat, Prompted, Settled, Coded, [Next]_vars
             PROVE  Coded'
  BY TypeStep DEF IInv, TypeOK, NoStats
<1> USE DEF Coded, Exit, KeepAll, history, Kind, Over, Deletes
<1>1. CASE StartDelete
  <2>1. waiting = command.targets /\ removed = {} /\ queue = <<>>
    BY <1>1 DEF StartDelete
  <2>2. waiting = <<>> => Named = {}
    BY <2>1 DEF Named
  <2> QED
    BY <1>1, <2>1, <2>2 DEF StartDelete, Named
<1>2. CASE StartClean \/ StartDu \/ Visit
  BY <1>2 DEF StartClean, StartDu, Visit, Named
<1>3. CASE Inspect \/ InspectUnsafe \/ InspectMissing \/ Confirmed
  BY <1>3 DEF Inspect, InspectUnsafe, InspectMissing, Confirmed, Accept, Settled, Named
<1>4. ASSUME NEW t \in Nodes, TrashTarget(t) \/ TargetGone(t) \/ SingleTarget(t) \/ DirectoryTarget(t)
      PROVE  Coded'
  BY <1>4 DEF TrashTarget, TargetGone, SingleTarget, DirectoryTarget, Next1
<1>5. ASSUME NEW n \in Nodes, Process(n) PROVE Coded'
  BY <1>5 DEF Process
<1>6. CASE RunReturns \/ NextOfMany
  BY <1>6 DEF RunReturns, NextOfMany
<1>7. CASE Finish
  <2> PICK f \in Nat : f = stats.failed
    OBVIOUS
  <2>1. f = 0 \/ f > 0
    OBVIOUS
  <2> QED
    BY <1>7, <2>1 DEF Finish, ExitCode, Settled, Named
<1>8. CASE Consent \/ Decline
  BY <1>8 DEF Consent, Decline, Accept, Prompted, Settled, Named
<1>9. CASE Interrupt
  BY <1>9 DEF Interrupt, Named
<1>10. CASE Arrive \/ Deliver \/ EnterSet \/ LeaveSet \/ UNCHANGED vars
  BY <1>10 DEF Arrive, Deliver, EnterSet, LeaveSet, vars, main, Named
<1> QED
  BY <1>1, <1>2, <1>3, <1>4, <1>5, <1>6, <1>7, <1>8, <1>9, <1>10
     DEF Next, Program, User, Handler, Finished

(* What counting does to the failures. *)
LEMMA CountFailed ==
    ASSUME NEW k \in {"files", "dirs", "failed"}, stats \in [DOMAIN NoStats -> Nat], Count(k)
    PROVE  /\ stats.failed \in Nat /\ stats'.failed \in Nat
           /\ k = "failed" => stats'.failed = stats.failed + 1
           /\ k # "failed" => stats'.failed = stats.failed
BY DEF Count, NoStats

(* Which targets are missing. *)
LEMMA MissingStep == IInv /\ MissingCounted /\ Coded /\ [Next]_vars => MissingCounted'
<1> SUFFICES ASSUME TypeOK, command' = command, Prompted, MissingCounted, Coded, [Next]_vars, Deletes
             PROVE  MissingCounted'
  BY TypeStep DEF IInv, MissingCounted, Deletes
<1>1. waiting \in Seq(Paths) /\ stats \in [DOMAIN NoStats -> Nat] /\ present \subseteq Nodes
  BY DEF TypeOK
<1>2. CASE waiting' = waiting /\ (stats'.failed = 0 => stats.failed = 0)
  BY <1>2 DEF MissingCounted, Named, Deletes
<1>3. CASE stats'.failed # 0
  BY <1>3 DEF MissingCounted
<1>4. ASSUME waiting # <<>>, waiting' = Tail(waiting), Object[First] \in Nodes, UNCHANGED stats
      PROVE  MissingCounted'
  <2> SUFFICES ASSUME stats.failed = 0, NEW p \in Named, Object[p] = None
               PROVE  \E i \in DOMAIN waiting' : waiting'[i] = p
    BY <1>4 DEF MissingCounted, Named
  <2>1. PICK i \in DOMAIN waiting : waiting[i] = p
    BY DEF MissingCounted
  <2>2. p # Head(waiting)
    BY <1>4, WorldAssumption DEF First
  <2> QED
    BY <1>1, <1>4, <2>1, <2>2, TailRest
<1> USE DEF Exit, KeepAll
<1>5. CASE StartDelete \/ StartClean \/ StartDu \/ Visit
  BY <1>2, <1>5 DEF StartDelete, StartClean, StartDu, Visit
<1>6. CASE Inspect
  <2>1. Object[First] \in Nodes
    BY <1>1, <1>6 DEF Inspect, Reached
  <2> QED
    BY <1>2, <1>4, <1>6, <2>1 DEF Inspect, Accept
<1>7. CASE InspectUnsafe \/ Confirmed
  BY <1>2, <1>7 DEF InspectUnsafe, Confirmed
<1>8. CASE InspectMissing
  <2>1. CASE Kind("many")
    BY <1>2, <1>8, <2>1 DEF InspectMissing
  <2>2. CASE ~Kind("many")
    <3>1. Count("failed")
      BY <1>8, <2>2 DEF InspectMissing
    <3> PICK f \in Nat : f = stats.failed /\ stats'.failed = f + 1
      BY <1>1, <3>1, CountFailed
    <3> QED
      BY <1>3
  <2> QED
    BY <2>1, <2>2
<1>9. ASSUME NEW k \in {"files", "dirs", "failed"}, Count(k), UNCHANGED waiting
      PROVE  MissingCounted'
  <2> PICK f \in Nat : f = stats.failed /\ (stats'.failed = f + 1 \/ stats'.failed = f)
    BY <1>1, <1>9, CountFailed
  <2> QED
    BY <1>2, <1>9
<1>10. ASSUME NEW t \in Nodes, TrashTarget(t) PROVE MissingCounted'
  <2>1. UNCHANGED waiting /\ (Count("files") \/ Count(TypeCounter(t)) \/ Count("failed"))
    BY <1>10 DEF TrashTarget
  <2>2. TypeCounter(t) \in {"files", "dirs"}
    BY DEF TypeCounter
  <2> QED
    BY <1>9, <2>1, <2>2
<1>11. ASSUME NEW t \in Nodes, TargetGone(t) PROVE MissingCounted'
  BY <1>9, <1>11 DEF TargetGone
<1>12. ASSUME NEW t \in Nodes, SingleTarget(t) \/ DirectoryTarget(t) PROVE MissingCounted'
  BY <1>2, <1>12 DEF SingleTarget, DirectoryTarget
<1>13. ASSUME NEW n \in Nodes, Process(n) PROVE MissingCounted'
  <2>1. UNCHANGED waiting /\ (Count(TypeCounter(n)) \/ Count("failed") \/ UNCHANGED stats)
    BY <1>13 DEF Process, Dispose
  <2>2. TypeCounter(n) \in {"files", "dirs"}
    BY DEF TypeCounter
  <2> QED
    BY <1>2, <1>9, <2>1, <2>2
<1>14. CASE RunReturns \/ NextOfMany \/ Finish
  BY <1>2, <1>14 DEF RunReturns, NextOfMany, Finish
<1>15. CASE Consent
  <2>1. waiting # <<>> /\ Object[First] \in Nodes
    BY <1>15 DEF Consent, Prompted
  <2> QED
    BY <1>2, <1>4, <1>15, <2>1 DEF Consent, Accept
<1>16. CASE Decline \/ Interrupt
  BY <1>2, <1>16 DEF Decline, Interrupt
<1>17. CASE Arrive \/ Deliver \/ EnterSet \/ LeaveSet \/ UNCHANGED vars
  BY <1>2, <1>17 DEF Arrive, Deliver, EnterSet, LeaveSet, vars, main
<1> QED
  BY <1>5, <1>6, <1>7, <1>8, <1>10, <1>11, <1>12, <1>13, <1>14, <1>15, <1>16, <1>17
     DEF Next, Program, User, Handler, Finished

(* What the scan of t yields is in t. *)
LEMMA ItemsWithin ==
    ASSUME NEW t, NEW f, NEW dev
    PROVE  Items(t, f, dev) \subseteq Within(t)
  BY DEF Items, ScanErrors, FileItems, DirItems, Opened, Below

(* Only a target's own entries are removed with it. *)
LEMMA RemovalsStep == IInv /\ Removals /\ [Next]_vars => Removals'
<1> SUFFICES ASSUME Aimed, Removals, [Next]_vars PROVE Removals'
  BY DEF IInv
<1>1. CASE UNCHANGED <<present, removed, chosen, target>> /\ (pc' \in {"scan", "call"} => pc' = pc)
  BY <1>1 DEF Removals
<1> USE DEF Exit, KeepAll, history
<1>2. CASE StartDelete \/ StartClean \/ StartDu \/ Visit
  BY <1>1, <1>2 DEF StartDelete, StartClean, StartDu, Visit
<1>3. CASE Inspect \/ InspectUnsafe \/ InspectMissing \/ Confirmed
  BY <1>1, <1>3 DEF Inspect, InspectUnsafe, InspectMissing, Confirmed, Accept
<1>4. ASSUME NEW t \in Nodes, Next1(t) PROVE target' = t /\ t # None /\ pc = "execute"
  BY <1>4, WorldAssumption DEF Next1
<1>5. ASSUME NEW t \in Nodes, TrashTarget(t) PROVE Removals'
  <2>1. Next1(t) /\ pc' = pc
    BY <1>5 DEF TrashTarget
  <2>2. CASE Untouched
    BY <1>4, <2>1, <2>2 DEF Removals, Untouched
  <2>3. CASE ~Untouched
    <3>1. /\ present' = present \ Within(t)
          /\ removed' = removed \cup {<<n, t>> : n \in Within(t) \cap present}
      BY <1>5, <2>3 DEF TrashTarget
    <3>2. ASSUME NEW n \in Nodes \ present' PROVE \E u \in Nodes : <<n, u>> \in removed'
      BY <3>1, <3>2 DEF Removals
    <3>3. \A r \in removed' : r[1] \in Within(r[2])
      BY <3>1 DEF Removals
    <3> QED
      BY <1>4, <2>1, <3>2, <3>3 DEF Removals
  <2> QED
    BY <2>2, <2>3
<1>6. ASSUME NEW t \in Nodes, TargetGone(t) PROVE Removals'
  <2>1. Next1(t) /\ UNCHANGED <<pc, present, removed>>
    BY <1>6 DEF TargetGone
  <2> QED
    BY <1>4, <2>1 DEF Removals
<1>7. ASSUME NEW t \in Nodes, SingleTarget(t) PROVE Removals'
  <2>1. Next1(t) /\ chosen' = {t} /\ UNCHANGED <<present, removed>>
    BY <1>7 DEF SingleTarget
  <2> QED
    BY <1>4, <2>1, WithinSelf DEF Removals
<1>8. ASSUME NEW t \in Nodes, DirectoryTarget(t) PROVE Removals'
  <2>1. Next1(t) /\ UNCHANGED <<present, removed>>
    BY <1>8 DEF DirectoryTarget
  <2>2. chosen' \subseteq Within(t)
    BY <1>8, ItemsWithin DEF DirectoryTarget
  <2> QED
    BY <1>4, <2>1, <2>2 DEF Removals
<1>9. ASSUME NEW n \in Nodes, Process(n) PROVE Removals'
  <2>1. /\ pc \in {"scan", "call"} /\ n \in chosen
        /\ chosen' = chosen \ {n} /\ UNCHANGED <<pc, target>>
        /\ Untouched \/ Dispose(n)
    BY <1>9 DEF Process, Due
  <2>2. target \in Nodes /\ target # None /\ n \in Within(target)
    BY <2>1, WorldAssumption DEF Aimed, Removals
  <2>3. CASE Untouched
    BY <2>1, <2>3 DEF Removals, Untouched
  <2>4. CASE Dispose(n)
    BY <2>1, <2>2, <2>4 DEF Removals, Dispose
  <2> QED
    BY <2>1, <2>3, <2>4
<1>10. CASE RunReturns
  <2>1. UNCHANGED <<present, removed, target>> /\ pc' = "execute"
    BY <1>10 DEF RunReturns
  <2> QED
    BY <2>1 DEF Removals
<1>11. CASE NextOfMany \/ Finish
  BY <1>1, <1>11 DEF NextOfMany, Finish
<1>12. CASE Consent \/ Decline \/ Interrupt
  BY <1>1, <1>12 DEF Consent, Decline, Interrupt, Accept
<1>13. CASE Arrive \/ Deliver \/ EnterSet \/ LeaveSet \/ UNCHANGED vars
  BY <1>1, <1>13 DEF Arrive, Deliver, EnterSet, LeaveSet, vars, main
<1> QED
  BY <1>2, <1>3, <1>5, <1>6, <1>7, <1>8, <1>9, <1>10, <1>11, <1>12, <1>13
     DEF Next, Program, User, Handler, Finished

(* The number of targets. *)
LEMMA Targeted ==
    ASSUME command \in Commands
    PROVE  command.targets \in Seq(Paths) /\ Len(command.targets) \in Nat
           /\ DOMAIN command.targets = 1 .. Len(command.targets)
<1>1. command.targets \in Seq(Paths)
  BY CommandAssumption DEF Options
<1> QED
  BY <1>1

(* The target taken next comes after those that are through. *)
LEMMA NextGiven ==
    ASSUME command \in Commands, TypeOK, NEW m \in Nat, NEW w \in Nat, NEW ix,
           LinedUp(m, w, ix), NEW t, Next1(t)
    PROVE  /\ 1 \in DOMAIN queue /\ queue' = Tail(queue) /\ target' = t
           /\ ix[1] \in (m + 1) .. w /\ ix[1] \in DOMAIN command.targets /\ t = Given(ix[1])
<1>1. queue \in Seq(SUBSET Nodes) /\ queue # <<>> /\ t \in Head(queue) /\ target' = t
  BY DEF TypeOK, Next1
<1>2. 1 \in DOMAIN queue /\ Head(queue) = queue[1]
  BY <1>1
<1>3. ix[1] \in (m + 1) .. w /\ queue[1] = {Given(ix[1])}
  BY <1>2 DEF LinedUp
<1>4. Head(queue) = {t} /\ t = Given(ix[1])
  BY <1>1, <1>2, <1>3
<1>5. queue' = Tail(queue)
  BY <1>4 DEF Next1
<1>6. waiting \in Seq(Paths) /\ w + Len(waiting) = Len(command.targets)
  BY DEF TypeOK, LinedUp
<1>7. w <= Len(command.targets)
  <2> PICK l \in Nat : l = Len(waiting)
    BY <1>6
  <2> QED
    BY <1>6, Targeted
<1>8. ix[1] \in DOMAIN command.targets
  <2> PICK k \in Nat : k = Len(command.targets)
    BY Targeted
  <2>1. ix[1] \in 1 .. k
    BY <1>3, <1>7
  <2> QED
    BY <2>1, Targeted
<1> QED
  BY <1>1, <1>2, <1>3, <1>4, <1>5, <1>8

(* There is an order before a step. *)
LEMMA SomeOrder ==
    ASSUME command \in Commands, Ordered, Deletes
    PROVE  \E m, w, ix : m \in Nat /\ w \in Nat /\ ix = [k \in DOMAIN queue |-> ix[k]] /\ LinedUp(m, w, ix)
<1> PICK n \in Nat : n = Len(command.targets)
  BY Targeted
<1> PICK m \in 0 .. n, w \in 0 .. n : \E ix \in [DOMAIN queue -> 1 .. n] : LinedUp(m, w, ix)
  BY DEF Ordered
<1> PICK ix \in [DOMAIN queue -> 1 .. n] : LinedUp(m, w, ix)
  OBVIOUS
<1>1. ix = [k \in DOMAIN queue |-> ix[k]] /\ m \in Nat /\ w \in Nat
  OBVIOUS
<1> QED
  BY <1>1

(* Whatever order is found after a step is one of the targets. *)
LEMMA OrderedAfter ==
    ASSUME command \in Commands, command' = command, TypeOK', NEW m \in Nat, NEW w \in Nat, NEW ix,
           ix = [k \in DOMAIN queue' |-> ix[k]], LinedUp(m, w, ix)'
    PROVE  Ordered'
<1> PICK n \in Nat : n = Len(command.targets)
  BY Targeted
<1>0. waiting' \in Seq(Paths)
  BY DEF TypeOK
<1> PICK l \in Nat : l = Len(waiting')
  BY <1>0
<1>1. m <= w /\ w + l = n
  BY DEF LinedUp
<1>2. m \in 0 .. n /\ w \in 0 .. n
  BY <1>1
<1>3. \A k \in DOMAIN queue' : ix[k] \in (m + 1) .. w
  BY DEF LinedUp
<1>4. \A k \in DOMAIN queue' : ix[k] \in 1 .. n
  BY <1>1, <1>3
<1>5. ix \in [DOMAIN queue' -> 1 .. n]
  BY <1>4
<1> QED
  BY <1>2, <1>5 DEF Ordered

(* A target that waited is queued behind the others, or left out. *)
LEMMA OrderedRest ==
    ASSUME command \in Commands, TypeOK, NEW m \in Nat, NEW w \in Nat, NEW ix, LinedUp(m, w, ix),
           waiting # <<>>
    PROVE  /\ First = command.targets[w + 1]
           /\ (w + 1) + Len(Tail(waiting)) = Len(command.targets)
           /\ \A i \in DOMAIN Tail(waiting) : Tail(waiting)[i] = command.targets[(w + 1) + i]
<1>1. waiting \in Seq(Paths)
  BY DEF TypeOK
<1> PICK l \in Nat : l = Len(waiting)
  BY <1>1
<1>2. l > 0 /\ First = waiting[1] /\ 1 \in DOMAIN waiting
  BY <1>1 DEF First
<1>3. Len(Tail(waiting)) = l - 1 /\ DOMAIN Tail(waiting) = 1 .. l - 1
  BY <1>1, <1>2
<1>4. \A i \in 1 .. l - 1 : Tail(waiting)[i] = waiting[i + 1] /\ i + 1 \in DOMAIN waiting
  BY <1>1, <1>2
<1>5. \A i \in 1 .. l - 1 : w + (i + 1) = (w + 1) + i
  OBVIOUS
<1>6. w + l = Len(command.targets) /\ \A i \in DOMAIN waiting : waiting[i] = command.targets[w + i]
  BY DEF LinedUp
<1>7. (w + 1) + (l - 1) = Len(command.targets)
  BY <1>6
<1> QED
  BY <1>2, <1>3, <1>4, <1>5, <1>6, <1>7

(* A target that enters the queue comes after those that are in it.          *)
LEMMA OrderedAccept ==
    ASSUME command \in Commands, TypeOK, Ordered, Deletes, command' = command, TypeOK',
           waiting # <<>>, Accept, UNCHANGED <<target, removed>>
    PROVE  Ordered'
<1> PICK m, w, ix : m \in Nat /\ w \in Nat /\ LinedUp(m, w, ix)
  BY SomeOrder
<1>1. queue \in Seq(SUBSET Nodes)
  BY DEF TypeOK
<1> PICK q \in Nat : q = Len(queue)
  BY <1>1
<1> PICK S : S = {Object[First]}
  OBVIOUS
<1>2. queue' = Append(queue, S) /\ waiting' = Tail(waiting)
  BY DEF Accept
<1>3. DOMAIN queue' = 1 .. q + 1 /\ DOMAIN queue = 1 .. q
  BY <1>1, <1>2
<1>4. queue'[q + 1] = S /\ \A k \in 1 .. q : queue'[k] = queue[k]
  BY <1>1, <1>2
<1>5. /\ First = command.targets[w + 1]
      /\ (w + 1) + Len(waiting') = Len(command.targets)
      /\ \A i \in DOMAIN waiting' : waiting'[i] = command.targets[(w + 1) + i]
  BY <1>2, OrderedRest
<1> DEFINE jx == [k \in 1 .. q + 1 |-> IF k = q + 1 THEN w + 1 ELSE ix[k]]
<1>6. \A k \in 1 .. q + 1 : k = q + 1 \/ k \in 1 .. q
  OBVIOUS
<1>7. \A k \in 1 .. q : jx[k] = ix[k] /\ ix[k] \in (m + 1) .. w /\ ix[k] \in (m + 1) .. (w + 1) /\ ix[k] < w + 1
  <2>1. \A k \in 1 .. q : ix[k] \in (m + 1) .. w
    BY <1>3 DEF LinedUp
  <2>2. \A k \in 1 .. q : k \in 1 .. q + 1 /\ k # q + 1
    OBVIOUS
  <2>3. \A k \in 1 .. q : jx[k] = ix[k]
    BY <2>2
  <2> HIDE DEF jx
  <2> QED
    BY <2>1, <2>3
<1>8. jx[q + 1] = w + 1 /\ m <= w /\ w + 1 \in (m + 1) .. (w + 1)
  BY DEF LinedUp
<1>9. jx = [k \in DOMAIN queue' |-> jx[k]]
  BY <1>3
<1> HIDE DEF jx
<1>10. \A k \in DOMAIN queue' : jx[k] \in (m + 1) .. (w + 1) /\ queue'[k] = {Given(jx[k])}
  <2>1. S = {Given(w + 1)}
    BY <1>5 DEF Given
  <2>2. \A k \in 1 .. q : queue[k] = {Given(ix[k])}
    BY <1>3 DEF LinedUp
  <2> QED
    BY <1>3, <1>4, <1>6, <1>7, <1>8, <2>1, <2>2
<1>11. ASSUME NEW k \in DOMAIN queue', NEW l \in DOMAIN queue', k < l PROVE jx[k] < jx[l]
  <2>1. k \in 1 .. q
    BY <1>3, <1>11
  <2>2. CASE l = q + 1
    BY <1>7, <1>8, <2>1, <2>2
  <2>3. CASE l \in 1 .. q
    <3>1. ix[k] < ix[l]
      BY <1>3, <1>11, <2>1, <2>3 DEF LinedUp
    <3> QED
      BY <1>7, <2>1, <2>3, <3>1
  <2> QED
    BY <1>3, <1>6, <2>2, <2>3
<1>12. LinedUp(m, w + 1, jx)'
  <2>1. m <= w + 1
    BY <1>8
  <2>2. target' # None => \E i \in 1 .. m : target' = Given(i)
    BY DEF LinedUp
  <2>3. \A r \in removed' : \E i \in 1 .. m : r[2] = Given(i)
    BY DEF LinedUp
  <2> QED
    BY <1>5, <1>10, <1>11, <2>1, <2>2, <2>3 DEF LinedUp, Given
<1>13. w + 1 \in Nat
  OBVIOUS
<1> QED
  BY <1>9, <1>12, <1>13, OrderedAfter

(* A target that is passed over leaves the order as it is.                   *)
LEMMA OrderedSkip ==
    ASSUME command \in Commands, TypeOK, Ordered, Deletes, command' = command, TypeOK',
           waiting # <<>>, waiting' = Tail(waiting), UNCHANGED <<queue, target, removed>>
    PROVE  Ordered'
<1> PICK m, w, ix : m \in Nat /\ w \in Nat /\ ix = [k \in DOMAIN queue |-> ix[k]] /\ LinedUp(m, w, ix)
  BY SomeOrder
<1>1. \A k \in DOMAIN queue : ix[k] \in (m + 1) .. (w + 1) /\ m <= w + 1
  <2>1. \A k \in DOMAIN queue : ix[k] \in (m + 1) .. w
    BY DEF LinedUp
  <2> QED
    BY <2>1
<1>2. m <= w + 1 /\ w + 1 \in Nat
  BY DEF LinedUp
<1>3. LinedUp(m, w + 1, ix)'
  BY <1>1, <1>2, OrderedRest DEF LinedUp, Given
<1> QED
  BY <1>2, <1>3, OrderedAfter

(* The next target is the first of the queue.                                *)
LEMMA OrderedNext ==
    ASSUME command \in Commands, TypeOK, Ordered, Deletes, command' = command, TypeOK',
           NEW t, Next1(t), waiting' = waiting, \A r \in removed' : r \in removed \/ r[2] = t
    PROVE  Ordered'
<1> PICK m, w, ix : m \in Nat /\ w \in Nat /\ LinedUp(m, w, ix)
  BY SomeOrder
<1>1. /\ 1 \in DOMAIN queue /\ queue' = Tail(queue) /\ target' = t
      /\ ix[1] \in (m + 1) .. w /\ t = Given(ix[1])
  BY NextGiven
<1>2. queue \in Seq(SUBSET Nodes)
  BY DEF TypeOK
<1> PICK q \in Nat : q = Len(queue)
  BY <1>2
<1> PICK j \in Nat : j = ix[1] /\ m < j /\ j <= w
  BY <1>1
<1>3. q > 0 /\ DOMAIN queue = 1 .. q /\ DOMAIN queue' = 1 .. q - 1
  BY <1>1, <1>2
<1>4. \A k \in 1 .. q - 1 : queue'[k] = queue[k + 1] /\ k + 1 \in 1 .. q /\ 1 < k + 1
  BY <1>1, <1>2, <1>3
<1> DEFINE jx == [k \in 1 .. q - 1 |-> ix[k + 1]]
<1>5. \A k \in 1 .. q - 1 : jx[k] = ix[k + 1]
  OBVIOUS
<1>6. jx = [k \in DOMAIN queue' |-> jx[k]]
  BY <1>3
<1> HIDE DEF jx
<1>7. \A k \in 1 .. q - 1 : jx[k] \in (j + 1) .. w /\ queue'[k] = {Given(jx[k])}
  <2>1. \A k \in 1 .. q : ix[k] \in (m + 1) .. w /\ queue[k] = {Given(ix[k])} /\ (1 < k => ix[1] < ix[k])
    BY <1>1, <1>3 DEF LinedUp
  <2>2. \A k \in 1 .. q - 1 : ix[k + 1] \in (j + 1) .. w
    <3> SUFFICES ASSUME NEW k \in 1 .. q - 1 PROVE ix[k + 1] \in (j + 1) .. w
      OBVIOUS
    <3> PICK x \in Nat : x = ix[k + 1] /\ x <= w /\ j < x
      BY <1>4, <2>1
    <3> QED
      OBVIOUS
  <2> QED
    BY <1>4, <1>5, <2>1, <2>2
<1>8. ASSUME NEW k \in 1 .. q - 1, NEW l \in 1 .. q - 1, k < l PROVE jx[k] < jx[l]
  <2>1. k + 1 < l + 1
    BY <1>8
  <2>2. ix[k + 1] < ix[l + 1]
    BY <1>3, <1>4, <2>1 DEF LinedUp
  <2> QED
    BY <1>5, <2>2
<1>9. target' = Given(j) /\ j \in 1 .. j
  BY <1>1
<1>10. ASSUME NEW r \in removed' PROVE \E i \in 1 .. j : r[2] = Given(i)
  <2>1. CASE r \in removed
    <3> PICK i \in 1 .. m : r[2] = Given(i)
      BY <2>1 DEF LinedUp
    <3>1. i \in 1 .. j
      OBVIOUS
    <3> QED
      BY <3>1
  <2>2. CASE r[2] = t
    BY <1>1, <1>9, <2>2
  <2> QED
    BY <1>10, <2>1, <2>2
<1>11. LinedUp(j, w, jx)'
  <2>1. w + Len(waiting) = Len(command.targets) /\ \A i \in DOMAIN waiting : waiting[i] = command.targets[w + i]
    BY DEF LinedUp
  <2> QED
    BY <1>3, <1>7, <1>8, <1>9, <1>10, <2>1 DEF LinedUp, Given
<1> QED
  BY <1>6, <1>11, OrderedAfter

(* The targets are taken in their order. *)
LEMMA OrderedStep == IInv /\ Removals /\ Ordered /\ [Next]_vars => Ordered'
<1> SUFFICES ASSUME command \in Commands, TypeOK, TypeOK', command' = command, Prompted, Aimed,
                    Removals, Ordered, Deletes, [Next]_vars
             PROVE  Ordered'
  BY TypeStep DEF IInv, Ordered, Deletes
<1>1. CASE UNCHANGED <<waiting, queue, target, removed>>
  BY <1>1 DEF Ordered, LinedUp, Given
<1> USE DEF Exit, KeepAll, history
<1>2. CASE StartDelete \/ StartDu \/ Visit
  BY <1>1, <1>2 DEF StartDelete, StartDu, Visit
<1>3. CASE StartClean
  BY <1>3 DEF StartClean, Deletes, Kind
<1>4. CASE Inspect
  BY <1>1, <1>4, OrderedAccept DEF Inspect
<1>5. CASE InspectUnsafe \/ Confirmed
  BY <1>1, <1>5 DEF InspectUnsafe, Confirmed
<1>6. CASE InspectMissing
  BY <1>1, <1>6, OrderedSkip DEF InspectMissing
<1>7. ASSUME NEW t \in Nodes, TrashTarget(t) PROVE Ordered'
  <2>1. Next1(t) /\ waiting' = waiting
    BY <1>7 DEF TrashTarget
  <2>2. removed' = removed \/ removed' = removed \cup {<<n, t>> : n \in Within(t) \cap present}
    BY <1>7 DEF TrashTarget, Untouched
  <2>3. \A r \in removed' : r \in removed \/ r[2] = t
    BY <2>2
  <2> QED
    BY <2>1, <2>3, OrderedNext
<1>8. ASSUME NEW t \in Nodes, TargetGone(t) \/ SingleTarget(t) \/ DirectoryTarget(t) PROVE Ordered'
  <2>1. Next1(t) /\ UNCHANGED <<waiting, removed>>
    BY <1>8 DEF TargetGone, SingleTarget, DirectoryTarget
  <2> QED
    BY <2>1, OrderedNext
<1>9. ASSUME NEW n \in Nodes, Process(n) PROVE Ordered'
  <2>1. /\ UNCHANGED <<waiting, queue, target>>
        /\ removed' = removed \/ removed' = removed \cup {<<n, target>>}
    BY <1>9 DEF Process, Dispose, Untouched
  <2>2. target # None
    BY <1>9, WorldAssumption DEF Process, Aimed
  <2> PICK m \in 0 .. Len(command.targets), w \in 0 .. Len(command.targets),
           ix \in [DOMAIN queue -> 1 .. Len(command.targets)] : LinedUp(m, w, ix)
    BY DEF Ordered
  <2>3. PICK i \in 1 .. m : target = Given(i)
    BY <2>2 DEF LinedUp
  <2>4. \A r \in removed' : \E k \in 1 .. m : r[2] = Given(k)
    BY <2>1, <2>3 DEF LinedUp
  <2>5. LinedUp(m, w, ix)'
    BY <2>1, <2>4 DEF LinedUp, Given
  <2> QED
    BY <2>1, <2>5 DEF Ordered
<1>10. CASE RunReturns \/ NextOfMany \/ Finish
  BY <1>1, <1>10 DEF RunReturns, NextOfMany, Finish
<1>11. CASE Consent
  <2>1. waiting # <<>>
    BY <1>11 DEF Consent, Prompted
  <2> QED
    BY <1>1, <1>11, <2>1, OrderedAccept DEF Consent
<1>12. CASE Decline \/ Interrupt
  BY <1>1, <1>12 DEF Decline, Interrupt
<1>13. CASE Arrive \/ Deliver \/ EnterSet \/ LeaveSet \/ UNCHANGED vars
  BY <1>1, <1>13 DEF Arrive, Deliver, EnterSet, LeaveSet, vars, main
<1> QED
  BY <1>2, <1>3, <1>4, <1>5, <1>6, <1>7, <1>8, <1>9, <1>10, <1>11, <1>12, <1>13
     DEF Next, Program, User, Handler, Finished

(* A target is one of those that were given; one that is gone already was    *)
(* taken along by another.                                                   *)
LEMMA NextReason ==
    ASSUME command \in Commands, TypeOK, Removals, Ordered, Deletes, NEW t \in Nodes, Next1(t)
    PROVE  t \in Targets /\ (t \notin present => Overlapping)
<1> PICK m, w, ix : m \in Nat /\ w \in Nat /\ LinedUp(m, w, ix)
  BY SomeOrder
<1> PICK j : j = ix[1]
  OBVIOUS
<1>1. j \in (m + 1) .. w /\ j \in DOMAIN command.targets /\ t = Given(j)
  BY NextGiven
<1>2. t # None
  BY WorldAssumption
<1>3. t \in Targets
  BY <1>1, <1>2 DEF Targets, Named, Given
<1>4. ASSUME t \notin present PROVE Overlapping
  <2>1. PICK u \in Nodes : <<t, u>> \in removed
    BY <1>4 DEF Removals
  <2>2. t \in Within(u)
    BY <2>1 DEF Removals
  <2>3. u \in Up[t]
    BY <2>2 DEF Within
  <2>4. PICK i \in 1 .. m : u = Given(i)
    BY <2>1 DEF LinedUp
  <2> PICK n \in Nat : n = Len(command.targets) /\ DOMAIN command.targets = 1 .. n
    BY Targeted
  <2>5. i \in DOMAIN command.targets /\ i # j
    BY <1>1, <2>4
  <2> QED
    BY <1>1, <1>2, <2>3, <2>4, <2>5 DEF Overlapping, Given
<1> QED
  BY <1>3, <1>4

(* A place with l places after it out of n is one of the n. *)
LEMMA PlaceInside == \A w, l, n \in Nat : (w + 1) + l = n => w + 1 \in 1 .. n
  OBVIOUS

(* Whatever fails has a reason. *)
LEMMA BlamedStep == IInv /\ Removals /\ Ordered /\ Blamed /\ [Next]_vars => Blamed'
<1> SUFFICES ASSUME command \in Commands, TypeOK, command' = command, Prompted, Aimed, Settled,
                    Removals, Ordered, Blamed, [Next]_vars, Deletes
             PROVE  Blamed'
  BY TypeStep DEF IInv, Blamed, Deletes
<1>1. stats \in [DOMAIN NoStats -> Nat] /\ waiting \in Seq(Paths)
  BY DEF TypeOK
<1>2. Reasons' <=> Reasons
  BY DEF Reasons, Named, Targets, Overlapping
<1>3. CASE stats'.failed = stats.failed
  BY <1>2, <1>3 DEF Blamed
<1>4. CASE Reasons
  BY <1>2, <1>4 DEF Blamed
<1>5. ASSUME NEW n, Count(TypeCounter(n)) PROVE Blamed'
  <2>1. TypeCounter(n) \in {"files", "dirs"}
    BY DEF TypeCounter
  <2> QED
    BY <1>1, <1>3, <1>5, <2>1, CountFailed
<1>6. ASSUME NEW t \in Targets, t \in Stuck \cup Unreadable PROVE Reasons
  <2>1. t \in Nodes
    BY <1>6, WorldAssumption DEF Dirs
  <2>2. t \in Within(t)
    BY <2>1, WithinSelf
  <2> QED
    BY <1>6, <2>2 DEF Reasons
<1> USE DEF Exit, KeepAll
<1>7. CASE StartDelete \/ StartClean \/ StartDu \/ Visit
  BY <1>3, <1>7 DEF StartDelete, StartClean, StartDu, Visit
<1>8. CASE Inspect \/ InspectUnsafe \/ Confirmed
  BY <1>3, <1>8 DEF Inspect, InspectUnsafe, Confirmed, Accept
<1>9. CASE InspectMissing
  <2>1. CASE Kind("many")
    BY <1>3, <1>9, <2>1 DEF InspectMissing
  <2>2. CASE ~Kind("many")
    <3>1. waiting # <<>> /\ Kind("delete") /\ ~Reached(First)
      BY <1>9, <2>2 DEF InspectMissing, Deletes, Kind
    <3>2. First \in Paths
      BY <1>1, <3>1, TailType DEF First
    <3>3. present = Nodes
      BY <3>1 DEF Settled
    <3>4. Object[First] = None
      BY <3>1, <3>2, <3>3, WorldAssumption DEF Reached
    <3>5. First \in Named
      <4> PICK m, w, ix : m \in Nat /\ w \in Nat /\ LinedUp(m, w, ix)
        BY SomeOrder
      <4>0. Tail(waiting) \in Seq(Paths)
        BY <1>1, <3>1, TailType
      <4> PICK l \in Nat : l = Len(Tail(waiting))
        BY <4>0
      <4>1. First = command.targets[w + 1] /\ (w + 1) + l = Len(command.targets)
        BY <3>1, OrderedRest
      <4> PICK n \in Nat : n = Len(command.targets) /\ DOMAIN command.targets = 1 .. n
        BY Targeted
      <4>2. (w + 1) + l = n
        BY <4>1
      <4>3. w + 1 \in DOMAIN command.targets
        BY <4>2, PlaceInside
      <4> QED
        BY <4>1, <4>3 DEF Named
    <3> QED
      BY <1>4, <3>4, <3>5 DEF Reasons
  <2> QED
    BY <2>1, <2>2
<1>10. ASSUME NEW t \in Nodes, TrashTarget(t) PROVE Blamed'
  <2>1. Next1(t)
    BY <1>10 DEF TrashTarget
  <2>2. Count("files") \/ Count(TypeCounter(t)) \/ t \notin present \ Stuck
    BY <1>10 DEF TrashTarget
  <2>3. CASE Count("files")
    BY <1>1, <1>3, <2>3, CountFailed
  <2>4. CASE t \notin present \ Stuck
    <3>1. t \in Targets /\ (t \in Stuck \/ Overlapping)
      BY <2>1, <2>4, NextReason
    <3> QED
      BY <1>4, <1>6, <3>1 DEF Reasons
  <2> QED
    BY <1>5, <2>2, <2>3, <2>4
<1>11. ASSUME NEW t \in Nodes, TargetGone(t) PROVE Blamed'
  <2>1. Next1(t) /\ t \notin present
    BY <1>11 DEF TargetGone
  <2> QED
    BY <1>4, <2>1, NextReason DEF Reasons
<1>12. ASSUME NEW t \in Nodes, SingleTarget(t) \/ DirectoryTarget(t) PROVE Blamed'
  BY <1>3, <1>12 DEF SingleTarget, DirectoryTarget
<1>13. ASSUME NEW n \in Nodes, Process(n) PROVE Blamed'
  <2>1. /\ pc \in {"scan", "call"} /\ n \in chosen
        /\ UNCHANGED stats \/ Count(TypeCounter(n)) \/ n \in Stuck \cup Unreadable
    BY <1>13 DEF Process, Due, Dispose
  <2>2. CASE n \in Stuck \cup Unreadable
    <3>1. target \in Nodes /\ n \in Within(target)
      BY <2>1 DEF Aimed, Removals
    <3>2. target \in Targets
      <4> PICK m, w, ix : m \in Nat /\ w \in Nat /\ LinedUp(m, w, ix)
        BY SomeOrder
      <4>1. target # None
        BY <3>1, WorldAssumption
      <4>2. PICK i \in 1 .. m : target = Given(i)
        BY <4>1 DEF LinedUp
      <4> PICK l \in Nat : l = Len(waiting)
        BY <1>1
      <4> PICK k \in Nat : k = Len(command.targets) /\ DOMAIN command.targets = 1 .. k
        BY Targeted
      <4>3. m <= w /\ w + l = k
        BY DEF LinedUp
      <4>4. i \in DOMAIN command.targets
        BY <4>3
      <4> QED
        BY <4>1, <4>2, <4>4 DEF Targets, Named, Given
    <3> QED
      BY <1>4, <2>2, <3>1, <3>2 DEF Reasons
  <2> QED
    BY <1>3, <1>5, <2>1, <2>2
<1>14. CASE RunReturns \/ NextOfMany \/ Finish
  BY <1>3, <1>14 DEF RunReturns, NextOfMany, Finish
<1>15. CASE Consent \/ Decline \/ Interrupt
  BY <1>3, <1>15 DEF Consent, Decline, Interrupt, Accept
<1>16. CASE Arrive \/ Deliver \/ EnterSet \/ LeaveSet \/ UNCHANGED vars
  BY <1>3, <1>16 DEF Arrive, Deliver, EnterSet, LeaveSet, vars, main
<1> QED
  BY <1>7, <1>8, <1>9, <1>10, <1>11, <1>12, <1>13, <1>14, <1>15, <1>16
     DEF Next, Program, User, Handler, Finished

-----------------------------------------------------------------------------
(* Boundaries.                                                               *)

(* A scan that compares with the device of t yields nothing from another.    *)
LEMMA ItemsAtHome ==
    ASSUME NEW t \in Nodes, NEW f, f.oneFileSystem
    PROVE  Items(t, f, Entry[t].dev) \cap Foreign(t) = {}
<1>1. Entry[t].dev # None
  BY WorldAssumption
<1>2. ASSUME NEW d \in Opened(t, f, Entry[t].dev), NEW a \in Between(t, d), Entry[a].measured
      PROVE  Entry[a].dev = Entry[t].dev
  BY <1>1, <1>2 DEF Opened, ShouldTraverse
<1> SUFFICES ASSUME NEW n \in Items(t, f, Entry[t].dev), NEW a \in Between(t, n) \cap Dirs,
                    Entry[a].measured, Entry[a].dev # Entry[t].dev
             PROVE  FALSE
  BY DEF Foreign
<1>3. CASE n \in Opened(t, f, Entry[t].dev)
  BY <1>2, <1>3
<1>4. CASE n \in FileItems(t, f, Entry[t].dev)
  <2>1. n \in Nodes \ Dirs /\ Parent[n] \in Opened(t, f, Entry[t].dev)
    BY <1>4 DEF FileItems, Below, Within
  <2>2. n # Top /\ n # a
    BY <2>1, WorldAssumption
  <2>3. Up[n] = {n} \cup Up[Parent[n]]
    BY <2>1, <2>2, UpSteps
  <2>4. a \in Between(t, Parent[n])
    BY <2>2, <2>3 DEF Between
  <2> QED
    BY <1>2, <2>1, <2>4
<1> QED
  BY <1>3, <1>4 DEF Items, ScanErrors, DirItems

(* What the first target does to the device. *)
LEMMA OwnDeviceStep == IInv /\ Removals /\ Ordered /\ OwnDevice /\ [Next]_vars => OwnDevice'
<1> SUFFICES ASSUME TypeOK, command' = command, Prompted, Aimed, Settled, Removals, OwnDevice,
                    Bounded, [Next]_vars
             PROVE  OwnDevice'
  BY TypeStep DEF IInv, OwnDevice, Bounded, Deletes, Filter, Given, Kind
<1>1. /\ target = None => \/ queue = <<>> /\ waiting = command.targets
                          \/ queue # <<>> /\ queue[1] = {Given(1)}
      /\ target = None => baseDev = None
      /\ target # None /\ Given(1) \in Dirs => baseDev = Entry[Given(1)].dev
      /\ pc \in {"scan", "call"} /\ target = Given(1) => chosen \cap Foreign(target) = {}
      /\ \A r \in removed : r[2] = Given(1) => r[1] \notin Foreign(r[2])
  BY DEF OwnDevice
<1>2. Given(1)' = Given(1) /\ Given(1) \in Nodes
  BY DEF Given, Bounded
<1>3. waiting \in Seq(Paths) /\ queue \in Seq(SUBSET Nodes)
  BY DEF TypeOK
<1>4. target = None => present = Nodes
  BY DEF Removals, Settled
<1>5. CASE /\ UNCHANGED <<waiting, queue, target, baseDev, chosen, removed>>
           /\ pc' \in {"scan", "call"} => pc' = pc
  BY <1>1, <1>2, <1>5 DEF OwnDevice
<1>6. ASSUME Accept, waiting # <<>>, UNCHANGED <<target, baseDev, chosen, removed>>
      PROVE  OwnDevice'
  <2>1. queue' = Append(queue, {Object[First]}) /\ pc' \notin {"scan", "call"}
    BY <1>6 DEF Accept
  <2>2. queue' # <<>>
    BY <1>3, <2>1
  <2>3. queue # <<>> => queue'[1] = queue[1]
    BY <1>3, <2>1
  <2>4. queue = <<>> => queue'[1] = {Object[First]}
    BY <1>3, <2>1
  <2>5. waiting = command.targets => Object[First] = Given(1)
    BY <1>3, <1>6 DEF Given, First
  <2> QED
    BY <1>1, <1>2, <1>6, <2>1, <2>2, <2>3, <2>4, <2>5 DEF OwnDevice
<1>7. ASSUME NEW t \in Nodes, Next1(t)
      PROVE  /\ target' = t /\ t # None /\ pc = "execute"
             /\ target = None => t = Given(1) /\ t \in present
  <2>1. queue # <<>> /\ t \in queue[1] /\ target' = t /\ pc = "execute"
    BY <1>3, <1>7 DEF Next1
  <2> QED
    BY <1>1, <1>4, <2>1, WorldAssumption
<1> USE DEF Exit, KeepAll, history
<1>8. CASE StartDelete \/ StartDu \/ Visit
  BY <1>5, <1>8 DEF StartDelete, StartDu, Visit
<1>9. CASE StartClean
  BY <1>9 DEF StartClean, Bounded, Deletes, Kind
<1>10. CASE Inspect
  <2>1. CASE Asks
    BY <1>5, <1>10, <2>1 DEF Inspect
  <2>2. CASE ~Asks
    BY <1>6, <1>10, <2>2 DEF Inspect
  <2> QED
    BY <2>1, <2>2
<1>11. CASE InspectUnsafe \/ Confirmed
  BY <1>5, <1>11 DEF InspectUnsafe, Confirmed
<1>12. CASE InspectMissing
  <2>1. waiting # <<>> /\ ~Reached(First) /\ UNCHANGED <<queue, target, baseDev, chosen, removed>>
        /\ pc' \notin {"scan", "call"}
    BY <1>12 DEF InspectMissing
  <2>2. waiting = command.targets => Object[First] = Given(1)
    BY <1>3, <2>1 DEF Given, First
  <2>3. target = None => waiting # command.targets
    BY <1>2, <1>4, <2>1, <2>2 DEF Reached
  <2> QED
    BY <1>1, <1>2, <2>1, <2>3 DEF OwnDevice
<1>13. ASSUME NEW t \in Nodes, TargetGone(t) PROVE OwnDevice'
  <2>1. Next1(t) /\ t \notin present /\ pc' = pc /\ UNCHANGED <<baseDev, removed>>
    BY <1>13 DEF TargetGone
  <2> QED
    BY <1>1, <1>2, <1>7, <2>1 DEF OwnDevice
<1>14. ASSUME NEW t \in Nodes, SingleTarget(t) PROVE OwnDevice'
  <2>1. Next1(t) /\ t \notin Dirs /\ chosen' = {t} /\ UNCHANGED <<baseDev, removed>>
    BY <1>14 DEF SingleTarget
  <2>2. {t} \cap Foreign(t) = {}
    BY DEF Foreign, Below
  <2> QED
    BY <1>1, <1>2, <1>7, <2>1, <2>2 DEF OwnDevice
<1>15. ASSUME NEW t \in Nodes, DirectoryTarget(t) PROVE OwnDevice'
  <2>1. Next1(t) /\ removed' = removed
    BY <1>15 DEF DirectoryTarget
  <2>2. Filter.oneFileSystem /\ HasFilters(Filter)
    BY DEF Bounded, HasFilters, NoFilter
  <2>3. baseDev' = BaseDev(t) /\ chosen' \subseteq Items(t, Filter, baseDev')
    BY <1>15, <2>2 DEF DirectoryTarget
  <2>4. target = None => baseDev' = Entry[Given(1)].dev
    BY <1>1, <1>7, <2>1, <2>2, <2>3 DEF BaseDev
  <2>5. target # None /\ Given(1) \in Dirs => baseDev' = Entry[Given(1)].dev
    BY <1>1, <1>2, <2>3, WorldAssumption DEF BaseDev
  <2>6. Given(1) \in Dirs => baseDev' = Entry[Given(1)].dev
    BY <2>4, <2>5
  <2>7. t \in Dirs
    BY <1>15 DEF DirectoryTarget
  <2>8. t = Given(1) => chosen' \cap Foreign(t) = {}
    BY <2>2, <2>3, <2>6, <2>7, ItemsAtHome
  <2> QED
    BY <1>1, <1>2, <1>7, <2>1, <2>6, <2>8 DEF OwnDevice
<1>16. ASSUME NEW t \in Nodes, TrashTarget(t) PROVE FALSE
  BY <1>16 DEF TrashTarget, Bounded
<1>17. ASSUME NEW n \in Nodes, Process(n) PROVE OwnDevice'
  <2>1. /\ pc \in {"scan", "call"} /\ n \in chosen
        /\ chosen' = chosen \ {n} /\ UNCHANGED <<pc, waiting, queue, target, baseDev>>
        /\ removed' = removed \/ removed' = removed \cup {<<n, target>>}
    BY <1>17 DEF Process, Due, Dispose, Untouched
  <2>2. target = Given(1) => n \notin Foreign(target)
    BY <1>1, <2>1
  <2>3. \A r \in removed' : r[2] = Given(1) => r[1] \notin Foreign(r[2])
    BY <1>1, <2>1, <2>2
  <2> QED
    BY <1>1, <1>2, <2>1, <2>3 DEF OwnDevice
<1>18. CASE RunReturns
  <2>1. UNCHANGED <<waiting, queue, target, baseDev, removed>> /\ pc' = "execute"
    BY <1>18 DEF RunReturns
  <2> QED
    BY <1>1, <1>2, <2>1 DEF OwnDevice
<1>19. CASE NextOfMany \/ Finish
  BY <1>5, <1>19 DEF NextOfMany, Finish
<1>20. CASE Consent
  <2>1. waiting # <<>> /\ UNCHANGED <<target, baseDev, chosen, removed>>
    BY <1>20 DEF Consent, Prompted
  <2>2. CASE pc = "prompt" /\ Twice
    BY <1>5, <1>20, <2>2 DEF Consent
  <2>3. CASE ~(pc = "prompt" /\ Twice)
    BY <1>6, <1>20, <2>1, <2>3 DEF Consent
  <2> QED
    BY <2>2, <2>3
<1>21. CASE Decline \/ Interrupt
  BY <1>5, <1>21 DEF Decline, Interrupt
<1>22. CASE Arrive \/ Deliver \/ EnterSet \/ LeaveSet \/ UNCHANGED vars
  BY <1>5, <1>22 DEF Arrive, Deliver, EnterSet, LeaveSet, vars, main
<1> QED
  BY <1>8, <1>9, <1>10, <1>11, <1>12, <1>13, <1>14, <1>15, <1>16, <1>17, <1>18, <1>19, <1>20,
     <1>21, <1>22 DEF Next, Program, User, Handler, Finished

(* The filter of the command is one.                                         *)
LEMMA FilterType ==
    ASSUME command \in Commands
    PROVE  Deletes => IsFilter(Filter)
<1>1. IsFilter(command.filter) /\ DOMAIN command.filter = DOMAIN NoFilter
  BY CommandAssumption DEF IsFilter
<1> SUFFICES ASSUME NEW exists, NEW g, g = BuildFilter(command.filter, exists) PROVE IsFilter(g)
  BY DEF Filter, Deletes, Kind
<1> PICK f : f = command.filter
  OBVIOUS
<1>2. g = [f EXCEPT !.ignore = IF exists THEN @ ELSE None]
  BY DEF BuildFilter
<1>3. DOMAIN f = DOMAIN NoFilter /\ IsFilter(f)
  BY <1>1
<1>4. {"minSize", "maxSize", "minDepth", "maxDepth", "older", "newer", "ignore"} \subseteq DOMAIN f
  BY <1>3 DEF NoFilter
<1>5. /\ g.minSize = f.minSize /\ g.maxSize = f.maxSize /\ g.minDepth = f.minDepth
      /\ g.maxDepth = f.maxDepth /\ g.older = f.older /\ g.newer = f.newer
      /\ DOMAIN g = DOMAIN f
  BY <1>2, <1>4
<1>6. g.ignore = f.ignore \/ g.ignore = None
  BY <1>2, <1>4
<1>7. Limits(g) = Limits(f)
  BY <1>5 DEF Limits
<1> QED
  BY <1>3, <1>5, <1>6, <1>7 DEF IsFilter

(* Only what a scan yields is deleted in a directory.                        *)
LEMMA SparingStep == IInv /\ Sparing /\ [Next]_vars => Sparing'
<1> SUFFICES ASSUME command \in Commands, command' = command, Aimed, Sparing, Deletes, ~command.trash,
                    [Next]_vars
             PROVE  Sparing'
  BY TypeStep DEF IInv, Sparing, Deletes
<1>1. /\ pc \in {"scan", "call"} /\ target \in Dirs =>
             (chosen \ Unreadable) \cap PassedOver(Filter, target) = {}
      /\ \A r \in removed : r[2] \in Dirs => r[1] \notin PassedOver(Filter, r[2])
  BY DEF Sparing
<1>2. Filter' = Filter
  BY DEF Filter, Kind
<1> PICK f : f = Filter
  OBVIOUS
<1>3. /\ pc \in {"scan", "call"} /\ target \in Dirs => (chosen \ Unreadable) \cap PassedOver(f, target) = {}
      /\ \A r \in removed : r[2] \in Dirs => r[1] \notin PassedOver(f, r[2])
  BY <1>1
<1>4. SUFFICES /\ pc' \in {"scan", "call"} /\ target' \in Dirs
                     => (chosen' \ Unreadable) \cap PassedOver(f, target') = {}
               /\ \A r \in removed' : r[2] \in Dirs => r[1] \notin PassedOver(f, r[2])
  BY <1>2, <1>4 DEF Sparing
<1>5. CASE UNCHANGED <<target, chosen, removed>> /\ (pc' \in {"scan", "call"} => pc' = pc)
  BY <1>3, <1>5
<1> USE DEF Exit, KeepAll, history
<1>6. CASE StartDelete \/ StartClean \/ StartDu \/ Visit
  BY <1>5, <1>6 DEF StartDelete, StartClean, StartDu, Visit
<1>7. CASE Inspect \/ InspectUnsafe \/ InspectMissing \/ Confirmed
  BY <1>5, <1>7 DEF Inspect, InspectUnsafe, InspectMissing, Confirmed, Accept
<1>8. ASSUME NEW t \in Nodes, TrashTarget(t) PROVE FALSE
  BY <1>8 DEF TrashTarget
<1>9. ASSUME NEW t \in Nodes, TargetGone(t)
      PROVE  pc' = "execute" /\ removed' = removed
  BY <1>9 DEF TargetGone, Next1
<1>10. ASSUME NEW t \in Nodes, SingleTarget(t)
       PROVE  target' \notin Dirs /\ removed' = removed
  BY <1>10 DEF SingleTarget, Next1
<1>11. ASSUME NEW t \in Nodes, DirectoryTarget(t)
       PROVE  target' = t /\ removed' = removed /\ (chosen' \ Unreadable) \cap PassedOver(f, t) = {}
  <2>1. \A dev : (Items(t, f, dev) \ Unreadable) \cap PassedOver(f, t) = {}
    BY FilterType, ItemsSelected
  <2>2. \E dev : chosen' \subseteq Items(t, f, dev)
    BY <1>11 DEF DirectoryTarget, HasFilters
  <2> QED
    BY <1>11, <2>1, <2>2 DEF DirectoryTarget, Next1
<1>12. ASSUME NEW n \in Nodes, Process(n)
       PROVE  /\ pc \in {"scan", "call"} /\ target' = target /\ chosen' \subseteq chosen
              /\ \/ removed' = removed
                 \/ n \in chosen \ Unreadable /\ removed' = removed \cup {<<n, target>>}
  BY <1>12 DEF Process, Due, Untouched, Dispose
<1>13. CASE RunReturns
  BY <1>3, <1>13 DEF RunReturns
<1>14. CASE NextOfMany \/ Finish
  BY <1>5, <1>14 DEF NextOfMany, Finish
<1>15. CASE Consent \/ Decline \/ Interrupt
  BY <1>5, <1>15 DEF Consent, Decline, Interrupt, Accept
<1>16. CASE Arrive \/ Deliver \/ EnterSet \/ LeaveSet \/ UNCHANGED vars
  BY <1>5, <1>16 DEF Arrive, Deliver, EnterSet, LeaveSet, vars, main
<1>17. CASE \E t \in Nodes : TargetGone(t) \/ SingleTarget(t) \/ DirectoryTarget(t)
  BY <1>3, <1>9, <1>10, <1>11, <1>17
<1>18. CASE \E n \in Nodes : Process(n)
  BY <1>3, <1>12, <1>18
<1> QED
  BY <1>6, <1>7, <1>8, <1>13, <1>14, <1>15, <1>16, <1>17, <1>18 DEF Next, Program, User, Handler, Finished

-----------------------------------------------------------------------------
(* All that is selected.                                                     *)

(* Nothing loses its directory. *)
LEMMA GroundedStep == IInv /\ Grounded /\ [Next]_vars => Grounded'
<1> SUFFICES ASSUME present \subseteq Nodes, Grounded, [Next]_vars PROVE Grounded'
  BY DEF IInv, TypeOK
<1>1. CASE present' = present
  BY <1>1 DEF Grounded
<1> USE DEF KeepAll, Untouched
<1>2. CASE StartDelete \/ StartClean \/ StartDu \/ Visit
  BY <1>1, <1>2 DEF StartDelete, StartClean, StartDu, Visit
<1>3. CASE Inspect \/ InspectUnsafe \/ InspectMissing \/ Confirmed
  BY <1>1, <1>3 DEF Inspect, InspectUnsafe, InspectMissing, Confirmed
<1>4. ASSUME NEW t \in Nodes, TrashTarget(t) PROVE Grounded'
  <2>1. present' = present \/ present' = present \ Within(t)
    BY <1>4 DEF TrashTarget
  <2>2. ASSUME NEW n \in Nodes \ {Top}, Parent[n] \in Within(t) PROVE n \in Within(t)
    BY <2>2, UpSteps DEF Within
  <2> QED
    BY <1>1, <2>1, <2>2 DEF Grounded
<1>5. ASSUME NEW t \in Nodes, TargetGone(t) \/ SingleTarget(t) \/ DirectoryTarget(t) PROVE Grounded'
  BY <1>1, <1>5 DEF TargetGone, SingleTarget, DirectoryTarget
<1>6. ASSUME NEW n \in Nodes, Process(n) PROVE Grounded'
  <2>1. \/ present' = present
        \/ present' = present \ {n} /\ Children(n) \cap present = {}
    BY <1>6 DEF Process, Dispose
  <2> QED
    BY <1>1, <2>1 DEF Grounded, Children
<1>7. CASE RunReturns \/ NextOfMany \/ Finish
  BY <1>1, <1>7 DEF RunReturns, NextOfMany, Finish
<1>8. CASE Consent \/ Decline \/ Interrupt
  BY <1>1, <1>8 DEF Consent, Decline, Interrupt
<1>9. CASE Arrive \/ Deliver \/ EnterSet \/ LeaveSet \/ UNCHANGED vars
  BY <1>1, <1>9 DEF Arrive, Deliver, EnterSet, LeaveSet, vars, main
<1> QED
  BY <1>2, <1>3, <1>4, <1>5, <1>6, <1>7, <1>8, <1>9 DEF Next, Program, User, Handler, Finished

(* All that an entry is in exists with it. *)
LEMMA GroundedUp ==
    ASSUME present \subseteq Nodes, Grounded
    PROVE  \A n \in present : Up[n] \subseteq present
<1> DEFINE S == {n \in Nodes : n \in present => Up[n] \subseteq present}
<1>1. Top \in S
  BY UpSteps, WorldAssumption DEF Dirs
<1>2. ASSUME NEW n \in Nodes \ {Top}, Parent[n] \in S PROVE n \in S
  BY <1>2, UpSteps DEF Grounded
<1> HIDE DEF S
<1>3. Nodes \subseteq S
  BY <1>1, <1>2, Downwards
<1> QED
  BY <1>3 DEF S

(* What is selected in a target is in it, and does not change.               *)
LEMMA SelectedWithin ==
    ASSUME NEW t
    PROVE  Selected(t) \subseteq Within(t)
BY DEF Selected

LEMMA SelectedStays ==
    ASSUME NEW t, command' = command
    PROVE  Selected(t)' = Selected(t)
<1>1. Filter' = Filter
  BY DEF Filter, Kind
<1>2. Skipped(Filter, t)' = Skipped(Filter, t)
  BY <1>1 DEF Skipped, SparedBy, OfOtherType, AsSocket, NoSocket, NotEmptyFile, NoRegularFile
<1> QED
  BY <1>1, <1>2 DEF Selected

(* Taking t leaves the others to come. *)
LEMMA NextToCome ==
    ASSUME TypeOK, NEW t \in Nodes, Next1(t), UNCHANGED waiting, NEW u \in Nodes, u # t, ToCome(u)
    PROVE  ToCome(u)'
<1>1. queue \in Seq(SUBSET Nodes) /\ queue # <<>>
  BY DEF TypeOK, Next1
<1>2. CASE \E i \in DOMAIN waiting : Object[waiting[i]] = u
  BY <1>2 DEF ToCome
<1>3. CASE \E k \in DOMAIN queue : u \in queue[k]
  <2> PICK k \in DOMAIN queue : u \in queue[k]
    BY <1>3
  <2>1. CASE Head(queue) = {t}
    <3>1. queue' = Tail(queue) /\ queue[k] # Head(queue)
      BY <2>1 DEF Next1
    <3>2. \E j \in DOMAIN Tail(queue) : Tail(queue)[j] = queue[k]
      BY <1>1, <3>1, TailRest
    <3> QED
      BY <3>1, <3>2 DEF ToCome
  <2>2. CASE Head(queue) # {t}
    <3> PICK q \in Seq(SUBSET Nodes) : q = queue
      BY <1>1
    <3>1. queue' = [q EXCEPT ![1] = @ \ {t}]
      BY <2>2 DEF Next1
    <3>2. k \in DOMAIN queue' /\ u \in queue'[k]
      BY <1>1, <3>1
    <3> QED
      BY <3>2 DEF ToCome
  <2> QED
    BY <2>1, <2>2
<1> QED
  BY <1>2, <1>3 DEF ToCome

(* A target that is queued is still to come. *)
LEMMA AcceptToCome ==
    ASSUME TypeOK, waiting # <<>>, Accept, NEW u \in Nodes, ToCome(u)
    PROVE  ToCome(u)'
<1>1. /\ queue \in Seq(SUBSET Nodes) /\ waiting \in Seq(Paths)
      /\ queue' = Append(queue, {Object[First]}) /\ waiting' = Tail(waiting)
  BY DEF TypeOK, Accept
<1>2. CASE \E i \in DOMAIN waiting : Object[waiting[i]] = u
  <2> PICK i \in DOMAIN waiting : Object[waiting[i]] = u
    BY <1>2
  <2>1. CASE waiting[i] = First
    <3> PICK q \in Seq(SUBSET Nodes) : q = queue
      BY <1>1
    <3>1. queue' = Append(q, {u})
      BY <1>1, <2>1
    <3>2. Len(q) + 1 \in DOMAIN queue' /\ queue'[Len(q) + 1] = {u}
      BY <3>1
    <3> QED
      BY <3>2 DEF ToCome
  <2>2. CASE waiting[i] # First
    <3>1. \E j \in DOMAIN Tail(waiting) : Tail(waiting)[j] = waiting[i]
      BY <1>1, <2>2, TailRest DEF First
    <3> QED
      BY <1>1, <3>1 DEF ToCome
  <2> QED
    BY <2>1, <2>2
<1>3. CASE \E k \in DOMAIN queue : u \in queue[k]
  <2> PICK q \in Seq(SUBSET Nodes) : q = queue
    BY <1>1
  <2> PICK k \in DOMAIN q : u \in q[k]
    BY <1>3
  <2>1. k \in DOMAIN queue' /\ queue'[k] = q[k]
    BY <1>1
  <2> QED
    BY <2>1 DEF ToCome
<1> QED
  BY <1>2, <1>3 DEF ToCome

(* A directory that is not compared with another one's device is compared    *)
(* with its own.                                                             *)
LEMMA DeviceOfOne ==
    ASSUME command \in Commands, command' = command, TypeOK', Ordered', OwnDevice',
           Deletes, ~Exempt, Filter.oneFileSystem, ~command.trash,
           NEW t \in Dirs, target' = t
    PROVE  baseDev' = Entry[t].dev
<1>1. /\ Deletes' /\ Filter' = Filter /\ t \in Nodes /\ t # None
      /\ \A i : Given(i)' = Given(i)
  BY WorldAssumption DEF Deletes, Filter, Kind, Dirs, Given
<1>2. waiting' \in Seq(Paths)
  BY DEF TypeOK
<1> PICK n \in Nat : n = Len(command.targets)
  BY Targeted
<1> PICK l \in Nat : l = Len(waiting')
  BY <1>2
<1>3. n <= 1
  BY DEF Exempt
<1>4. \E m \in 0 .. n, w \in 0 .. n : m <= w /\ w + l = n /\ \E i \in 1 .. m : t = Given(i)
  BY <1>1 DEF Ordered, LinedUp
<1> PICK m \in 0 .. n : \E i \in 1 .. m : t = Given(i)
  BY <1>4
<1> PICK i \in 1 .. m : t = Given(i)
  OBVIOUS
<1>5. n = 1 /\ t = Given(1)
  <2>1. \A x \in Nat : \A y \in 0 .. x : \A z \in 1 .. y : x <= 1 => z = 1 /\ x = 1
    OBVIOUS
  <2>2. i = 1 /\ n = 1
    BY <1>3, <2>1
  <2> QED
    BY <2>2
<1>6. Bounded'
  BY <1>1, <1>5 DEF Bounded
<1> QED
  BY <1>1, <1>5, <1>6 DEF OwnDevice

(* A run of FastDeleter in a directory begins with what the scan yields, and *)
(* the scan compares with the directory's own device.                        *)
LEMMA RunScans ==
    ASSUME command \in Commands, command' = command, TypeOK', Ordered', OwnDevice',
           Deletes, ~Exempt, NEW t \in Nodes, DirectoryTarget(t), NEW f, f = Filter
    PROVE  \E dev : chosen' = Items(t, f, dev) \cap present /\ (f.oneFileSystem => dev = Entry[t].dev)
<1>1. t \in Dirs /\ target' = t /\ ~command.trash
  BY DEF DirectoryTarget, Next1
<1>2. CASE command.plain /\ ~HasFilters(f)
  <2>1. f = NoFilter /\ ~f.oneFileSystem
    BY <1>2 DEF HasFilters, NoFilter
  <2>2. chosen' = Items(t, f, None) \cap present
    BY <1>2, <2>1 DEF DirectoryTarget
  <2> QED
    BY <1>1, <2>1, <2>2
<1>3. CASE ~(command.plain /\ ~HasFilters(f))
  <2>1. chosen' = Items(t, f, baseDev') \cap present
    BY <1>3 DEF DirectoryTarget
  <2>2. f.oneFileSystem => baseDev' = Entry[t].dev
    BY <1>1, DeviceOfOne
  <2> QED
    BY <1>1, <2>1, <2>2
<1> QED
  BY <1>2, <1>3

(* What a run of FastDeleter begins with is all that is selected, or what is *)
(* not lies in a directory whose error it begins with.                       *)
LEMMA RunBegins ==
    ASSUME command \in Commands, command' = command, TypeOK, TypeOK', Grounded, Ordered', OwnDevice',
           Deletes, ~Exempt, NEW t \in Nodes, SingleTarget(t) \/ DirectoryTarget(t),
           NEW n \in Selected(t) \cap present
    PROVE  Coming(n, t)'
<1>0. n \in Nodes /\ n \in Within(t) /\ n \in present /\ present \subseteq Nodes
  BY SelectedWithin DEF TypeOK
<1>1. CASE SingleTarget(t)
  <2>1. t \in Nodes \ Dirs /\ pc' = "scan" /\ target' = t /\ chosen' = {t}
    BY <1>1 DEF SingleTarget, Next1
  <2>2. n = t
    BY <1>0, <2>1, WithinFile
  <2> QED
    BY <2>1, <2>2 DEF Coming
<1>2. CASE DirectoryTarget(t)
  <2>1. t \in Dirs /\ pc' \in {"scan", "call"} /\ target' = t /\ ~command.trash
    BY <1>2 DEF DirectoryTarget, Next1
  <2> PICK f : f = Filter /\ IsFilter(f)
    BY FilterType
  <2>2. n \in Within(t) \ PassedOver(f, t) /\ (f.oneFileSystem => n \notin Foreign(t))
    BY <2>1, SamePassedOver DEF Selected
  <2> PICK dev : chosen' = Items(t, f, dev) \cap present /\ (f.oneFileSystem => dev = Entry[t].dev)
    BY <1>2, RunScans
  <2>3. n \in Items(t, f, dev) \/ \E d \in Items(t, f, dev) \cap Unreadable : d \in Up[n]
    BY <2>1, <2>2, ScanComplete
  <2>4. Up[n] \subseteq present
    BY <1>0, GroundedUp
  <2> QED
    BY <1>0, <2>1, <2>3, <2>4 DEF Coming
<1> QED
  BY <1>1, <1>2

(* What was selected stays accounted for.                                    *)
LEMMA CompleteStep ==
    IInv /\ IInv' /\ OInv /\ Grounded' /\ Ordered' /\ OwnDevice' /\ [Next]_vars => Complete'
<1> SUFFICES ASSUME TypeOK, TypeOK', command \in Commands, command' = command, Prompted, Aimed, Settled,
                    Alarmed, Grounded, Complete, Ordered', OwnDevice', [Next]_vars,
                    Faultless'
             PROVE  Complete'
  BY TypeStep DEF IInv, OInv, Complete
<1>1. /\ waiting \in Seq(Paths) /\ queue \in Seq(SUBSET Nodes) /\ present \subseteq Nodes
      /\ stats \in [DOMAIN NoStats -> Nat] /\ stats.failed \in Nat
  BY DEF TypeOK, NoStats
<1>2. /\ Deletes /\ stats'.failed = 0 /\ ~event' /\ ~command.dryRun /\ ~Exempt
      /\ Targets' = Targets /\ Targets \subseteq Nodes /\ \A t : Selected(t)' = Selected(t)
  <2>1. Filter' = Filter /\ Targets' = Targets
    BY DEF Filter, Kind, Targets, Named
  <2>2. \A t : Selected(t)' = Selected(t)
    BY SelectedStays
  <2>3. Targets \subseteq Nodes
    BY Targeted, WorldAssumption DEF Targets, Named
  <2> QED
    BY <2>1, <2>2, <2>3 DEF Faultless, Deletes, Exempt, Kind
<1> SUFFICES ASSUME NEW t \in Targets, ~ToCome(t)', NEW n \in Selected(t) \cap present'
             PROVE  HadToStay(n, t) \/ Coming(n, t)'
  BY <1>2 DEF Complete, HadToStay
<1>3. t \in Nodes /\ n \in Nodes
  BY <1>1, <1>2, SelectedWithin DEF Within
<1>4. ASSUME stats.failed = 0, ~event, ~ToCome(t), n \in present
      PROVE  HadToStay(n, t) \/ Coming(n, t)
  BY <1>2, <1>4 DEF Complete, Faultless
<1>5. CASE /\ UNCHANGED <<waiting, queue, target, chosen, present, stats>> /\ ~event
           /\ pc \in {"scan", "call"} => pc' \in {"scan", "call"}
  BY <1>2, <1>4, <1>5 DEF ToCome, Coming
<1>6. CASE /\ Accept /\ waiting # <<>> /\ ~event /\ UNCHANGED <<target, chosen, present, stats>>
           /\ pc \notin {"scan", "call"}
  BY <1>2, <1>3, <1>4, <1>6, AcceptToCome DEF Coming
<1>7. ASSUME NEW k \in {"files", "dirs", "failed"}, Count(k)
      PROVE  k # "failed" /\ stats.failed = 0
  <2> PICK f \in Nat : f = stats.failed /\ (k = "failed" => stats'.failed = f + 1)
                        /\ (k # "failed" => stats'.failed = f)
    BY <1>1, <1>7, CountFailed
  <2> QED
    BY <1>2
<1> USE DEF Exit, KeepAll, history
<1>8. CASE StartDelete
  BY <1>2, <1>5, <1>8 DEF StartDelete, signals
<1>9. CASE StartClean \/ StartDu
  BY <1>2, <1>9 DEF StartClean, StartDu, Deletes, Kind
<1>10. CASE Visit
  BY <1>2, <1>5, <1>10 DEF Visit, signals
<1>11. CASE Inspect
  <2>1. CASE Asks
    BY <1>2, <1>5, <1>11, <2>1 DEF Inspect, signals
  <2>2. CASE ~Asks
    BY <1>2, <1>6, <1>11, <2>2 DEF Inspect, signals
  <2> QED
    BY <2>1, <2>2
<1>12. CASE InspectUnsafe \/ Confirmed
  BY <1>2, <1>5, <1>12 DEF InspectUnsafe, Confirmed, signals
<1>13. CASE InspectMissing
  <2>1. CASE Kind("many")
    BY <1>2, <1>5, <1>13, <2>1 DEF InspectMissing, signals
  <2>2. CASE ~Kind("many")
    BY <1>7, <1>13, <2>2 DEF InspectMissing
  <2> QED
    BY <2>1, <2>2
<1>14. ASSUME NEW u \in Nodes, Next1(u), UNCHANGED waiting, stats.failed = 0, u # t, present' \subseteq present
       PROVE  HadToStay(n, t)
  <2>1. ~ToCome(t) /\ ~event /\ pc = "execute"
    BY <1>3, <1>14, NextToCome DEF Next1
  <2> QED
    BY <1>4, <1>14, <2>1 DEF Coming
<1>15. ASSUME NEW u \in Nodes, TrashTarget(u) PROVE HadToStay(n, t)
  <2>1. Next1(u) /\ UNCHANGED waiting
    BY <1>15 DEF TrashTarget
  <2>2. Count(TypeCounter(u)) /\ present' = present \ Within(u)
    BY <1>2, <1>7, <1>15 DEF TrashTarget
  <2>3. u # t /\ present' \subseteq present
    BY <2>2, SelectedWithin
  <2>4. stats.failed = 0
    BY <1>7, <2>2 DEF TypeCounter
  <2> QED
    BY <1>14, <2>1, <2>3, <2>4
<1>16. ASSUME NEW u \in Nodes, TargetGone(u) PROVE FALSE
  BY <1>7, <1>16 DEF TargetGone
<1>17. ASSUME NEW u \in Nodes, SingleTarget(u) \/ DirectoryTarget(u)
       PROVE  HadToStay(n, t) \/ Coming(n, t)'
  <2>1. Next1(u) /\ UNCHANGED <<waiting, present, stats>>
    BY <1>17 DEF SingleTarget, DirectoryTarget
  <2>2. CASE u = t
    BY <1>2, <1>17, <2>1, <2>2, RunBegins
  <2>3. CASE u # t
    BY <1>2, <1>14, <2>1, <2>3
  <2> QED
    BY <2>2, <2>3
<1>18. ASSUME NEW m \in Nodes, Process(m)
       PROVE  HadToStay(n, t) \/ Coming(n, t)'
  <2>1. /\ pc \in {"scan", "call"} /\ ~event /\ m \in chosen /\ Below(m) \cap chosen = {}
        /\ chosen' = chosen \ {m} /\ UNCHANGED <<pc, waiting, queue, target>>
    BY <1>18 DEF Process, Due
  <2>2. /\ m \notin Unreadable /\ stats.failed = 0 /\ present' \subseteq present
        /\ Children(m) \cap present # {} \/ m \notin present'
    <3>1. TypeCounter(m) \in {"files", "dirs"}
      BY DEF TypeCounter
    <3>2. ~Count("failed") /\ ~Simulated(m)
      BY <1>2, <1>7 DEF Simulated
    <3>3. m \notin Unreadable
      BY <1>18, <3>2 DEF Process
    <3>4. \/ Children(m) \cap present # {} /\ UNCHANGED stats /\ Untouched
          \/ Dispose(m)
      BY <1>18, <3>2, <3>3 DEF Process
    <3>5. CASE Dispose(m)
      BY <1>7, <3>1, <3>3, <3>5 DEF Dispose
    <3>6. CASE ~Dispose(m)
      BY <1>2, <3>3, <3>4, <3>6 DEF Untouched
    <3> QED
      BY <3>5, <3>6
  <2>3. ~ToCome(t) /\ n \in present
    BY <2>1, <2>2 DEF ToCome
  <2>4. HadToStay(n, t) \/ Coming(n, t)
    BY <1>4, <2>1, <2>2, <2>3
  <2>5. CASE n # m \/ target # t \/ chosen \cap Unreadable # {}
    BY <2>1, <2>2, <2>4, <2>5 DEF Coming
  <2>6. CASE n = m /\ target = t /\ chosen \cap Unreadable = {}
    <3> PICK c \in Nodes : c \in Children(m) \cap present
      BY <2>2, <2>6 DEF Children
    <3>1. m \in Dirs /\ Up[c] = {c} \cup Up[m] /\ c \in Below(m)
      <4>1. c # Top /\ Parent[c] = m /\ m \in Dirs
        BY WorldAssumption DEF Children
      <4>2. Up[c] = {c} \cup Up[m] /\ m \in Up[m]
        BY <4>1, UpSteps
      <4>3. Level[c] # Level[m]
        <5> PICK l \in Nat : l = Level[m]
          BY WorldAssumption
        <5> QED
          BY <4>1, WorldAssumption
      <4> QED
        BY <4>1, <4>2, <4>3 DEF Below, Within
    <3>2. CASE c \in Selected(t)
      <4>1. HadToStay(c, t) \/ (c \in chosen)
        BY <1>2, <2>1, <2>2, <2>3, <2>6, <3>2 DEF Complete, Faultless, Coming
      <4>2. ~(Within(c) \subseteq Selected(t))
        BY <2>1, <3>1, <4>1 DEF HadToStay
      <4>3. Within(c) \subseteq Within(m)
        <5> SUFFICES ASSUME NEW x \in Nodes, c \in Up[x] PROVE m \in Up[x]
          BY DEF Within
        <5>1. Up[c] \subseteq Up[x]
          BY UpClosed
        <5>2. m \in Up[c]
          BY <3>1, UpSteps
        <5> QED
          BY <5>1, <5>2
      <4> QED
        BY <2>6, <3>1, <4>2, <4>3 DEF HadToStay
    <3>3. CASE c \notin Selected(t)
      BY <2>6, <3>1, <3>3 DEF HadToStay, Below
    <3> QED
      BY <3>2, <3>3
  <2> QED
    BY <2>5, <2>6
<1>19. CASE RunReturns
  <2>1. chosen = {} /\ UNCHANGED <<waiting, queue, target, present, stats, event>>
    BY <1>2, <1>19 DEF RunReturns, signals
  <2> QED
    BY <1>2, <1>4, <2>1 DEF ToCome, Coming
<1>20. CASE NextOfMany
  BY <1>2, <1>5, <1>20 DEF NextOfMany, signals
<1>21. CASE Finish
  BY <1>2, <1>5, <1>21 DEF Finish, signals
<1>22. CASE Consent
  <2>1. waiting # <<>> /\ pc \in {"prompt", "secondary"} /\ UNCHANGED <<target, chosen, present, stats, event>>
    BY <1>22 DEF Consent, Prompted, signals
  <2>2. CASE pc = "prompt" /\ Twice
    BY <1>2, <1>5, <1>22, <2>1, <2>2 DEF Consent
  <2>3. CASE ~(pc = "prompt" /\ Twice)
    BY <1>2, <1>6, <1>22, <2>1, <2>3 DEF Consent
  <2> QED
    BY <2>2, <2>3
<1>23. CASE Decline
  BY <1>2, <1>5, <1>23 DEF Decline, signals
<1>24. CASE Interrupt
  BY <1>2, <1>5, <1>24 DEF Interrupt, Kind, Deletes
<1>25. CASE Arrive \/ Deliver \/ EnterSet \/ UNCHANGED vars
  <2>1. UNCHANGED <<main, event>>
    BY <1>25 DEF Arrive, Deliver, EnterSet, vars, signals
  <2>2. UNCHANGED <<pc, waiting, queue, target, chosen, present, stats>>
    BY <2>1 DEF main
  <2> QED
    BY <1>2, <1>5, <2>1, <2>2
<1>26. CASE LeaveSet
  BY <1>2, <1>26 DEF LeaveSet
<1> QED
  BY <1>8, <1>9, <1>10, <1>11, <1>12, <1>13, <1>15, <1>16, <1>17, <1>18, <1>19, <1>20, <1>21,
     <1>22, <1>23, <1>24, <1>25, <1>26 DEF Next, Program, User, Handler, Finished

-----------------------------------------------------------------------------
(* What follows.                                                             *)

LEMMA OutcomeStart == Init => OInv
<1> SUFFICES ASSUME Init PROVE OInv
  OBVIOUS
<1>0. command \in Commands /\ waiting = command.targets /\ queue = <<>> /\ removed = {} /\ target = None
  BY DEF Init
<1>1. Alarmed /\ Coded
  BY DEF Init, Alarmed, Coded, Over, Kind
<1>2. MissingCounted
  BY <1>0 DEF MissingCounted, Named
<1>3. Blamed
  BY DEF Init, Blamed, NoStats
<1>4. Removals
  BY DEF Init, Removals
<1>5. Ordered
  <2> DEFINE ix == [k \in DOMAIN queue |-> 1]
  <2> PICK n \in Nat : n = Len(command.targets)
    BY <1>0, Targeted
  <2>1. DOMAIN queue = {}
    BY <1>0
  <2>2. LinedUp(0, 0, ix)
    BY <1>0, <2>1 DEF LinedUp
  <2>3. ix \in [DOMAIN queue -> 1 .. n] /\ 0 \in 0 .. n
    BY <2>1
  <2> HIDE DEF ix
  <2> QED
    BY <2>2, <2>3 DEF Ordered
<1>6. OwnDevice
  BY DEF Init, OwnDevice
<1>7. Sparing
  BY DEF Init, Sparing
<1>8. Grounded
  BY WorldAssumption DEF Init, Grounded, Dirs
<1>9. Complete
  <2>1. \A t \in Targets : ToCome(t)
    BY <1>0 DEF Targets, Named, ToCome
  <2> QED
    BY <2>1 DEF Complete
<1> QED
  BY <1>1, <1>2, <1>3, <1>4, <1>5, <1>6, <1>7, <1>8, <1>9 DEF OInv

(* OInv is an invariant of CommandLine.                                      *)
LEMMA Outcome == Spec => []OInv
<1>1. IInv /\ IInv' /\ OInv /\ [Next]_vars => OInv'
  BY AlarmedStep, CodedStep, MissingStep, BlamedStep, RemovalsStep, OrderedStep, OwnDeviceStep,
     SparingStep, GroundedStep, CompleteStep DEF OInv
<1> QED
  BY OutcomeStart, Invariant, <1>1, PTL DEF Spec

(* The exit code of main tells what happened: 0 says that no target was      *)
(* missing, 1 needs a reason, 2 deletes nothing, and an abort that was       *)
(* handled ends in 130, which nothing but a signal leads to.                 *)
THEOREM ExitCodes == Spec => []ExitTruthful
<1>1. IInv /\ OInv => ExitTruthful
  <2> SUFFICES ASSUME OInv, Over, Deletes PROVE ExitTruthful
    BY DEF ExitTruthful
  <2>1. code = "ok" => Named \cap {p \in Paths : Object[p] = None} = {}
    BY DEF OInv, Coded, MissingCounted
  <2>2. code = "failed" => Named = {} \/ Reasons
    BY DEF OInv, Coded, Blamed
  <2>3. code = "refused" => removed = {}
    BY DEF OInv, Coded
  <2>4. code = "interrupted" => arrivals < command.signals
    BY DEF OInv, Alarmed
  <2>5. event => code = "interrupted"
    BY DEF OInv, Alarmed, Over
  <2> QED
    BY <2>1, <2>2, <2>3, <2>4, <2>5 DEF ExitTruthful, Reasons
<1> QED
  BY Invariant, Outcome, <1>1, PTL

(* With --one-file-system nothing in a directory of another device is        *)
(* deleted with the first target: scan, should_traverse.                     *)
THEOREM Boundaries == Spec => []OneFileSystem
<1>1. IInv /\ OInv => OneFileSystem
  <2> SUFFICES ASSUME IInv, OInv, Deletes, Filter.oneFileSystem, ~command.trash, NEW r \in removed,
                      r[2] = Object[command.targets[1]]
               PROVE  r[1] \notin Foreign(r[2])
    BY DEF OneFileSystem
  <2>1. r[2] \in Nodes
    BY DEF IInv, TypeOK
  <2> PICK m, w, ix : m \in Nat /\ w \in Nat /\ LinedUp(m, w, ix)
    BY SomeOrder DEF IInv, OInv
  <2>2. PICK i \in 1 .. m : r[2] = Given(i)
    BY DEF LinedUp
  <2>3. Len(command.targets) > 0
    <3> PICK l \in Nat : l = Len(waiting)
      <4>1. waiting \in Seq(Paths)
        BY DEF IInv, TypeOK
      <4> QED
        BY <4>1
    <3>1. m <= w /\ w + l = Len(command.targets)
      BY DEF LinedUp
    <3> QED
      BY <3>1
  <2> QED
    BY <2>1, <2>3 DEF OInv, OwnDevice, Bounded, Given
<1> QED
  BY Invariant, Outcome, <1>1, PTL

(* Only what the options select is deleted: nothing outside a target, and in *)
(* a directory nothing that an option by its documentation promises to       *)
(* leave, but for the two exceptions OnlySelected names; among it what the   *)
(* ignore file does not list under any layout of its patterns: scan,         *)
(* matches_file, matches_dir_removal, GitIgnoreMatcher.matches.              *)
THEOREM Selective == Spec => []OnlySelected
<1>1. IInv /\ OInv => OnlySelected
  <2> SUFFICES ASSUME IInv, OInv, Deletes, NEW r \in removed
               PROVE  /\ r[2] \in Targets /\ r[1] \in Within(r[2])
                      /\ r[2] \in Dirs /\ ~command.trash => r[1] \notin Skipped(Filter, r[2])
    BY DEF OnlySelected, Skipped
  <2>1. r[2] \in Nodes /\ r[1] \in Within(r[2])
    BY DEF IInv, TypeOK, OInv, Removals
  <2>2. r[2] \in Dirs /\ ~command.trash => r[1] \notin Skipped(Filter, r[2])
    BY SamePassedOver DEF OInv, Sparing
  <2> PICK m, w, ix : m \in Nat /\ w \in Nat /\ LinedUp(m, w, ix)
    BY SomeOrder DEF IInv, OInv
  <2> PICK i \in 1 .. m : r[2] = Given(i)
    BY DEF LinedUp
  <2> PICK n \in Nat : n = Len(command.targets) /\ DOMAIN command.targets = 1 .. n
    BY Targeted DEF IInv
  <2>3. m <= n
    <3>1. waiting \in Seq(Paths)
      BY DEF IInv, TypeOK
    <3> PICK l \in Nat : l = Len(waiting)
      BY <3>1
    <3>2. m <= w /\ w + l = n
      BY DEF LinedUp
    <3> QED
      BY <3>2
  <2>4. i \in DOMAIN command.targets
    BY <2>3
  <2>5. r[2] \in Targets
    BY <2>1, <2>4, WorldAssumption DEF Targets, Named, Given
  <2> QED
    BY <2>1, <2>2, <2>5
<1> QED
  BY Invariant, Outcome, <1>1, PTL

(* Exit code 0 means that all that was selected is gone, but for directories *)
(* with something in them that was not: the scan yields all that is selected *)
(* unless it counts an error, and the run ends when all of it has been       *)
(* processed: main, FastDeleter.run, delete_dir_entry.                       *)
THEOREM Thorough == Spec => []SelectedGone
<1>1. IInv /\ OInv => SelectedGone
  <2> SUFFICES ASSUME IInv, OInv, Deletes, code = "ok", ~command.dryRun, ~Exempt,
                      NEW t \in Targets, NEW n \in Selected(t) \cap present
               PROVE  HadToStay(n, t)
    BY DEF SelectedGone, HadToStay
  <2>1. stats.failed = 0 /\ waiting = <<>> /\ queue = <<>> /\ pc = "exit" /\ ~event
    BY DEF OInv, Coded, Alarmed, Over
  <2>2. ~ToCome(t) /\ ~Coming(n, t)
    BY <2>1 DEF ToCome, Coming
  <2> QED
    BY <2>1, <2>2 DEF OInv, Complete, Faultless
<1> QED
  BY Invariant, Outcome, <1>1, PTL

-----------------------------------------------------------------------------
(* The presets: what the search finds.                                       *)

(* What find_preset_targets returns, the files and the directories together. *)
CleanTargets ==
    IF CleanPreset = None \/ CleanRoot = None THEN {}
    ELSE FindPresetTargets(CleanRoot, CleanPreset)[1] \cup FindPresetTargets(CleanRoot, CleanPreset)[2]

(* What the preset asks for by name.                                         *)
Sought == IF CleanPreset = None \/ CleanRoot = None THEN {} ELSE ByName

LEMMA SoughtWanted == Sought \subseteq Wanted /\ Wanted \ Unfound = Sought
BY DEF Sought, Wanted, Unfound

(* Of two entries above a third one is above the other.                      *)
LEMMA UpChain ==
    ASSUME NEW n \in Nodes, NEW t \in Up[n], NEW u \in Up[n]
    PROVE  t \in Up[u] \/ u \in Up[t]
<1> DEFINE S == {m \in Nodes : \A x, y \in Up[m] : x \in Up[y] \/ y \in Up[x]}
<1>1. Top \in S
  <2>1. Top \in Nodes /\ Up[Top] = {Top}
    BY UpSteps, WorldAssumption DEF Dirs
  <2> QED
    BY <2>1
<1>2. ASSUME NEW m \in Nodes \ {Top}, Parent[m] \in S PROVE m \in S
  <2>1. Up[m] = {m} \cup Up[Parent[m]]
    BY UpSteps
  <2> QED
    BY <1>2, <2>1
<1> HIDE DEF S
<1>3. Nodes \subseteq S
  BY <1>1, <1>2, Downwards
<1> QED
  BY <1>3 DEF S

(* Two entries are not above each other.                                     *)
LEMMA UpLevelBoth ==
    ASSUME NEW n \in Nodes, NEW t \in Up[n], n \in Up[t]
    PROVE  t = n
<1> SUFFICES ASSUME t # n PROVE FALSE
  OBVIOUS
<1>1. t \in Nodes /\ Level[t] < Level[n] /\ Level[n] < Level[t]
  BY UpClosed, UpLevel
<1> PICK i \in Nat, j \in Nat : i = Level[t] /\ j = Level[n]
  BY <1>1, WorldAssumption
<1> QED
  BY <1>1

(* What is in something that is in t is in t.                                *)
LEMMA WithinWithin ==
    ASSUME NEW t, NEW u \in Within(t)
    PROVE  Within(u) \subseteq Within(t)
BY UpClosed DEF Within

(* What is in something that is wanted is wanted.                            *)
LEMMA SoughtClosed ==
    ASSUME NEW t \in Sought
    PROVE  t \in Nodes /\ Within(t) \subseteq Sought
<1>1. CleanPreset # None /\ CleanRoot # None /\ t \in Below(CleanRoot) /\ t \in Nodes
  BY DEF Sought, ByName, Below, Within
<1>2. CASE t \notin Dirs
  <2>1. \A n \in Within(t) : n = t
    BY <1>1, <1>2, WithinFile
  <2> QED
    BY <1>1, <2>1
<1>3. CASE t \in Dirs
  <2>1. ~MatchedFile(CleanPreset, t)
    BY <1>3 DEF MatchedFile, DirLike, Dirs
  <2> PICK a \in Between(CleanRoot, t) : MatchedDir(CleanPreset, a)
    BY <2>1 DEF Sought, ByName
  <2>2. ASSUME NEW n \in Within(t) PROVE n \in Sought
    <3>1. n \in Nodes /\ Up[t] \subseteq Up[n] /\ t \in Up[n]
      BY UpClosed DEF Within
    <3>2. n \in Within(CleanRoot) /\ a \in Between(CleanRoot, n)
      BY <1>1, <3>1 DEF Between, Below, Within
    <3>3. n # CleanRoot
      BY <1>1, <3>1, UpLevelBoth DEF Below, Within
    <3> QED
      BY <1>1, <3>2, <3>3 DEF Sought, ByName, Below
  <2> QED
    BY <1>1, <2>2
<1> QED
  BY <1>1, <1>2, <1>3

(* A target of the preset is wanted.                                         *)
LEMMA TargetsSought == CleanTargets \subseteq Sought
<1> SUFFICES ASSUME NEW t \in CleanTargets PROVE t \in Sought
  OBVIOUS
<1>1. /\ CleanPreset # None /\ CleanRoot # None /\ t \in Below(CleanRoot)
      /\ MatchedFile(CleanPreset, t) \/ MatchedDir(CleanPreset, t)
  BY DEF CleanTargets, FindPresetTargets
<1>2. t \in Between(CleanRoot, t)
  BY <1>1, UpSteps DEF Between, Below, Within
<1> QED
  BY <1>1, <1>2 DEF Sought, ByName

(* No target of the preset is in another.                                    *)
LEMMA TargetsApart ==
    ASSUME NEW t \in CleanTargets, NEW u \in CleanTargets, t # u
    PROVE  Within(t) \cap Within(u) = {}
<1>1. ASSUME NEW x \in CleanTargets, NEW y \in CleanTargets, x # y, x \in Up[y] PROVE FALSE
  <2>1. /\ x \in Below(CleanRoot) /\ y \in Below(CleanRoot) /\ x \in Nodes /\ y \in Nodes
        /\ Parent[y] \in Walked(CleanRoot, CleanPreset)
        /\ MatchedFile(CleanPreset, x) \/ MatchedDir(CleanPreset, x)
    BY <1>1 DEF CleanTargets, FindPresetTargets, Below, Within
  <2>2. x \in Dirs
    BY <1>1, <2>1, UpClosed
  <2>3. MatchedDir(CleanPreset, x)
    BY <2>1, <2>2 DEF MatchedFile, DirLike, Dirs
  <2>4. y # Top
    BY <1>1, <2>1, UpSteps
  <2>5. x \in Up[Parent[y]]
    BY <1>1, <2>1, <2>4, UpSteps
  <2> QED
    BY <2>1, <2>3, <2>5 DEF Walked, Between
<1> SUFFICES ASSUME NEW n \in Nodes, t \in Up[n], u \in Up[n] PROVE FALSE
  BY DEF Within
<1> QED
  BY <1>1, UpChain

(* What is wanted and can be seen is in a target.                            *)
LEMMA SoughtFound ==
    ASSUME NEW n \in Sought \cap Visible(CleanRoot)
    PROVE  \E t \in CleanTargets : n \in Within(t)
<1>1. /\ CleanPreset # None /\ CleanRoot # None /\ n \in Nodes /\ n \in Below(CleanRoot)
      /\ (Up[n] \ {n}) \cap Within(CleanRoot) \cap Unreadable = {}
      /\ n \in Up[n] /\ CleanRoot \in Up[n] /\ n # CleanRoot
  BY UpSteps DEF Sought, ByName, Visible, Below, Within
<1>2. CleanRoot \in Dirs /\ CleanRoot \in Nodes
  BY <1>1, UpClosed
<1> DEFINE S == {a \in Between(CleanRoot, n) : MatchedDir(CleanPreset, a)}
                    \cup {a \in {n} : MatchedFile(CleanPreset, n)}
<1>3. S # {} /\ S \subseteq Up[n] \cap Below(CleanRoot) /\ S \subseteq Nodes
  BY <1>1, UpClosed DEF Sought, ByName, Between
<1>4. PICK t \in S : \A e \in S : Level[t] <= Level[e]
  BY <1>3, Nearest
<1>5. t \in Nodes /\ t \in Up[n] /\ CleanRoot \in Up[t] /\ t # CleanRoot
  BY <1>3 DEF Below, Within
<1>6. t # Top
  BY <1>5, UpSteps
<1> PICK p \in Dirs : p = Parent[t]
  BY <1>5, <1>6, WorldAssumption
<1>7. /\ p \in Nodes /\ Up[t] = {t} \cup Up[p] /\ p \in Up[p]
      /\ CleanRoot \in Up[p] /\ Up[t] \subseteq Up[n]
  <2>1. p \in Nodes
    BY DEF Dirs
  <2>2. Up[t] = {t} \cup Up[p]
    BY <1>5, <1>6, UpSteps
  <2>3. p \in Up[p]
    BY <2>1, UpSteps
  <2>4. Up[t] \subseteq Up[n]
    BY <1>1, <1>5, UpClosed
  <2> QED
    BY <1>5, <2>1, <2>2, <2>3, <2>4
<1>8. ASSUME NEW a \in Up[p] PROVE a \in Nodes /\ Level[a] < Level[t] /\ a # n
  <2>1. a \in Nodes /\ a \in Up[t]
    BY <1>7, UpClosed
  <2>2. a # t
    <3>1. Level[p] < Level[t] /\ (a = p \/ Level[a] < Level[p])
      <4>1. p # t
        <5> PICK l \in Nat : l = Level[p] /\ Level[t] = l + 1
          BY <1>5, <1>6, <1>7, WorldAssumption
        <5> QED
          BY <1>7
      <4>2. p \in Up[t]
        BY <1>7
      <4> QED
        BY <1>5, <1>7, <4>1, <4>2, UpLevel
    <3> PICK i \in Nat, j \in Nat, k \in Nat : i = Level[a] /\ j = Level[p] /\ k = Level[t]
      BY <1>5, <1>7, <2>1, WorldAssumption
    <3>2. i # k
      BY <3>1
    <3> QED
      BY <3>2
  <2>3. Level[a] < Level[t]
    BY <1>5, <2>1, <2>2, UpLevel
  <2>4. t = n \/ Level[t] < Level[n]
    BY <1>1, <1>5, UpLevel
  <2> PICK i \in Nat, j \in Nat, k \in Nat : i = Level[a] /\ j = Level[t] /\ k = Level[n]
    BY <1>1, <1>5, <2>1, WorldAssumption
  <2>5. i # k
    BY <2>3, <2>4
  <2> QED
    BY <2>1, <2>3, <2>5
<1>9. Up[p] \cap Within(CleanRoot) \cap Unreadable = {}
  BY <1>1, <1>7, <1>8
<1>10. ASSUME NEW a \in Between(CleanRoot, p), MatchedDir(CleanPreset, a) PROVE FALSE
  <2>1. a \in Up[p] /\ a \in S
    BY <1>7, <1>10 DEF Between
  <2>2. Level[t] <= Level[a] /\ Level[a] < Level[t] /\ a \in Nodes
    BY <1>4, <1>8, <2>1
  <2> PICK i \in Nat, j \in Nat : i = Level[a] /\ j = Level[t]
    BY <1>5, <2>2, WorldAssumption
  <2> QED
    BY <2>2
<1>11. p \in Walked(CleanRoot, CleanPreset)
  BY <1>7, <1>9, <1>10 DEF Walked, Within
<1>12. MatchedDir(CleanPreset, t) \/ MatchedFile(CleanPreset, t)
  BY <1>4
<1>13. t \in CleanTargets
  BY <1>1, <1>2, <1>3, <1>11, <1>12 DEF CleanTargets, FindPresetTargets
<1> QED
  BY <1>1, <1>5, <1>13 DEF Within

(* Without options nothing is spared.                                        *)
LEMMA NothingSpared ==
    ASSUME NEW t
    PROVE  IsFilter(NoFilter) /\ PassedOver(NoFilter, t) = {}
<1>1. IsFilter(NoFilter)
  BY DEF IsFilter, Limits, NoFilter
<1>2. ~NeedsStat(NoFilter)
  BY DEF NeedsStat, NoFilter
<1>3. \A e, rel : ~Excluded(NoFilter, e, rel) /\ Included(NoFilter, e, rel)
  BY DEF Excluded, Included, NoFilter
<1> PICK f : f = NoFilter
  OBVIOUS
<1>4. /\ f.maxDepth = None /\ f.minDepth = None /\ f.types = None /\ f.minSize = None /\ f.maxSize = None
      /\ ~f.filesOnly /\ ~f.dirsOnly /\ ~f.emptyDirsOnly /\ ~f.emptyFilesOnly /\ f.ignore = None
      /\ \A c \in Clocks : f.older[c] = None /\ f.newer[c] = None
  BY DEF NoFilter
<1>5. PassedOver(f, t) = {}
  BY <1>2, <1>3, <1>4 DEF PassedOver, SparedBy, OtherType, FullFile
<1> QED
  BY <1>1, <1>5

(* A run without options begins with all that is in its target, or with the  *)
(* error that hides it.                                                      *)
LEMMA PlainBegins ==
    ASSUME present \subseteq Nodes, Grounded, Filter = NoFilter, NEW t \in Nodes,
           SingleTarget(t) \/ DirectoryTarget(t)
    PROVE  /\ pc' \in {"scan", "call"} /\ target' = t
           /\ Within(t) \cap present \subseteq chosen' \/ chosen' \cap Unreadable # {}
<1>1. CASE SingleTarget(t)
  <2>1. t \in Nodes \ Dirs /\ pc' = "scan" /\ target' = t /\ chosen' = {t}
    BY <1>1 DEF SingleTarget, Next1
  <2> QED
    BY <2>1, WithinFile
<1>2. CASE DirectoryTarget(t)
  <2>1. t \in Dirs /\ pc' \in {"scan", "call"} /\ target' = t
    BY <1>2 DEF DirectoryTarget, Next1
  <2> PICK dev : chosen' = Items(t, NoFilter, dev) \cap present
    BY <1>2 DEF DirectoryTarget
  <2>2. ~NoFilter.oneFileSystem
    BY DEF NoFilter
  <2>3. ASSUME NEW n \in Within(t) \cap present PROVE n \in chosen' \/ chosen' \cap Unreadable # {}
    <3>1. n \in Items(t, NoFilter, dev) \/ \E d \in Items(t, NoFilter, dev) \cap Unreadable : d \in Up[n]
      BY <2>1, <2>2, NothingSpared, ScanComplete
    <3>2. Up[n] \subseteq present
      BY GroundedUp
    <3> QED
      BY <3>1, <3>2
  <2> QED
    BY <2>1, <2>3
<1> QED
  BY <1>1, <1>2

-----------------------------------------------------------------------------
(* The presets: what becomes of it.                                          *)

Staged(q)  == UNION {q[k] : k \in DOMAIN q}
Distinct(q) == \A k, l \in DOMAIN q : k # l => q[k] \cap q[l] = {}

(* What is deleted, and what still is to be.                                 *)
Matched ==
    /\ Distinct(queue) /\ Staged(queue) \subseteq CleanTargets
    /\ target # None => target \in CleanTargets \ Staged(queue)
    /\ \A t \in Staged(queue) : Within(t) \subseteq present
    /\ \A r \in removed : r[1] \in Sought

(* How it went.                                                              *)
Judgement ==
    /\ stats.failed > 0 => Sought \cap (Stuck \cup Unreadable) # {}
    /\ code = "ok" => stats.failed = 0 /\ queue = <<>>
    /\ code = "failed" => stats.failed > 0

(* While nothing has failed, a target that was taken is gone, or the rest of *)
(* it is to come, or the error that hides it.                                *)
Cleared(t) ==
    \/ Within(t) \cap present = {}
    \/ /\ pc \in {"scan", "call"} /\ target = t
       /\ Within(t) \cap present \subseteq chosen \/ chosen \cap Unreadable # {}

Clearing ==
    pc # "start" /\ code \notin {"refused", "interrupted"} /\ stats.failed = 0 /\ ~command.dryRun =>
        \A t \in CleanTargets \ Staged(queue) : Cleared(t)

CInv ==
    Kind("clean") =>
        /\ pc \in {"start", "execute", "scan", "call", "exit"}
        /\ pc = "start" => queue = <<>> /\ target = None /\ code = "none"
        /\ Matched /\ Judgement /\ Clearing

(* The stages of a search.                                                   *)
LEMMA StageItems ==
    ASSUME NEW S, NEW A \in SUBSET S, NEW B \in SUBSET S, A \cap B = {},
           NEW q, q = Stage(A) \o Stage(B)
    PROVE  Distinct(q) /\ Staged(q) = A \cup B
<1>1. <<A>> \in Seq(SUBSET S) /\ <<B>> \in Seq(SUBSET S) /\ <<>> \in Seq(SUBSET S)
  OBVIOUS
<1>2. CASE A = {} /\ B = {}
  <2>1. q = <<>> /\ DOMAIN q = {}
    BY <1>2 DEF Stage
  <2> QED
    BY <1>2, <2>1 DEF Staged, Distinct
<1>3. CASE A = {} /\ B # {}
  <2>1. q = <<B>>
    BY <1>1, <1>3 DEF Stage
  <2>2. DOMAIN q = {1} /\ q[1] = B
    BY <2>1
  <2> QED
    BY <1>3, <2>2 DEF Staged, Distinct
<1>4. CASE A # {} /\ B = {}
  <2>1. q = <<A>>
    BY <1>1, <1>4 DEF Stage
  <2>2. DOMAIN q = {1} /\ q[1] = A
    BY <2>1
  <2> QED
    BY <1>4, <2>2 DEF Staged, Distinct
<1>5. CASE A # {} /\ B # {}
  <2>1. q = <<A>> \o <<B>>
    BY <1>5 DEF Stage
  <2>2. DOMAIN q = {1, 2} /\ q[1] = A /\ q[2] = B
    BY <1>1, <2>1
  <2> QED
    BY <2>2 DEF Staged, Distinct
<1> QED
  BY <1>2, <1>3, <1>4, <1>5

(* Taking an element from one of some disjoint sets.                         *)
LEMMA Narrowed ==
    ASSUME NEW q, NEW r, NEW t, Distinct(q), 1 \in DOMAIN q, t \in q[1], DOMAIN r = DOMAIN q,
           r[1] = q[1] \ {t}, \A k \in DOMAIN q : k # 1 => r[k] = q[k]
    PROVE  Distinct(r) /\ Staged(r) = Staged(q) \ {t}
<1>1. \A k \in DOMAIN q : r[k] = q[k] \ {t}
  BY DEF Distinct
<1>2. Distinct(r)
  BY <1>1 DEF Distinct
<1>3. ASSUME NEW x \in Staged(r) PROVE x \in Staged(q) \ {t}
  BY <1>1, <1>3 DEF Staged
<1>4. ASSUME NEW x \in Staged(q) \ {t} PROVE x \in Staged(r)
  BY <1>1, <1>4 DEF Staged
<1> QED
  BY <1>2, <1>3, <1>4

(* Taking an element from the first of some disjoint sets.                   *)
LEMMA Taken ==
    ASSUME NEW S, NEW q \in Seq(SUBSET S), q # <<>>, Distinct(q), NEW t \in Head(q),
           NEW r, r = IF Head(q) = {t} THEN Tail(q) ELSE [q EXCEPT ![1] = @ \ {t}]
    PROVE  Distinct(r) /\ Staged(r) = Staged(q) \ {t} /\ t \in Staged(q)
<1>1. 1 \in DOMAIN q /\ Head(q) = q[1]
  OBVIOUS
<1>2. t \in Staged(q) /\ \A k \in DOMAIN q : t \in q[k] => k = 1
  BY <1>1 DEF Staged, Distinct
<1>3. CASE Head(q) = {t}
  <2> PICK n \in Nat : n = Len(q) /\ DOMAIN q = 1 .. n
    OBVIOUS
  <2>1. r = Tail(q) /\ DOMAIN r = 1 .. (n - 1) /\ \A k \in DOMAIN r : r[k] = q[k + 1] /\ k + 1 \in DOMAIN q
    BY <1>3
  <2>2. \A k \in DOMAIN q : k # 1 => k - 1 \in DOMAIN r /\ r[k - 1] = q[k]
    BY <1>3
  <2>3. Distinct(r)
    <3> SUFFICES ASSUME NEW k \in DOMAIN r, NEW l \in DOMAIN r, k # l PROVE r[k] \cap r[l] = {}
      BY DEF Distinct
    <3>1. k + 1 \in DOMAIN q /\ l + 1 \in DOMAIN q /\ k + 1 # l + 1
      BY <2>1
    <3> QED
      BY <2>1, <3>1 DEF Distinct
  <2>4. ASSUME NEW x \in Staged(r) PROVE x \in Staged(q) \ {t}
    <3> PICK k \in DOMAIN r : x \in r[k]
      BY DEF Staged
    <3>1. k + 1 \in DOMAIN q /\ x \in q[k + 1] /\ k + 1 # 1
      BY <2>1
    <3> QED
      BY <1>2, <3>1 DEF Staged
  <2>5. ASSUME NEW x \in Staged(q) \ {t} PROVE x \in Staged(r)
    <3> PICK k \in DOMAIN q : x \in q[k]
      BY DEF Staged
    <3>1. k # 1
      BY <1>1, <1>3
    <3> QED
      BY <2>2, <3>1 DEF Staged
  <2> QED
    BY <1>2, <2>3, <2>4, <2>5
<1>4. CASE Head(q) # {t}
  <2>1. DOMAIN r = DOMAIN q /\ r[1] = q[1] \ {t} /\ \A k \in DOMAIN q : k # 1 => r[k] = q[k]
    BY <1>1, <1>4
  <2>2. t \in q[1]
    BY <1>1
  <2>3. Distinct(r) /\ Staged(r) = Staged(q) \ {t}
    BY ONLY <1>1, <2>1, <2>2, Distinct(q), Narrowed
  <2> QED
    BY <1>2, <2>3
<1> QED
  BY <1>3, <1>4

(* What the next target of clean is. *)
LEMMA CleanNext ==
    ASSUME TypeOK, Matched, NEW t \in Nodes, Next1(t)
    PROVE  /\ Distinct(queue') /\ Staged(queue') = Staged(queue) \ {t}
           /\ t \in CleanTargets /\ t \in Staged(queue) /\ target' = t /\ t # None /\ pc = "execute"
<1>1. /\ queue \in Seq(SUBSET Nodes) /\ queue # <<>> /\ t \in Head(queue)
      /\ queue' = IF Head(queue) = {t} THEN Tail(queue) ELSE [queue EXCEPT ![1] = @ \ {t}]
      /\ target' = t /\ pc = "execute"
  BY DEF TypeOK, Next1
<1>2. Distinct(queue)
  BY DEF Matched
<1>3. Distinct(queue') /\ Staged(queue') = Staged(queue) \ {t} /\ t \in Staged(queue)
  BY <1>1, <1>2, Taken
<1> QED
  BY <1>1, <1>3, WorldAssumption DEF Matched

(* What clean looks for does not change.                                     *)
LEMMA CleanStays ==
    ASSUME command' = command
    PROVE  /\ CleanTargets' = CleanTargets /\ Sought' = Sought /\ CleanRoot' = CleanRoot
           /\ CleanPreset' = CleanPreset
BY DEF CleanTargets, Sought, ByName, CleanRoot, CleanPreset

(* What happens to a cleaning. *)
LEMMA CleanCases ==
    ASSUME Kind("clean"), CInv, Alarmed, [Next]_vars
    PROVE  \/ StartClean \/ RunReturns \/ Finish \/ Interrupt
           \/ \E t \in Nodes : TrashTarget(t) \/ TargetGone(t) \/ SingleTarget(t) \/ DirectoryTarget(t)
           \/ \E n \in Nodes : Process(n)
           \/ UNCHANGED vars
<1>1. pc \in {"start", "execute", "scan", "call", "exit"} /\ frames = <<>>
  BY DEF CInv, Alarmed, Kind
<1>2. ~StartDelete /\ ~StartDu /\ ~Visit /\ ~Inspect /\ ~InspectUnsafe /\ ~InspectMissing /\ ~Confirmed
  BY <1>1 DEF StartDelete, StartDu, Visit, Inspect, InspectUnsafe, InspectMissing, Confirmed, Kind
<1>3. ~NextOfMany /\ ~Consent /\ ~Decline
  BY <1>1 DEF NextOfMany, Consent, Decline, Kind
<1>4. ~Arrive /\ ~Deliver /\ ~EnterSet /\ ~LeaveSet
  BY <1>1 DEF Arrive, Deliver, EnterSet, LeaveSet, Handling, Kind
<1> QED
  BY <1>2, <1>3, <1>4 DEF Next, Program, User, Handler, Finished

(* What StartClean puts in the queue. *)
LEMMA CleanBegins ==
    ASSUME command \in Commands, TypeOK, Kind("clean"), Settled, Coded, StartClean
    PROVE  /\ removed = {} /\ present = Nodes /\ UNCHANGED <<target, removed, present, stats, chosen>>
           /\ \/ pc' = "exit" /\ code' = "refused" /\ UNCHANGED queue
              \/ /\ pc' = "execute" /\ UNCHANGED code
                 /\ Distinct(queue') /\ Staged(queue') = CleanTargets
<1>1. /\ removed = {} /\ waiting = command.targets /\ present = Nodes
      /\ UNCHANGED <<target, removed, present, stats, chosen>>
  BY DEF StartClean, Coded, Settled, KeepAll, history
<1>2. First = command.targets[1]
  <2>1. command.targets \in Seq(Paths) /\ command.targets # <<>>
    BY Targeted, CommandAssumption DEF Kind
  <2> QED
    BY <1>1, <2>1 DEF First
<1>3. CASE CleanPreset = None
  BY <1>1, <1>3 DEF StartClean, Exit, CleanPreset
<1>4. CASE CleanPreset # None
  <2>1. /\ queue' = IF CleanRoot = None THEN <<>>
                    ELSE Stage(FindPresetTargets(CleanRoot, CleanPreset)[1])
                            \o Stage(FindPresetTargets(CleanRoot, CleanPreset)[2])
        /\ pc' = "execute" /\ UNCHANGED code
    BY <1>2, <1>4 DEF StartClean, CleanRoot, CleanPreset
  <2>2. CASE CleanRoot = None
    <3>1. queue' = <<>> /\ DOMAIN queue' = {} /\ CleanTargets = {}
      BY <2>1, <2>2 DEF CleanTargets
    <3> QED
      BY <1>1, <2>1, <3>1 DEF Distinct, Staged
  <2>3. CASE CleanRoot # None
    <3> PICK A, B : A = FindPresetTargets(CleanRoot, CleanPreset)[1] /\ B = FindPresetTargets(CleanRoot, CleanPreset)[2]
      OBVIOUS
    <3>1. A \in SUBSET Nodes /\ B \in SUBSET Nodes /\ A \cap B = {}
      BY DEF FindPresetTargets, Below, Within, MatchedFile, MatchedDir
    <3>2. queue' = Stage(A) \o Stage(B) /\ CleanTargets = A \cup B
      BY <1>4, <2>1, <2>3 DEF CleanTargets
    <3>3. Distinct(queue') /\ Staged(queue') = A \cup B
      BY <3>1, <3>2, StageItems
    <3> QED
      BY <1>1, <2>1, <3>2, <3>3
  <2> QED
    BY <2>2, <2>3
<1> QED
  BY <1>3, <1>4

(* A target that is taken exists.                                            *)
LEMMA NeverGone ==
    ASSUME TypeOK, Matched, NEW t \in Nodes, Next1(t)
    PROVE  t \in present /\ t \in Sought /\ Within(t) \subseteq Sought
<1>1. t \in CleanTargets /\ t \in Staged(queue)
  BY CleanNext
<1> QED
  BY <1>1, WithinSelf, TargetsSought, SoughtClosed DEF Matched

(* Only what is wanted is deleted, and nothing with one target that is part  *)
(* of another. *)
LEMMA MatchedStep ==
    IInv /\ Alarmed /\ Coded /\ Removals /\ CInv /\ Kind("clean") /\ [Next]_vars => Matched'
<1> SUFFICES ASSUME TypeOK, command \in Commands, command' = command, Aimed, Settled, Alarmed, Coded,
                    Removals, CInv, Kind("clean"), [Next]_vars
             PROVE  Matched'
  BY TypeStep DEF IInv
<1>1. Matched /\ (pc = "start" => target = None)
  BY DEF CInv
<1>2. CleanTargets' = CleanTargets /\ Sought' = Sought
  BY CleanStays
<1>3. CASE UNCHANGED <<queue, target, present, removed>>
  BY <1>1, <1>2, <1>3 DEF Matched
<1>4. ASSUME NEW t \in Nodes, Next1(t), UNCHANGED <<present, removed>> PROVE Matched'
  <2>1. Distinct(queue') /\ Staged(queue') = Staged(queue) \ {t} /\ t \in CleanTargets /\ target' = t
    BY <1>1, <1>4, CleanNext
  <2> QED
    BY <1>1, <1>2, <1>4, <2>1 DEF Matched
<1>5. CASE StartClean
  <2>1. CASE UNCHANGED queue
    BY <1>3, <1>5, <2>1, CleanBegins
  <2>2. CASE ~UNCHANGED queue
    <3>1. /\ target' = None /\ removed' = {} /\ present' = Nodes /\ Distinct(queue')
          /\ Staged(queue') = CleanTargets
      BY <1>1, <1>5, <2>2, CleanBegins DEF StartClean
    <3>2. \A t : Within(t) \subseteq Nodes
      BY DEF Within
    <3> QED
      BY <1>2, <3>1, <3>2 DEF Matched
  <2> QED
    BY <2>1, <2>2
<1>6. ASSUME NEW t \in Nodes, TrashTarget(t) PROVE Matched'
  <2>1. Next1(t) /\ (Untouched \/ /\ present' = present \ Within(t)
                                  /\ removed' = removed \cup {<<n, t>> : n \in Within(t) \cap present})
    BY <1>6 DEF TrashTarget
  <2>2. CASE Untouched
    BY <1>4, <2>1, <2>2 DEF Untouched
  <2>3. CASE ~Untouched
    <3>1. Distinct(queue') /\ Staged(queue') = Staged(queue) \ {t} /\ t \in CleanTargets /\ target' = t
      BY <1>1, <2>1, CleanNext
    <3>2. \A u \in Staged(queue') : Within(u) \subseteq present'
      BY <1>1, <2>1, <2>3, <3>1, TargetsApart DEF Matched
    <3>3. \A r \in removed' : r[1] \in Sought
      BY <1>1, <2>1, <2>3, NeverGone DEF Matched
    <3> QED
      BY <1>1, <1>2, <3>1, <3>2, <3>3 DEF Matched
  <2> QED
    BY <2>2, <2>3
<1>7. ASSUME NEW t \in Nodes, TargetGone(t) \/ SingleTarget(t) \/ DirectoryTarget(t) PROVE Matched'
  <2>1. Next1(t) /\ UNCHANGED <<present, removed>>
    BY <1>7 DEF TargetGone, SingleTarget, DirectoryTarget, KeepAll, history
  <2> QED
    BY <1>4, <2>1
<1>8. ASSUME NEW n \in Nodes, Process(n) PROVE Matched'
  <2>1. /\ pc \in {"scan", "call"} /\ n \in chosen /\ UNCHANGED <<queue, target>>
        /\ Untouched \/ Dispose(n)
    BY <1>8 DEF Process, Due
  <2>2. /\ target \in Nodes /\ target # None /\ n \in Within(target)
        /\ target \in CleanTargets \ Staged(queue)
    BY <1>1, <2>1, WorldAssumption DEF Aimed, Removals, Matched
  <2>3. n \in Sought
    BY <2>2, TargetsSought, SoughtClosed
  <2>4. CASE Untouched
    BY <1>3, <2>1, <2>4 DEF Untouched
  <2>5. CASE Dispose(n)
    <3>1. present' = present \ {n} /\ removed' = removed \cup {<<n, target>>}
      BY <2>5 DEF Dispose
    <3>2. \A u \in Staged(queue) : n \notin Within(u)
      BY <1>1, <2>2, TargetsApart DEF Matched
    <3> QED
      BY <1>1, <1>2, <2>1, <2>3, <3>1, <3>2 DEF Matched
  <2> QED
    BY <2>1, <2>4, <2>5
<1>9. CASE RunReturns \/ Finish \/ Interrupt \/ UNCHANGED vars
  BY <1>3, <1>9 DEF RunReturns, Finish, Interrupt, KeepAll, history, vars, main
<1> QED
  BY <1>5, <1>6, <1>7, <1>8, <1>9, CleanCases

(* What fails is wanted and stuck or cannot be read. *)
LEMMA JudgementStep ==
    IInv /\ Alarmed /\ Coded /\ Removals /\ CInv /\ Kind("clean") /\ [Next]_vars => Judgement'
<1> SUFFICES ASSUME TypeOK, command' = command, Aimed, Alarmed, Coded, Removals, CInv,
                    Kind("clean"), [Next]_vars
             PROVE  Judgement'
  BY TypeStep DEF IInv
<1> DEFINE Guilty == Sought \cap (Stuck \cup Unreadable) # {}
<1>1. /\ stats.failed > 0 => Guilty
      /\ code = "ok" => stats.failed = 0 /\ queue = <<>>
      /\ code = "failed" => stats.failed > 0
      /\ Matched /\ ~event /\ Sought' = Sought
      /\ stats \in [DOMAIN NoStats -> Nat] /\ stats.failed \in Nat
  BY CleanStays DEF CInv, Judgement, Alarmed, Kind, TypeOK, NoStats
<1>2. pc # "exit" => code \notin {"ok", "failed"}
  BY DEF Coded, Over
<1>3. SUFFICES /\ stats'.failed > 0 => Guilty
               /\ code' = "ok" => stats'.failed = 0 /\ queue' = <<>>
               /\ code' = "failed" => stats'.failed > 0
  BY <1>1, <1>3 DEF Judgement
<1> HIDE DEF Guilty
<1>4. CASE UNCHANGED <<stats, queue, code>>
  BY <1>1, <1>4
<1>5. CASE UNCHANGED stats /\ code' \notin {"ok", "failed"}
  BY <1>1, <1>5
<1>6. ASSUME NEW k \in {"files", "dirs", "failed"}, Count(k), k = "failed" => Guilty, pc # "exit", UNCHANGED code
      PROVE  /\ stats'.failed > 0 => Guilty
             /\ code' = "ok" => stats'.failed = 0 /\ queue' = <<>>
             /\ code' = "failed" => stats'.failed > 0
  <2>1. k # "failed" => stats'.failed = stats.failed
    BY <1>1, <1>6, CountFailed
  <2> QED
    BY <1>1, <1>2, <1>6, <2>1
<1>7. ASSUME NEW t \in Nodes, TrashTarget(t) PROVE \E k \in {"files", "dirs", "failed"} : Count(k) /\ (k = "failed" => Guilty)
  <2>1. Next1(t) /\ (Count("files") \/ Count(TypeCounter(t)) \/ (Count("failed") /\ t \notin present \ Stuck))
    BY <1>7 DEF TrashTarget
  <2>2. TypeCounter(t) \in {"files", "dirs"}
    BY DEF TypeCounter
  <2>3. t \in present /\ t \in Sought
    BY <1>1, <2>1, NeverGone
  <2> QED
    BY <2>1, <2>2, <2>3 DEF Guilty
<1>8. ASSUME NEW t \in Nodes, TargetGone(t) PROVE FALSE
  BY <1>1, <1>8, NeverGone DEF TargetGone
<1>9. ASSUME NEW n \in Nodes, Process(n)
      PROVE UNCHANGED stats \/ \E k \in {"files", "dirs", "failed"} : Count(k) /\ (k = "failed" => Guilty)
  <2>1. target \in Nodes /\ target # None /\ n \in Within(target)
    BY <1>9, WorldAssumption DEF Process, Due, Aimed, Removals
  <2>2. n \in Sought
    BY <1>1, <2>1, TargetsSought, SoughtClosed DEF Matched
  <2>3. \/ Count("failed") /\ n \in Stuck \cup Unreadable
        \/ Count(TypeCounter(n)) \/ UNCHANGED stats
    BY <1>9 DEF Process, Dispose
  <2>4. TypeCounter(n) \in {"files", "dirs"}
    BY DEF TypeCounter
  <2> QED
    BY <2>2, <2>3, <2>4 DEF Guilty
<1>10. CASE StartClean
  BY <1>4, <1>5, <1>10 DEF StartClean, Exit, CInv
<1>11. CASE RunReturns
  BY <1>4, <1>11 DEF RunReturns
<1>12. CASE Finish
  <2>1. UNCHANGED <<stats, queue>> /\ code' = (IF stats.failed > 0 THEN "failed" ELSE "ok") /\ queue = <<>>
    BY <1>1, <1>12 DEF Finish, Exit, ExitCode
  <2> PICK f \in Nat : f = stats.failed
    BY <1>1
  <2> QED
    BY <1>1, <2>1
<1>13. CASE Interrupt \/ UNCHANGED vars
  BY <1>4, <1>5, <1>13 DEF Interrupt, Exit, vars, main
<1>14. CASE \E t \in Nodes : TrashTarget(t) \/ TargetGone(t) \/ SingleTarget(t) \/ DirectoryTarget(t)
  <2>1. pc # "exit" /\ UNCHANGED code
    BY <1>14 DEF TrashTarget, TargetGone, SingleTarget, DirectoryTarget, Next1
  <2>2. CASE \E t \in Nodes : SingleTarget(t) \/ DirectoryTarget(t)
    BY <1>5, <1>2, <2>1, <2>2 DEF SingleTarget, DirectoryTarget
  <2> QED
    BY <1>6, <1>7, <1>8, <1>14, <2>1, <2>2
<1>15. CASE \E n \in Nodes : Process(n)
  <2>1. pc # "exit" /\ UNCHANGED <<code, queue>>
    BY <1>15 DEF Process
  <2> QED
    BY <1>4, <1>6, <1>9, <1>15, <2>1
<1> QED
  BY <1>10, <1>11, <1>12, <1>13, <1>14, <1>15, CleanCases

(* Nothing of a target is left behind. *)
LEMMA ClearingStep ==
    IInv /\ Alarmed /\ Coded /\ Removals /\ Grounded /\ CInv /\ Kind("clean") /\ [Next]_vars => Clearing'
<1> SUFFICES ASSUME TypeOK, command \in Commands, command' = command, Aimed, Settled, Alarmed, Coded,
                    Removals, Grounded, CInv, Kind("clean"), [Next]_vars,
                    pc' # "start", code' \notin {"refused", "interrupted"}, stats'.failed = 0, ~command.dryRun,
                    NEW t \in CleanTargets, t \notin Staged(queue')
             PROVE  Cleared(t)'
  BY TypeStep, CleanStays DEF IInv, Clearing
<1>1. /\ Matched /\ ~event /\ Filter = NoFilter /\ t \in Nodes /\ present \subseteq Nodes
      /\ stats \in [DOMAIN NoStats -> Nat] /\ stats.failed \in Nat
      /\ code \in {"ok", "failed"} => pc = "exit"
  BY TargetsSought, SoughtClosed DEF CInv, Alarmed, Kind, Filter, TypeOK, NoStats, Coded, Over
<1>2. ASSUME pc # "start", code \notin {"refused", "interrupted"}, stats.failed = 0, t \notin Staged(queue)
      PROVE  Cleared(t)
  BY <1>2 DEF CInv, Clearing
<1>3. ASSUME NEW k \in {"files", "dirs", "failed"}, Count(k)
      PROVE  k # "failed" /\ stats.failed = 0
  <2> PICK f \in Nat : f = stats.failed /\ (k = "failed" => stats'.failed = f + 1)
                        /\ (k # "failed" => stats'.failed = f)
    BY <1>1, <1>3, CountFailed
  <2> QED
    OBVIOUS
<1>4. ASSUME NEW u \in Nodes, Next1(u), UNCHANGED code, stats.failed = 0, u # t, present' \subseteq present
      PROVE  Within(t) \cap present' = {}
  <2>1. t \notin Staged(queue) /\ pc = "execute"
    BY <1>1, <1>4, CleanNext
  <2> QED
    BY <1>2, <1>4, <2>1 DEF Cleared
<1>5. CASE StartClean
  <2>1. Staged(queue') = CleanTargets
    BY <1>5, CleanBegins
  <2> QED
    BY <2>1
<1>6. ASSUME NEW u \in Nodes, TrashTarget(u) PROVE Cleared(t)'
  <2>1. Next1(u) /\ UNCHANGED code /\ Count(TypeCounter(u)) /\ present' = present \ Within(u)
    BY <1>3, <1>6 DEF TrashTarget
  <2>2. stats.failed = 0
    BY <1>3, <2>1 DEF TypeCounter
  <2> QED
    BY <1>4, <2>1, <2>2 DEF Cleared
<1>7. ASSUME NEW u \in Nodes, TargetGone(u) PROVE FALSE
  BY <1>1, <1>7, NeverGone DEF TargetGone
<1>8. ASSUME NEW u \in Nodes, SingleTarget(u) \/ DirectoryTarget(u) PROVE Cleared(t)'
  <2>1. Next1(u) /\ UNCHANGED <<code, present, stats>>
    BY <1>8 DEF SingleTarget, DirectoryTarget
  <2>2. CASE u = t
    BY <1>1, <1>8, <2>1, <2>2, PlainBegins DEF Cleared
  <2>3. CASE u # t
    BY <1>4, <2>1, <2>3 DEF Cleared
  <2> QED
    BY <2>2, <2>3
<1>9. ASSUME NEW n \in Nodes, Process(n) PROVE Cleared(t)'
  <2>1. /\ pc \in {"scan", "call"} /\ n \in chosen /\ Below(n) \cap chosen = {}
        /\ chosen' = chosen \ {n} /\ UNCHANGED <<pc, code, queue, target>>
    BY <1>9 DEF Process, Due
  <2>2. /\ n \notin Unreadable /\ stats.failed = 0
        /\ (present' = present /\ Children(n) \cap present # {}) \/ present' = present \ {n}
    <3>1. TypeCounter(n) \in {"files", "dirs"}
      BY DEF TypeCounter
    <3>2. ~Count("failed") /\ ~Simulated(n)
      BY <1>3 DEF Simulated
    <3>3. n \notin Unreadable
      BY <1>9, <3>2 DEF Process
    <3>4. \/ Children(n) \cap present # {} /\ UNCHANGED stats /\ Untouched
          \/ Dispose(n)
      BY <1>9, <3>2, <3>3 DEF Process
    <3>5. CASE Dispose(n)
      BY <1>3, <3>1, <3>3, <3>5 DEF Dispose
    <3>6. CASE ~Dispose(n)
      BY <3>3, <3>4, <3>6 DEF Untouched
    <3> QED
      BY <3>5, <3>6
  <2>3. Cleared(t)
    BY <1>2, <2>1, <2>2
  <2>4. CASE present' = present \ {n}
    BY <2>1, <2>2, <2>3, <2>4 DEF Cleared
  <2>5. CASE present' = present /\ Children(n) \cap present # {}
    <3> PICK c \in Nodes : c \in Children(n) \cap present
      BY <2>5 DEF Children
    <3>1. c \in Below(n) /\ \A u : n \in Within(u) => c \in Within(u)
      <4>1. c # Top /\ Parent[c] = n
        BY DEF Children
      <4>2. Up[c] = {c} \cup Up[n] /\ n \in Up[n]
        BY <4>1, UpSteps
      <4>3. Level[c] # Level[n]
        <5> PICK l \in Nat : l = Level[n]
          BY WorldAssumption
        <5> QED
          BY <4>1, WorldAssumption
      <4> QED
        BY <4>2, <4>3 DEF Below, Within
    <3>2. target = t => n \in Within(t)
      BY <2>1 DEF Removals
    <3> QED
      BY <2>1, <2>2, <2>3, <2>5, <3>1, <3>2 DEF Cleared
  <2> QED
    BY <2>2, <2>4, <2>5
<1>10. CASE RunReturns
  <2>1. chosen = {} /\ UNCHANGED <<code, queue, present, stats>> /\ pc \in {"scan", "call"}
    BY <1>1, <1>10 DEF RunReturns
  <2> QED
    BY <1>2, <2>1 DEF Cleared
<1>11. CASE Finish
  <2>1. pc = "execute" /\ UNCHANGED <<queue, present, stats>> /\ code \notin {"refused", "interrupted"}
    BY <1>11 DEF Finish, Coded, Over
  <2> QED
    BY <1>2, <2>1 DEF Cleared
<1>12. CASE Interrupt
  BY <1>12 DEF Interrupt, Exit
<1>13. CASE UNCHANGED vars
  <2>1. UNCHANGED <<pc, code, queue, target, chosen, present, stats>>
    BY <1>13 DEF vars, main
  <2> QED
    BY <1>2, <2>1 DEF Cleared
<1> QED
  BY <1>5, <1>6, <1>7, <1>8, <1>9, <1>10, <1>11, <1>12, <1>13, CleanCases

(* Where a cleaning is. *)
LEMMA CleanPlace ==
    IInv /\ Alarmed /\ CInv /\ Kind("clean") /\ [Next]_vars =>
        pc' \in {"execute", "scan", "call", "exit"} \/ UNCHANGED <<pc, queue, target, code>>
<1> SUFFICES ASSUME Alarmed, CInv, Kind("clean"), [Next]_vars
             PROVE  pc' \in {"execute", "scan", "call", "exit"} \/ UNCHANGED <<pc, queue, target, code>>
  OBVIOUS
<1>1. CASE StartClean \/ RunReturns \/ Finish \/ Interrupt
  BY <1>1 DEF StartClean, RunReturns, Finish, Interrupt, Exit
<1>2. CASE \E t \in Nodes : TrashTarget(t) \/ TargetGone(t) \/ SingleTarget(t) \/ DirectoryTarget(t)
  BY <1>2 DEF TrashTarget, TargetGone, SingleTarget, DirectoryTarget, Next1
<1>3. CASE \E n \in Nodes : Process(n)
  BY <1>3 DEF Process
<1>4. CASE UNCHANGED vars
  BY <1>4 DEF vars, main
<1> QED
  BY <1>1, <1>2, <1>3, <1>4, CleanCases

LEMMA Cleaning == Spec => []CInv
<1>1. Init => CInv
  <2> SUFFICES ASSUME Init, Kind("clean") PROVE CInv
    BY DEF CInv
  <2>1. /\ pc = "start" /\ code = "none" /\ queue = <<>> /\ target = None /\ removed = {}
        /\ stats.failed = 0 /\ DOMAIN queue = {}
    BY DEF Init, NoStats
  <2>2. Matched
    BY <2>1 DEF Matched, Staged, Distinct
  <2>3. Judgement /\ Clearing
    BY <2>1 DEF Judgement, Clearing
  <2> QED
    BY <2>1, <2>2, <2>3 DEF CInv
<1>2. IInv /\ OInv /\ CInv /\ [Next]_vars => CInv'
  <2> SUFFICES ASSUME IInv, OInv, CInv, [Next]_vars, Kind("clean")' PROVE CInv'
    BY DEF CInv
  <2>1. Kind("clean")
    BY TypeStep DEF Kind
  <2>2. Matched' /\ Judgement' /\ Clearing'
    BY <2>1, MatchedStep, JudgementStep, ClearingStep DEF OInv
  <2>3. pc' \in {"execute", "scan", "call", "exit"} \/ UNCHANGED <<pc, queue, target, code>>
    BY <2>1, CleanPlace DEF OInv
  <2> QED
    BY <2>1, <2>2, <2>3 DEF CInv
<1> QED
  BY Invariant, Outcome, <1>1, <1>2, PTL DEF Spec

(* clean deletes what the preset asks for, and what is in that, and nothing  *)
(* else; exit code 0 means that all of it that can be seen is gone, but for  *)
(* what only a path asks for, 1 that some of it cannot be deleted or read:   *)
(* find_preset_targets, run_preset_clean.                                    *)
THEOREM CleansExactly == Spec => []CleanExact
<1>1. IInv /\ OInv /\ CInv => CleanExact
  <2> SUFFICES ASSUME IInv, OInv, CInv, Kind("clean") PROVE CleanExact
    BY DEF CleanExact
  <2>1. {r[1] : r \in removed} \subseteq IF command.dryRun THEN {} ELSE Wanted
    BY SoughtWanted DEF CInv, Matched, IInv, Settled
  <2>2. ASSUME code = "ok", ~command.dryRun, NEW n \in Sought \cap Visible(CleanRoot) \cap present PROVE FALSE
    <3>1. stats.failed = 0 /\ queue = <<>> /\ pc = "exit"
      BY <2>2 DEF CInv, Judgement, OInv, Coded, Over
    <3>2. Staged(queue) = {}
      BY <3>1 DEF Staged
    <3>3. \A t \in CleanTargets : Within(t) \cap present = {}
      BY <2>2, <3>1, <3>2 DEF CInv, Clearing, Cleared
    <3> QED
      BY <2>2, <3>3, SoughtFound
  <2>3. code = "failed" => Sought \cap (Stuck \cup Unreadable) # {}
    BY DEF CInv, Judgement
  <2> QED
    BY <2>1, <2>2, <2>3, SoughtWanted DEF CleanExact
<1> QED
  BY Invariant, Outcome, Cleaning, <1>1, PTL

-----------------------------------------------------------------------------
(* What is counted, in a dry run and in a real one.                          *)

(* What is to be counted in t: what is selected, seen and can be read.       *)
Owed(t) == (Selected(t) \cap Visible(t)) \ Unreadable
Begun   == {t \in Targets : ~ToCome(t)}
Left    == IF pc \in {"scan", "call"} THEN chosen ELSE {}
Handled == (UNION {Owed(t) : t \in Begun}) \ Left

(* The counters say what was handled so far.                                 *)
Counted == Deletes /\ ~command.trash /\ ~Overlapping /\ ~Exempt
Tally ==
    Counted /\ ~event =>
        /\ \A t \in Nodes : pc \in {"scan", "call"} /\ target = t => t \in Begun /\ Left \ Unreadable \subseteq Owed(t)
        /\ stats.files = Cardinality((Handled \ Dirs) \ (IF command.dryRun THEN {} ELSE Stuck))
        /\ command.dryRun => stats.dirs = Cardinality(Handled \cap Dirs)

(* No target is taken twice, and none takes another one along.               *)
Apart ==
    Counted =>
        /\ \A t \in Nodes : target = t => ~ToCome(t)
        /\ \A t \in Nodes : ToCome(t) => t \in Targets /\ Within(t) \subseteq present

LEMMA TargetsDisjoint == IInv /\ OInv => Apart
<1> SUFFICES ASSUME IInv, OInv, Counted PROVE Apart
  BY DEF Apart
<1> PICK m, w, ix : m \in Nat /\ w \in Nat /\ LinedUp(m, w, ix)
  BY SomeOrder DEF IInv, OInv, Counted
<1> PICK n \in Nat : n = Len(command.targets) /\ DOMAIN command.targets = 1 .. n
  BY Targeted DEF IInv
<1>1. waiting \in Seq(Paths) /\ queue \in Seq(SUBSET Nodes) /\ present \subseteq Nodes /\ removed \subseteq Nodes \X Nodes
      /\ target \in Nodes \cup {None}
  BY DEF IInv, TypeOK
<1> PICK l \in Nat : l = Len(waiting) /\ DOMAIN waiting = 1 .. l
  BY <1>1
<1>2. m <= w /\ w + l = n
  BY DEF LinedUp
<1>3. ASSUME NEW i \in 1 .. n, NEW j \in 1 .. n, i # j, Given(j) \in Nodes PROVE Given(i) \notin Up[Given(j)]
  BY <1>3, WorldAssumption DEF Counted, Overlapping, Given
<1>4. ASSUME NEW t \in Nodes, ToCome(t) PROVE \E j \in (m + 1) .. n : t = Given(j)
  <2>1. CASE \E i \in DOMAIN waiting : Object[waiting[i]] = t
    <3> PICK i \in 1 .. l : Object[waiting[i]] = t
      BY <2>1
    <3>1. t = Given(w + i)
      BY DEF LinedUp, Given
    <3>2. w + i \in (m + 1) .. n
      BY <1>2
    <3> QED
      BY <3>1, <3>2
  <2>2. CASE \E k \in DOMAIN queue : t \in queue[k]
    <3> PICK k \in DOMAIN queue : t \in queue[k]
      BY <2>2
    <3>1. ix[k] \in (m + 1) .. w /\ t = Given(ix[k])
      BY DEF LinedUp
    <3>2. (m + 1) .. w \subseteq (m + 1) .. n
      BY <1>2
    <3> QED
      BY <3>1, <3>2
  <2> QED
    BY <1>4, <2>1, <2>2 DEF ToCome
<1>5. ASSUME NEW i \in 1 .. m, NEW j \in (m + 1) .. n PROVE i \in 1 .. n /\ j \in 1 .. n /\ i # j
  BY <1>2
<1>6. ASSUME target \in Nodes, ToCome(target) PROVE FALSE
  <2> PICK i \in 1 .. m : target = Given(i)
    BY <1>6, WorldAssumption DEF LinedUp
  <2> PICK j \in (m + 1) .. n : target = Given(j)
    BY <1>1, <1>4, <1>6
  <2>1. target \in Nodes /\ target \in Up[target]
    BY <1>1, <1>6, UpSteps
  <2> QED
    BY <1>3, <1>5, <2>1
<1>7. ASSUME NEW t \in Nodes, ToCome(t) PROVE t \in Targets /\ Within(t) \subseteq present
  <2> PICK j \in (m + 1) .. n : t = Given(j)
    BY <1>4, <1>7
  <2>1. j \in 1 .. n
    OBVIOUS
  <2>2. t \in Targets
    BY <2>1, WorldAssumption DEF Targets, Named, Given
  <2>3. ASSUME NEW x \in Within(t), x \notin present PROVE FALSE
    <3>1. x \in Nodes /\ t \in Up[x]
      BY DEF Within
    <3> PICK u \in Nodes : <<x, u>> \in removed
      BY <2>3, <3>1 DEF OInv, Removals
    <3>2. u \in Up[x]
      BY DEF OInv, Removals, Within
    <3> PICK i \in 1 .. m : u = Given(i)
      BY DEF LinedUp
    <3>3. t \in Up[u] \/ u \in Up[t]
      BY <3>1, <3>2, UpChain
    <3> QED
      BY <1>3, <1>5, <3>3
  <2> QED
    BY <2>2, <2>3
<1> QED
  BY <1>6, <1>7 DEF Apart

(* What the scan yields lies below no directory that cannot be read.         *)
LEMMA ItemsVisible ==
    ASSUME NEW t \in Nodes, NEW f, NEW dev
    PROVE  Items(t, f, dev) \subseteq Visible(t)
<1> SUFFICES ASSUME NEW n \in Items(t, f, dev) PROVE n \in Visible(t)
  OBVIOUS
<1>1. n \in Within(t)
  BY ItemsWithin
<1>2. CASE n \in Opened(t, f, dev)
  BY <1>1, <1>2 DEF Opened, Visible
<1>3. CASE n \in FileItems(t, f, dev)
  <2>1. n \in Nodes \ Dirs /\ n # Top /\ Parent[n] \in Opened(t, f, dev) \ Unreadable
    BY <1>3, WorldAssumption DEF FileItems, Below, Within
  <2>2. Up[n] \ {n} \subseteq (Up[Parent[n]] \ {Parent[n]}) \cup {Parent[n]}
    BY <2>1, UpSteps
  <2>3. (Up[Parent[n]] \ {Parent[n]}) \cap Within(t) \cap Unreadable = {}
    BY <2>1 DEF Opened
  <2> QED
    BY <1>1, <2>1, <2>2, <2>3 DEF Visible
<1> QED
  BY <1>2, <1>3 DEF Items, ScanErrors, DirItems

(* What a run begins with is what is owed, and errors.                       *)
LEMMA RunOwes ==
    ASSUME command \in Commands, command' = command, TypeOK', Ordered', OwnDevice',
           Deletes, ~Exempt, NEW t \in Nodes, SingleTarget(t) \/ DirectoryTarget(t), Within(t) \subseteq present
    PROVE  chosen' \ Unreadable = Owed(t) /\ chosen' \subseteq Within(t)
<1>1. CASE SingleTarget(t)
  <2>1. t \in Nodes \ Dirs /\ chosen' = {t} /\ t \notin Unreadable /\ t \in Within(t)
    BY <1>1, WithinSelf, WorldAssumption DEF SingleTarget
  <2>2. Selected(t) = {t} /\ Within(t) = {t}
    BY <2>1, WithinFile DEF Selected
  <2>3. Visible(t) = {t}
    BY <2>1, <2>2 DEF Visible
  <2> QED
    BY <2>1, <2>2, <2>3 DEF Owed
<1>2. CASE DirectoryTarget(t)
  <2> PICK f : f = Filter
    OBVIOUS
  <2>1. t \in Dirs /\ ~command.trash /\ IsFilter(f)
    BY <1>2, FilterType DEF DirectoryTarget, Next1
  <2> PICK dev : chosen' = Items(t, f, dev) \cap present /\ (f.oneFileSystem => dev = Entry[t].dev)
    BY <1>2, RunScans
  <2>2. chosen' = Items(t, f, dev) /\ chosen' \subseteq Within(t)
    BY ItemsWithin
  <2>3. Selected(t) = Within(t) \ (PassedOver(f, t) \cup (IF f.oneFileSystem THEN Foreign(t) ELSE {}))
    BY <2>1, SamePassedOver DEF Selected
  <2>4. ASSUME NEW n \in Items(t, f, dev) \ Unreadable PROVE n \in Owed(t)
    <3>1. n \notin PassedOver(f, t)
      BY <2>1, ItemsSelected
    <3>2. f.oneFileSystem => n \notin Foreign(t)
      BY ItemsAtHome
    <3>3. n \in Within(t) /\ n \in Visible(t)
      BY ItemsWithin, ItemsVisible
    <3> QED
      BY <2>3, <3>1, <3>2, <3>3 DEF Owed
  <2>5. ASSUME NEW n \in Owed(t) PROVE n \in Items(t, f, dev)
    <3>1. n \in Within(t) \ PassedOver(f, t) /\ (f.oneFileSystem => n \notin Foreign(t))
      BY <2>3 DEF Owed
    <3>2. n \in Items(t, f, dev) \/ \E d \in Items(t, f, dev) \cap Unreadable : d \in Up[n]
      BY <2>1, <3>1, ScanComplete
    <3>3. ASSUME NEW d \in Items(t, f, dev) \cap Unreadable, d \in Up[n] PROVE FALSE
      <4>1. d \in Within(t) /\ d # n
        BY <3>3, ItemsWithin DEF Owed
      <4> QED
        BY <3>3, <4>1 DEF Owed, Visible
    <3> QED
      BY <3>2, <3>3
  <2> QED
    BY <2>2, <2>4, <2>5 DEF Owed
<1> QED
  BY <1>1, <1>2

(* The sums. *)
LEMMA OneMore ==
    ASSUME NEW S \in SUBSET Nodes, NEW x \in Nodes
    PROVE  /\ Cardinality(S) \in Nat
           /\ x \notin S => Cardinality(S \cup {x}) = Cardinality(S) + 1
<1>1. IsFiniteSet(S)
  BY WorldAssumption, FS_Subset
<1> QED
  BY <1>1, FS_CardinalityType, FS_AddElement

LEMMA CountOne ==
    ASSUME NEW k \in {"files", "dirs", "failed"}, stats \in [DOMAIN NoStats -> Nat], Count(k)
    PROVE  /\ stats'.files = IF k = "files" THEN stats.files + 1 ELSE stats.files
           /\ stats'.dirs = IF k = "dirs" THEN stats.dirs + 1 ELSE stats.dirs
BY DEF Count, NoStats

LEMMA OwedWithin ==
    ASSUME NEW t
    PROVE  Owed(t) \subseteq Within(t) \ Unreadable /\ Owed(t) \subseteq Nodes
BY SelectedWithin DEF Owed, Within

(* Queueing a target leaves the others where they are.                       *)
LEMMA AcceptBegun ==
    ASSUME TypeOK, waiting # <<>>, Accept, NEW u \in Nodes
    PROVE  ToCome(u)' <=> ToCome(u)
<1>1. /\ queue \in Seq(SUBSET Nodes) /\ waiting \in Seq(Paths)
      /\ queue' = Append(queue, {Object[First]}) /\ waiting' = Tail(waiting)
  BY DEF TypeOK, Accept
<1>2. 1 \in DOMAIN waiting /\ waiting[1] = First
  BY <1>1 DEF First
<1>3. ASSUME NEW i \in DOMAIN waiting', Object[waiting'[i]] = u PROVE ToCome(u)
  <2> PICK w \in Seq(Paths) : w = waiting
    BY <1>1
  <2>1. i + 1 \in DOMAIN w /\ Tail(w)[i] = w[i + 1]
    BY <1>1
  <2> QED
    BY <1>1, <1>3, <2>1 DEF ToCome
<1>4. ASSUME NEW k \in DOMAIN queue', u \in queue'[k] PROVE ToCome(u)
  <2> PICK q \in Seq(SUBSET Nodes) : q = queue
    BY <1>1
  <2> PICK o : o = Object[First]
    OBVIOUS
  <2>1. k \in DOMAIN Append(q, {o}) /\ queue'[k] = Append(q, {o})[k]
    BY <1>1
  <2>2. queue'[k] = {o} \/ (k \in DOMAIN q /\ queue'[k] = q[k])
    BY <2>1, AppendedItems
  <2> QED
    BY <1>2, <1>4, <2>2 DEF ToCome
<1> QED
  BY <1>3, <1>4, AcceptToCome DEF ToCome

(* What one entry adds. *)
LEMMA ProcessTally ==
    ASSUME TypeOK, Counted, ~event, Tally, Targets \subseteq Nodes,
           UNCHANGED <<pc, target>>, Begun' = Begun, \A t : Owed(t)' = Owed(t), command' = command,
           NEW n \in Nodes, Process(n), target \in Nodes
    PROVE  Tally'
<1>1. /\ Left = chosen /\ n \in chosen /\ Left' = chosen \ {n} /\ stats \in [DOMAIN NoStats -> Nat]
      /\ pc \in {"scan", "call"}
  BY DEF Process, Due, Left, TypeOK
<1> PICK u \in Nodes : u = target
  OBVIOUS
<1>0. u \in Begun /\ Left \ Unreadable \subseteq Owed(u)
  BY <1>1 DEF Tally
<1>2. \A t \in Nodes : pc' \in {"scan", "call"} /\ target' = t => t \in Begun' /\ Left' \ Unreadable \subseteq Owed(t)'
  BY <1>0, <1>1
<1> DEFINE X == IF command.dryRun THEN {} ELSE Stuck
           All == (UNION {Owed(t) : t \in Begun})
<1>3. Handled = All \ chosen /\ Handled' = All \ (chosen \ {n}) /\ All \in SUBSET Nodes /\ Handled \in SUBSET Nodes
  BY <1>1, OwedWithin DEF Handled
<1>4. /\ stats.files = Cardinality((Handled \ Dirs) \ X)
      /\ command.dryRun => stats.dirs = Cardinality(Handled \cap Dirs)
  BY DEF Tally
<1>5. SUFFICES /\ stats'.files = Cardinality((Handled' \ Dirs) \ X)
               /\ command.dryRun => stats'.dirs = Cardinality(Handled' \cap Dirs)
  BY <1>2 DEF Tally
<1>6. CASE n \in Unreadable
  <2>1. n \notin All /\ Count("failed")
    BY <1>6, OwedWithin DEF Process
  <2>2. Handled' = Handled
    BY <1>1, <1>3, <2>1
  <2> QED
    BY <1>1, <1>4, <2>1, <2>2, CountOne
<1>7. CASE n \notin Unreadable
  <2>1. n \in All /\ n \notin Handled /\ Handled' = Handled \cup {n}
    BY <1>0, <1>1, <1>3, <1>7
  <2> HIDE DEF All
  <2> PICK H \in SUBSET Nodes : H = Handled
    BY <1>3
  <2>2. \A S : n \in S => (H \cup {n}) \ S = H \ S
    OBVIOUS
  <2>3. CASE n \in Dirs
    <3>1. (Handled' \ Dirs) \ X = (H \ Dirs) \ X /\ Handled' \cap Dirs = (H \cap Dirs) \cup {n}
      BY <2>1, <2>3
    <3>2. stats'.files = stats.files
      BY <1>1, <1>7, <2>3, CountOne DEF Process, Dispose, TypeCounter, Simulated
    <3>3. command.dryRun => stats'.dirs = stats.dirs + 1
      BY <1>1, <1>7, <2>3, CountOne DEF Process, TypeCounter, Simulated
    <3>4. Cardinality((H \cap Dirs) \cup {n}) = Cardinality(H \cap Dirs) + 1
      BY <2>1, OneMore
    <3> QED
      BY <1>4, <3>1, <3>2, <3>3, <3>4
  <2>4. CASE n \notin Dirs
    <3>1. Children(n) = {} /\ TypeCounter(n) = "files"
      BY <2>4, WorldAssumption DEF Children, TypeCounter
    <3>2. Handled' \cap Dirs = H \cap Dirs
      BY <2>1, <2>4
    <3>3. CASE n \in X
      <4>1. ~command.dryRun /\ Count("failed")
        BY <1>7, <3>1, <3>3 DEF Process, Simulated
      <4>2. (Handled' \ Dirs) \ X = (H \ Dirs) \ X
        BY <2>1, <3>3
      <4> QED
        BY <1>1, <1>4, <4>1, <4>2, CountOne
    <3>4. CASE n \notin X
      <4>1. Count("files")
        BY <1>7, <3>1, <3>4 DEF Process, Simulated, Dispose
      <4>2. stats'.files = stats.files + 1 /\ stats'.dirs = stats.dirs
        BY <1>1, <4>1, CountOne
      <4>3. (Handled' \ Dirs) \ X = ((H \ Dirs) \ X) \cup {n} /\ n \notin (H \ Dirs) \ X
        BY <2>1, <2>4, <3>4
      <4>4. Cardinality((Handled' \ Dirs) \ X) = Cardinality((H \ Dirs) \ X) + 1
        BY <4>3, OneMore
      <4> QED
        BY <1>4, <3>2, <4>2, <4>4
    <3> QED
      BY <3>3, <3>4
  <2> QED
    BY <2>3, <2>4
<1> QED
  BY <1>6, <1>7

(* Nothing is in two targets. *)
LEMMA WithinApart ==
    ASSUME Counted, NEW t \in Targets, NEW u \in Targets, t # u
    PROVE  Within(t) \cap Within(u) = {}
<1> PICK i \in DOMAIN command.targets, j \in DOMAIN command.targets :
        t = Object[command.targets[i]] /\ u = Object[command.targets[j]] /\ t # None /\ u # None
  BY DEF Targets, Named
<1>1. i # j /\ t \notin Up[u] /\ u \notin Up[t]
  BY DEF Counted, Overlapping
<1> QED
  BY <1>1, UpChain DEF Within

(* Nothing is queued when a target is taken. *)
LEMMA NextCame ==
    ASSUME TypeOK, NEW t \in Nodes, Next1(t), UNCHANGED waiting, NEW u \in Nodes, ToCome(u)'
    PROVE  ToCome(u)
<1> PICK q \in Seq(SUBSET Nodes) : q = queue /\ q # <<>>
  BY DEF TypeOK, Next1
<1>1. CASE \E i \in DOMAIN waiting' : Object[waiting'[i]] = u
  BY <1>1 DEF ToCome
<1>2. ASSUME NEW k \in DOMAIN queue', u \in queue'[k] PROVE ToCome(u)
  <2>1. CASE queue' = Tail(q)
    <3>1. k + 1 \in DOMAIN q /\ Tail(q)[k] = q[k + 1]
      BY <1>2, <2>1
    <3> QED
      BY <1>2, <2>1, <3>1 DEF ToCome
  <2>2. CASE queue' = [q EXCEPT ![1] = @ \ {t}]
    <3>1. k \in DOMAIN q /\ queue'[k] \subseteq q[k]
      BY <1>2, <2>2, Shrunk
    <3> QED
      BY <1>2, <3>1 DEF ToCome
  <2> QED
    BY <2>1, <2>2 DEF Next1
<1> QED
  BY <1>1, <1>2 DEF ToCome

(* A run begins, and all it will handle is still to come.                    *)
LEMMA BeginTally ==
    ASSUME Counted, ~event, Tally, \A t : Owed(t)' = Owed(t), command' = command,
           NEW u \in Nodes, pc = "execute", target' = u, pc' \in {"scan", "call"}, UNCHANGED stats,
           Begun \subseteq Nodes, Begun' = Begun \cup {u}, chosen' \ Unreadable = Owed(u),
           chosen' \subseteq Within(u), \A t \in Begun : Within(t) \cap Within(u) = {}
    PROVE  Tally'
<1>1. Left = {} /\ Left' = chosen'
  BY DEF Left
<1>2. \A t \in Nodes : pc' \in {"scan", "call"} /\ target' = t => t \in Begun' /\ Left' \ Unreadable \subseteq Owed(t)'
  BY <1>1
<1>3. Handled' = Handled
  <2>1. Handled' = (UNION {Owed(t) : t \in Begun \cup {u}}) \ chosen'
    BY <1>1 DEF Handled
  <2>2. Handled = UNION {Owed(t) : t \in Begun}
    BY <1>1 DEF Handled
  <2>3. Owed(u) \subseteq chosen'
    OBVIOUS
  <2>4. \A t \in Begun : Owed(t) \cap chosen' = {}
    BY OwedWithin
  <2> QED
    BY <2>1, <2>2, <2>3, <2>4
<1> QED
  BY <1>2, <1>3 DEF Tally

LEMMA TallyStep ==
    IInv /\ IInv' /\ OInv /\ OInv' /\ Apart /\ Apart' /\ Tally /\ [Next]_vars => Tally'
<1> SUFFICES ASSUME TypeOK, TypeOK', command \in Commands, command' = command, Prompted, Aimed, Settled,
                    Coded, Grounded, Ordered', OwnDevice', Apart, Apart', Tally, [Next]_vars, Counted, ~event'
             PROVE  Tally'
  <2>1. command' = command => (Counted' <=> Counted)
    BY DEF Counted, Deletes, Overlapping, Exempt, Filter, Kind
  <2> QED
    BY <2>1, TypeStep DEF IInv, OInv, Tally
<1>1. /\ waiting \in Seq(Paths) /\ queue \in Seq(SUBSET Nodes) /\ present \subseteq Nodes
      /\ stats \in [DOMAIN NoStats -> Nat] /\ target \in Nodes \cup {None}
  BY DEF TypeOK
<1>2. /\ Deletes /\ ~command.trash /\ ~Exempt /\ ~Kind("clean") /\ ~Kind("du")
      /\ Targets' = Targets /\ Targets \subseteq Nodes /\ \A t : Owed(t)' = Owed(t)
  <2>1. Targets' = Targets
    BY DEF Targets, Named
  <2>2. \A t : Owed(t)' = Owed(t)
    BY SelectedStays DEF Owed, Visible
  <2>3. Targets \subseteq Nodes
    BY Targeted, WorldAssumption DEF Targets, Named
  <2> QED
    BY <2>1, <2>2, <2>3 DEF Counted, Deletes, Kind
<1>3. ASSUME ~event, Begun' = Begun, UNCHANGED <<stats.files, stats.dirs>>,
             UNCHANGED <<pc, target, chosen>> \/ (Left = {} /\ pc' \notin {"scan", "call"})
      PROVE  Tally'
  <2>1. Left' = Left
    BY <1>3 DEF Left
  <2>2. Handled' = Handled
    BY <1>2, <1>3, <2>1 DEF Handled
  <2>3. \A t \in Nodes : pc' \in {"scan", "call"} /\ target' = t => t \in Begun' /\ Left' \ Unreadable \subseteq Owed(t)'
    BY <1>2, <1>3, <2>1 DEF Tally
  <2> QED
    BY <1>3, <2>2, <2>3 DEF Tally
<1>4. ASSUME UNCHANGED <<waiting, queue>> PROVE Begun' = Begun
  BY <1>2, <1>4 DEF Begun, ToCome
<1>5. ASSUME ~event, UNCHANGED <<waiting, queue, stats>>, pc \notin {"scan", "call"}, pc' \notin {"scan", "call"}
      PROVE  Tally'
  BY <1>3, <1>4, <1>5 DEF Left
<1>6. ASSUME ~event, waiting # <<>>, Accept, UNCHANGED stats, pc \notin {"scan", "call"} PROVE Tally'
  <2>1. Begun' = Begun
    BY <1>2, <1>6, AcceptBegun DEF Begun
  <2>2. pc' \notin {"scan", "call"}
    BY <1>6 DEF Accept
  <2> QED
    BY <1>3, <1>6, <2>1, <2>2 DEF Left
<1> USE DEF Exit, KeepAll, history
<1>7. CASE StartDelete \/ Confirmed \/ NextOfMany
  BY <1>5, <1>7 DEF StartDelete, Confirmed, NextOfMany, signals
<1>8. CASE StartClean \/ StartDu \/ Visit
  BY <1>2, <1>8 DEF StartClean, StartDu, Visit, Coded
<1>9. CASE Inspect
  <2>1. CASE Asks
    BY <1>5, <1>9, <2>1 DEF Inspect, signals
  <2>2. CASE ~Asks
    BY <1>6, <1>9, <2>2 DEF Inspect, signals
  <2> QED
    BY <2>1, <2>2
<1>10. CASE InspectUnsafe \/ Decline \/ Finish
  BY <1>5, <1>10 DEF InspectUnsafe, Decline, Finish, signals
<1>11. CASE InspectMissing
  <2>1. CASE Kind("many")
    BY <1>5, <1>11, <2>1 DEF InspectMissing, signals
  <2>2. CASE ~Kind("many")
    <3>1. /\ waiting' = Tail(waiting) /\ Count("failed") /\ UNCHANGED <<pc, queue, event>> /\ waiting # <<>>
          /\ Object[First] \notin present /\ pc = "inspect"
      BY <1>11, <2>2 DEF InspectMissing, Reached, signals
    <3>2. UNCHANGED <<stats.files, stats.dirs>>
      BY <1>1, <3>1, CountOne
    <3>3. ASSUME NEW t \in Nodes, ToCome(t) PROVE ToCome(t)'
      <4>1. CASE \E k \in DOMAIN queue : t \in queue[k]
        BY <3>1, <4>1 DEF ToCome
      <4>2. CASE \E i \in DOMAIN waiting : Object[waiting[i]] = t
        <5> PICK i \in DOMAIN waiting : Object[waiting[i]] = t
          BY <4>2
        <5>1. t \in present
          BY <3>3, WithinSelf DEF Apart
        <5>2. waiting[i] # Head(waiting)
          BY <3>1, <5>1 DEF First
        <5>3. \E j \in DOMAIN Tail(waiting) : Tail(waiting)[j] = waiting[i]
          BY <1>1, <3>1, <5>2, TailRest
        <5> QED
          BY <3>1, <5>3 DEF ToCome
      <4> QED
        BY <3>3, <4>1, <4>2 DEF ToCome
    <3>4. ASSUME NEW t \in Nodes, ToCome(t)' PROVE ToCome(t)
      <4>1. CASE \E k \in DOMAIN queue : t \in queue[k]
        BY <4>1 DEF ToCome
      <4>2. CASE \E i \in DOMAIN waiting' : Object[waiting'[i]] = t
        <5> PICK w \in Seq(Paths) : w = waiting /\ w # <<>> /\ waiting' = Tail(w)
          BY <1>1, <3>1
        <5> PICK i \in DOMAIN Tail(w) : Object[Tail(w)[i]] = t
          BY <4>2
        <5>1. i + 1 \in DOMAIN w /\ Tail(w)[i] = w[i + 1]
          OBVIOUS
        <5> QED
          BY <5>1 DEF ToCome
      <4> QED
        BY <3>1, <3>4, <4>1, <4>2 DEF ToCome
    <3>5. Begun' = Begun
      BY <1>2, <3>3, <3>4 DEF Begun
    <3> QED
      BY <1>3, <3>1, <3>2, <3>5 DEF Left
  <2> QED
    BY <2>1, <2>2
<1>12. ASSUME NEW t \in Nodes, TrashTarget(t) PROVE FALSE
  BY <1>2, <1>12 DEF TrashTarget
<1>13. ASSUME NEW t \in Nodes, Next1(t) PROVE t \in Targets /\ Within(t) \subseteq present /\ ToCome(t)
  <2>1. 1 \in DOMAIN queue /\ t \in queue[1]
    BY <1>1, <1>13 DEF Next1
  <2>2. ToCome(t)
    BY <2>1 DEF ToCome
  <2> QED
    BY <2>2 DEF Apart
<1>14. ASSUME NEW t \in Nodes, TargetGone(t) PROVE FALSE
  BY <1>13, <1>14, WithinSelf DEF TargetGone
<1>15. ASSUME NEW t \in Nodes, SingleTarget(t) \/ DirectoryTarget(t) PROVE Tally'
  <2>1. /\ Next1(t) /\ ~event /\ pc = "execute" /\ pc' \in {"scan", "call"} /\ target' = t
        /\ UNCHANGED <<waiting, stats, present>>
    BY <1>15 DEF SingleTarget, DirectoryTarget, Next1
  <2>2. t \in Targets /\ Within(t) \subseteq present /\ ToCome(t)
    BY <1>13, <2>1
  <2>3. chosen' \ Unreadable = Owed(t) /\ chosen' \subseteq Within(t)
    BY <1>2, <1>15, <2>2, RunOwes
  <2>4. ~ToCome(t)'
    BY <1>2, <2>1 DEF Apart, Counted, Deletes, Overlapping, Exempt, Filter, Kind
  <2>5. Begun' = Begun \cup {t} /\ t \notin Begun
    <3>1. ASSUME NEW u \in Nodes, u # t PROVE ToCome(u)' <=> ToCome(u)
      BY <2>1, <3>1, NextToCome, NextCame
    <3> QED
      BY <1>2, <2>2, <2>4, <3>1 DEF Begun
  <2>6. \A u \in Begun : Within(u) \cap Within(t) = {}
    BY <2>2, <2>5, WithinApart DEF Begun
  <2> QED
    BY <1>2, <2>1, <2>3, <2>5, <2>6, BeginTally DEF Begun
<1>16. ASSUME NEW n \in Nodes, Process(n) PROVE Tally'
  <2>1. ~event /\ UNCHANGED <<pc, waiting, queue, target>> /\ target \in Nodes
    BY <1>16 DEF Process, Aimed
  <2>2. Begun' = Begun
    BY <1>4, <2>1
  <2> QED
    BY <1>2, <1>16, <2>1, <2>2, ProcessTally
<1>17. CASE RunReturns
  <2>1. /\ chosen = {} /\ UNCHANGED <<waiting, queue, target, stats, event>> /\ pc' = "execute"
        /\ Left = {}
    BY <1>17 DEF RunReturns, signals, Left
  <2> QED
    BY <1>3, <1>4, <2>1
<1>18. CASE Consent
  <2>1. waiting # <<>> /\ pc \in {"prompt", "secondary"} /\ UNCHANGED <<stats, event>>
    BY <1>18 DEF Consent, Prompted, signals
  <2>2. CASE pc = "prompt" /\ Twice
    BY <1>5, <1>18, <2>1, <2>2 DEF Consent
  <2>3. CASE ~(pc = "prompt" /\ Twice)
    BY <1>6, <1>18, <2>1, <2>3 DEF Consent
  <2> QED
    BY <2>2, <2>3
<1>19. CASE Interrupt
  BY <1>2, <1>5, <1>19 DEF Interrupt, Kind
<1>20. CASE Arrive \/ Deliver \/ EnterSet \/ UNCHANGED vars
  <2>1. UNCHANGED <<main, event>>
    BY <1>20 DEF Arrive, Deliver, EnterSet, vars, signals
  <2>2. UNCHANGED <<pc, waiting, queue, target, chosen, stats>>
    BY <2>1 DEF main
  <2> QED
    BY <1>3, <1>4, <2>1, <2>2
<1>21. CASE LeaveSet
  BY <1>21 DEF LeaveSet
<1> QED
  BY <1>7, <1>8, <1>9, <1>10, <1>11, <1>12, <1>14, <1>15, <1>16, <1>17, <1>18, <1>19, <1>20, <1>21
     DEF Next, Program, User, Handler, Finished

LEMMA Tallied == Spec => [](Apart /\ Tally)
<1>1. Init => Tally
  <2> SUFFICES ASSUME Init PROVE Tally
    OBVIOUS
  <2>1. /\ stats.files = 0 /\ stats.dirs = 0 /\ pc = "start" /\ waiting = command.targets
    BY DEF Init, NoStats
  <2>2. Begun = {} /\ Handled = {}
    BY <2>1 DEF Begun, Handled, Targets, Named, ToCome
  <2>3. Cardinality({}) = 0
    BY FS_EmptySet
  <2> QED
    BY <2>1, <2>2, <2>3 DEF Tally
<1> QED
  BY Invariant, Outcome, TargetsDisjoint, TallyStep, <1>1, PTL DEF Spec

(* A dry run changes nothing, and its count of the files is that of the ones *)
(* a real run deletes or fails to delete, each once; it counts each          *)
(* directory that a real run would empty: scan, delete_file_entry,           *)
(* delete_dir_entry, DeletionStats.                                          *)
THEOREM DryRuns == Spec => []DryRunTruth
<1>1. IInv /\ OInv /\ Tally => DryRunTruth
  <2> SUFFICES ASSUME IInv, OInv, Tally, Counted, code \in {"ok", "failed"} PROVE DryRunTruth
    BY DEF DryRunTruth, Counted
  <2> DEFINE visible == UNION {Selected(t) \cap Visible(t) : t \in Targets}
             files   == visible \ Dirs
             emptied == {d \in (visible \cap Dirs) \ Unreadable : Within(d) \subseteq visible \ Unreadable}
  <2>1. pc = "exit" /\ ~event /\ waiting = <<>> /\ queue = <<>>
    BY DEF OInv, Coded, Alarmed, Over, Counted
  <2>2. Begun = Targets /\ Left = {}
    BY <2>1 DEF Begun, ToCome, Left
  <2>3. Handled = visible \ Unreadable
    BY <2>2 DEF Handled, Owed
  <2>4. Handled \ Dirs = files
    BY <2>3, WorldAssumption
  <2>5. visible \subseteq Nodes
    BY SelectedWithin DEF Within
  <2> HIDE DEF visible
  <2>6. stats.files = Cardinality(files \ (IF command.dryRun THEN {} ELSE Stuck))
    BY <2>1, <2>4 DEF Tally
  <2>7. CASE command.dryRun
    <3>1. stats.dirs = Cardinality(Handled \cap Dirs)
      BY <2>1, <2>7 DEF Tally
    <3>2. emptied \in SUBSET (Handled \cap Dirs) /\ IsFiniteSet(Handled \cap Dirs)
      BY <2>3, <2>5, WorldAssumption, FS_Subset
    <3>3. Cardinality(emptied) <= Cardinality(Handled \cap Dirs)
      BY <3>2, FS_Subset
    <3>4. Cardinality(emptied) \in Nat /\ Cardinality(Handled \cap Dirs) \in Nat
      BY <3>2, FS_Subset, FS_CardinalityType
    <3>5. stats.dirs >= Cardinality(emptied)
      BY <3>1, <3>3, <3>4
    <3>6. removed = {} /\ stats.files = Cardinality(files)
      BY <2>6, <2>7 DEF IInv, Settled
    <3> QED
      BY <2>7, <3>5, <3>6 DEF DryRunTruth, visible
  <2>8. CASE ~command.dryRun
    BY <2>6, <2>8 DEF DryRunTruth, visible
  <2> QED
    BY <2>7, <2>8
<1> QED
  BY Invariant, Outcome, Tallied, <1>1, PTL

-----------------------------------------------------------------------------
(* The sum of the sizes of a set of files.                                   *)

Bytes(S) == MapThenSumSet(SizeOf, S)

(* A set of sets that holds the empty one, and each set when it holds what   *)
(* remains of it without any one entry, holds every set of entries.          *)
LEMMA Growing ==
    ASSUME NEW C, {} \in C,
           \A S \in SUBSET Nodes : S # {} /\ (\A x \in S : S \ {x} \in C) => S \in C
    PROVE  SUBSET Nodes \subseteq C
<1> SUFFICES ASSUME NEW S0 \in SUBSET Nodes, S0 \notin C PROVE FALSE
  OBVIOUS
<1> DEFINE bad == {S \in SUBSET Nodes : S \notin C}
           sizes == {Cardinality(S) : S \in bad}
<1>1. \A S \in SUBSET Nodes : IsFiniteSet(S) /\ Cardinality(S) \in Nat
  BY WorldAssumption, FS_Subset, FS_CardinalityType
<1>2. sizes \subseteq Nat /\ sizes # {}
  BY <1>1
<1>3. PICK k \in sizes : \A y \in sizes : k <= y
  BY <1>2, Least
<1>4. PICK S \in bad : k = Cardinality(S)
  BY <1>3
<1>5. PICK x \in S : S \ {x} \notin C
  BY <1>4
<1>6. S \ {x} \in bad
  BY <1>4, <1>5
<1>7. Cardinality(S \ {x}) = k - 1 /\ k \in Nat /\ k <= Cardinality(S \ {x})
  BY <1>1, <1>3, <1>4, <1>5, <1>6, FS_RemoveElement
<1> QED
  BY <1>7

(* Each file with as many numbers as it has bytes. *)
Spread(S)  == UNION {{n} \X (1 .. SizeOf(n)) : n \in S}

LEMMA SizeType ==
    ASSUME NEW n \in Nodes
    PROVE  SizeOf(n) \in Nat
BY WorldAssumption DEF SizeOf

LEMMA SpreadOne ==
    ASSUME NEW n \in Nodes
    PROVE  IsFiniteSet({n} \X (1 .. SizeOf(n))) /\ Cardinality({n} \X (1 .. SizeOf(n))) = SizeOf(n)
<1> PICK k \in Nat : k = SizeOf(n)
  BY SizeType
<1> DEFINE f == [i \in 1 .. k |-> <<n, i>>]
<1>1. f \in Bijection(1 .. k, {n} \X (1 .. k))
  <2>1. f \in [1 .. k -> {n} \X (1 .. k)] /\ \A i, j \in 1 .. k : f[i] = f[j] => i = j
    OBVIOUS
  <2>2. ASSUME NEW t \in {n} \X (1 .. k) PROVE \E i \in 1 .. k : f[i] = t
    <3>1. t[2] \in 1 .. k /\ f[t[2]] = t
      OBVIOUS
    <3> QED
      BY <3>1
  <2> HIDE DEF f
  <2> QED
    BY <2>1, <2>2 DEF Bijection, Injection, Surjection, IsInjective
<1>2. ExistsBijection(1 .. k, {n} \X (1 .. k))
  BY <1>1 DEF ExistsBijection
<1>3. IsFiniteSet(1 .. k) /\ Cardinality(1 .. k) = k
  BY FS_Interval
<1> QED
  BY <1>2, <1>3, FS_Bijection

LEMMA SpreadRest ==
    ASSUME NEW S \in SUBSET Nodes, NEW x \in S
    PROVE  /\ Spread(S) = Spread(S \ {x}) \cup ({x} \X (1 .. SizeOf(x)))
           /\ Spread(S \ {x}) \cap ({x} \X (1 .. SizeOf(x))) = {}
BY DEF Spread

LEMMA SpreadFinite == \A S \in SUBSET Nodes : IsFiniteSet(Spread(S))
<1> DEFINE C == {S \in SUBSET Nodes : IsFiniteSet(Spread(S))}
<1>1. {} \in C
  BY FS_EmptySet DEF Spread
<1>2. ASSUME NEW S \in SUBSET Nodes, S # {}, \A x \in S : S \ {x} \in C PROVE S \in C
  <2> PICK x \in S : S \ {x} \in C
    BY <1>2
  <2>1. IsFiniteSet(Spread(S \ {x})) /\ IsFiniteSet({x} \X (1 .. SizeOf(x)))
    BY SpreadOne
  <2>2. IsFiniteSet(Spread(S \ {x}) \cup ({x} \X (1 .. SizeOf(x))))
    BY <2>1, FS_Union
  <2>3. IsFiniteSet(Spread(S))
    BY <2>2, SpreadRest
  <2> QED
    BY <2>3
<1> HIDE DEF C
<1>3. SUBSET Nodes \subseteq C
  BY <1>1, <1>2, Growing
<1> QED
  BY <1>3 DEF C

LEMMA SpreadSum ==
    ASSUME NEW S \in SUBSET Nodes
    PROVE  /\ Cardinality(Spread(S)) \in Nat
           /\ S = {} => Cardinality(Spread(S)) = 0
           /\ \A x \in S : Cardinality(Spread(S)) = SizeOf(x) + Cardinality(Spread(S \ {x}))
<1>1. Cardinality(Spread(S)) \in Nat
  BY SpreadFinite, FS_CardinalityType
<1>2. S = {} => Cardinality(Spread(S)) = 0
  BY FS_EmptySet DEF Spread
<1>3. ASSUME NEW x \in S PROVE Cardinality(Spread(S)) = SizeOf(x) + Cardinality(Spread(S \ {x}))
  <2> PICK T : T = {x} \X (1 .. SizeOf(x))
    OBVIOUS
  <2> PICK U : U = Spread(S \ {x})
    OBVIOUS
  <2>1. IsFiniteSet(T) /\ Cardinality(T) = SizeOf(x) /\ IsFiniteSet(U)
    BY SpreadOne, SpreadFinite
  <2>2. Spread(S) = U \cup T /\ U \cap T = {}
    BY SpreadRest
  <2>3. Cardinality(U \cup T) = Cardinality(U) + Cardinality(T) - Cardinality(U \cap T)
    BY <2>1, FS_Union
  <2>4. Cardinality(U \cap T) = 0 /\ Cardinality(U) \in Nat /\ Cardinality(T) \in Nat
    BY <2>1, <2>2, FS_EmptySet, FS_CardinalityType
  <2>5. \A a, b \in Nat : a + b - 0 = b + a
    OBVIOUS
  <2>6. Cardinality(U \cup T) = Cardinality(T) + Cardinality(U)
    BY <2>3, <2>4, <2>5
  <2> QED
    BY <2>1, <2>2, <2>6
<1> QED
  BY <1>1, <1>2, <1>3

(* The equation that MapThenSumSet solves, and its one solution.             *)
Adds(f, S) == f = [s \in SUBSET S |-> IF s = {} THEN 0
                                      ELSE LET x == CHOOSE y \in s : TRUE IN SizeOf(x) + f[s \ {x}]]

LEMMA AddsSpread ==
    ASSUME NEW S \in SUBSET Nodes
    PROVE  Adds([s \in SUBSET S |-> Cardinality(Spread(s))], S)
<1> DEFINE g == [s \in SUBSET S |-> Cardinality(Spread(s))]
<1>1. ASSUME NEW s \in SUBSET S
      PROVE  g[s] = IF s = {} THEN 0 ELSE LET x == CHOOSE y \in s : TRUE IN SizeOf(x) + g[s \ {x}]
  <2>1. CASE s = {}
    BY <2>1, SpreadSum
  <2>2. CASE s # {}
    <3> PICK x : x = CHOOSE y \in s : TRUE
      OBVIOUS
    <3>1. x \in s
      BY <2>2
    <3>2. s \in SUBSET Nodes
      OBVIOUS
    <3>3. Cardinality(Spread(s)) = SizeOf(x) + Cardinality(Spread(s \ {x}))
      BY <3>1, <3>2, SpreadSum
    <3>4. g[s] = SizeOf(x) + g[s \ {x}]
      BY <3>3
    <3> QED
      BY <2>2, <3>4
  <2> QED
    BY <2>1, <2>2
<1> HIDE DEF g
<1>2. g = [s \in SUBSET S |-> g[s]]
  BY DEF g
<1>3. Adds(g, S)
  BY <1>1, <1>2 DEF Adds
<1> QED
  BY <1>3 DEF g

LEMMA AddsOne ==
    ASSUME NEW S \in SUBSET Nodes, NEW f, Adds(f, S)
    PROVE  \A s \in SUBSET S : f[s] = Cardinality(Spread(s))
<1> DEFINE C == {s \in SUBSET Nodes : s \subseteq S => f[s] = Cardinality(Spread(s))}
<1>0. \A s \in SUBSET S : f[s] = IF s = {} THEN 0 ELSE LET x == CHOOSE y \in s : TRUE IN SizeOf(x) + f[s \ {x}]
  BY DEF Adds
<1>1. {} \in C
  BY <1>0, SpreadSum
<1>2. ASSUME NEW s \in SUBSET Nodes, s # {}, \A x \in s : s \ {x} \in C PROVE s \in C
  <2> SUFFICES ASSUME s \subseteq S PROVE f[s] = Cardinality(Spread(s))
    OBVIOUS
  <2> PICK x : x = CHOOSE y \in s : TRUE
    OBVIOUS
  <2>1. x \in s
    BY <1>2
  <2>2. f[s] = SizeOf(x) + f[s \ {x}]
    BY <1>0, <1>2
  <2>3. f[s \ {x}] = Cardinality(Spread(s \ {x}))
    BY <1>2, <2>1
  <2> QED
    BY <2>1, <2>2, <2>3, SpreadSum
<1> HIDE DEF C
<1>3. SUBSET Nodes \subseteq C
  BY <1>1, <1>2, Growing
<1> QED
  BY <1>3 DEF C

(* A sum is that of the whole set but one file, and its size, whichever the  *)
(* file.                                                                     *)
LEMMA BytesSpread ==
    ASSUME NEW S \in SUBSET Nodes
    PROVE  Bytes(S) = Cardinality(Spread(S))
<1>1. Bytes(S) = (CHOOSE f : Adds(f, S))[S]
  BY DEF Bytes, MapThenSumSet, MapThenFoldSet, Adds
<1> PICK f : f = CHOOSE g : Adds(g, S)
  OBVIOUS
<1>2. Adds(f, S)
  BY AddsSpread
<1> QED
  BY <1>1, <1>2, AddsOne

LEMMA BytesMore ==
    ASSUME NEW S \in SUBSET Nodes, NEW x \in Nodes
    PROVE  /\ Bytes(S) \in Nat /\ Bytes({}) = 0
           /\ x \notin S => Bytes(S \cup {x}) = Bytes(S) + SizeOf(x)
<1>1. Bytes(S) \in Nat /\ Bytes({}) = 0
  BY BytesSpread, SpreadSum
<1>2. ASSUME x \notin S PROVE Bytes(S \cup {x}) = Bytes(S) + SizeOf(x)
  <2>1. (S \cup {x}) \ {x} = S /\ x \in S \cup {x} /\ S \cup {x} \in SUBSET Nodes
    BY <1>2
  <2>2. Bytes(S \cup {x}) = SizeOf(x) + Bytes(S)
    BY <2>1, BytesSpread, SpreadSum
  <2>3. SizeOf(x) \in Nat
    BY SizeType
  <2> QED
    BY <1>1, <2>2, <2>3
<1> QED
  BY <1>1, <1>2

-----------------------------------------------------------------------------
(* The walk of analyze_directory.                                            *)

(* What it counts in root: the directories it reads, what it sees in them,   *)
(* and of that what is no directory, and what is a file.                     *)
Dug(root, deep)    == {n \in Within(root) : AtMost(Len(Rel(root, n)), deep)} \cap Dirs \cap Visible(root)
Seen(root, deep)   == {n \in Below(root) : Parent[n] \in Dug(root, deep) \ Unreadable}
Leaves(root, deep) == Seen(root, deep) \ Dirs
Sized(root, deep)  == Seen(root, deep) \ (Dirs \cup Links)

(* The directories on a stack, and all that is in some entries.              *)
Heads(stk) == {stk[i][1] : i \in DOMAIN stk}
Under(S)   == UNION {Within(s) : s \in S}

(* A directory on the stack is one that counts, with its depth and the       *)
(* subdirectory of the root that it is in.                                   *)
Triples == Nodes \X Nat \X (Nodes \cup {None})
Placed(e, root, deep) ==
    /\ e \in Triples /\ e[1] \in Dug(root, deep) /\ e[2] = Len(Rel(root, e[1]))
    /\ IF e[1] = root THEN e[3] = None ELSE e[3] \in Subdirs(root) /\ e[1] \in Within(e[3])

(* No two places of a stack have the same directory. *)
Single(stk) == \A i, j \in DOMAIN stk : i # j => stk[i][1] # stk[j][1]

(* Nothing that is still to come is in something else that is.               *)
Shape(stk, opn, new, root, deep) ==
    /\ stk \in Seq(Triples)
    /\ \A i \in DOMAIN stk : Placed(stk[i], root, deep)
    /\ Single(stk)
    /\ Heads(stk) \cap new = {}
    /\ \A a, b \in Heads(stk) \cup new : a \in Up[b] => a = b
    /\ new # {} => Placed(opn, root, deep) /\ opn[1] \notin Unreadable /\ new \subseteq Children(opn[1])

(* The summary counts what is no longer to come.                             *)
Summaries(root) == [files : Nat, dirs : Nat, links : Nat, bytes : Nat, largest : SUBSET Nodes,
                    share : [Subdirs(root) -> Nat]]
Heaviest(S, files, top) ==
    /\ S \subseteq files
    /\ files # {} => Cardinality(S) = Min({top, Cardinality(files)})
    /\ \A m \in S, n \in files \ S : SizeOf(m) >= SizeOf(n)
Sums(sum, files, dirs, links, root, top) ==
    /\ sum \in Summaries(root)
    /\ sum.dirs = Cardinality(dirs) /\ sum.links = Cardinality(links)
    /\ sum.files = Cardinality(files) /\ sum.bytes = Bytes(files)
    /\ \A d \in Subdirs(root) : sum.share[d] = Bytes(files \cap Within(d))
    /\ Heaviest(sum.largest, files, top)

(* What is in a directory is in one of its children, or the directory.       *)
LEMMA WithinParts ==
    ASSUME NEW d \in Nodes
    PROVE  /\ \A n \in Within(d) \ {d} : \E c \in Children(d) : n \in Within(c)
           /\ \A c \in Children(d) : /\ c \in Nodes /\ d \in Dirs /\ Up[c] = {c} \cup Up[d]
                                      /\ Within(c) \subseteq Within(d) /\ d \notin Within(c)
<1> DEFINE S == {n \in Nodes : d \in Up[n] => n = d \/ \E c \in Children(d) : c \in Up[n]}
<1>1. Top \in S
  BY UpSteps, WorldAssumption DEF Dirs
<1>2. ASSUME NEW n \in Nodes \ {Top}, Parent[n] \in S PROVE n \in S
  <2>1. Up[n] = {n} \cup Up[Parent[n]] /\ Parent[n] \in Nodes
    BY UpSteps, WorldAssumption DEF Dirs
  <2>2. n \in Children(Parent[n])
    BY DEF Children
  <2> QED
    BY <1>2, <2>1, <2>2
<1> HIDE DEF S
<1>3. Nodes \subseteq S
  BY <1>1, <1>2, Downwards
<1>4. \A n \in Within(d) \ {d} : \E c \in Children(d) : n \in Within(c)
  BY <1>3 DEF S, Within
<1>5. ASSUME NEW c \in Children(d)
      PROVE  /\ c \in Nodes /\ d \in Dirs /\ Up[c] = {c} \cup Up[d]
             /\ Within(c) \subseteq Within(d) /\ d \notin Within(c)
  <2>1. c \in Nodes \ {Top} /\ d = Parent[c] /\ d \in Dirs
    BY WorldAssumption DEF Children
  <2>2. Up[c] = {c} \cup Up[d] /\ d \in Up[d]
    BY <2>1, UpSteps
  <2>3. c \in Within(d)
    BY <2>1, <2>2 DEF Within
  <2>4. Within(c) \subseteq Within(d)
    BY <2>3, WithinWithin
  <2>5. d \notin Within(c)
    <3> SUFFICES ASSUME c \in Up[d] PROVE FALSE
      BY DEF Within
    <3>1. c = d
      BY <2>1, <2>2, UpLevelBoth
    <3> PICK l \in Nat : l = Level[d]
      BY WorldAssumption
    <3>2. l = l + 1
      BY <2>1, <3>1, WorldAssumption
    <3> QED
      BY <3>2
  <2> QED
    BY <2>1, <2>2, <2>4, <2>5
<1> QED
  BY <1>4, <1>5

(* Two children of a directory are not above each other.                     *)
LEMMA Siblings ==
    ASSUME NEW d \in Nodes, NEW b \in Children(d), NEW c \in Children(d), b \in Up[c]
    PROVE  b = c
BY WithinParts DEF Within

(* The depth of an entry, as the walk counts it.                             *)
LEMMA DepthOf ==
    ASSUME NEW root \in Nodes, NEW n \in Within(root)
    PROVE  \E l, r \in Nat : l = Level[n] /\ r = Level[root] /\ l - r \in Nat /\ Len(Rel(root, n)) = l - r
<1>1. n \in Nodes /\ Level[n] \in Nat /\ Level[root] \in Nat
  BY WorldAssumption DEF Within
<1>2. Len(Rel(root, n)) \in Nat /\ Len(Rel(root, n)) = Level[n] - Level[root]
  BY RelLength
<1> QED
  BY <1>1, <1>2

(* Below a directory that cannot be read, or lies too deep, nothing counts.  *)
LEMMA Sealed ==
    ASSUME NEW root \in Nodes, NEW deep \in Nat \cup {None}, NEW d \in Within(root),
           d \in Unreadable \/ ~AtMost(Len(Rel(root, d)), deep), NEW n \in Within(d) \ {d}
    PROVE  n \notin Dug(root, deep) /\ n \notin Seen(root, deep)
<1>1. d \in Nodes /\ n \in Nodes
  BY DEF Within
<1>2. ASSUME NEW m \in Within(d), m # d \/ d \notin Unreadable PROVE m \notin Dug(root, deep)
  <2>1. m \in Nodes /\ d \in Up[m] /\ m \in Within(root)
    BY WithinWithin DEF Within
  <2>2. CASE d \in Unreadable
    BY <1>2, <2>1, <2>2 DEF Dug, Visible
  <2>3. CASE deep # None /\ ~(Len(Rel(root, d)) <= deep)
    <3> PICK l, r \in Nat : l = Level[d] /\ r = Level[root] /\ Len(Rel(root, d)) = l - r
      BY DepthOf
    <3> PICK k \in Nat : k = Level[m] /\ Len(Rel(root, m)) = k - r
      BY <2>1, DepthOf
    <3>1. l <= k
      BY <2>1, UpLevel
    <3> PICK w \in Nat : w = deep
      BY <2>3
    <3>2. ~(l - r <= w)
      BY <2>3
    <3>3. ~(Len(Rel(root, m)) <= w)
      BY <3>1, <3>2
    <3> QED
      BY <2>3, <3>3 DEF Dug, AtMost
  <2> QED
    BY <2>2, <2>3 DEF AtMost
<1>3. n \notin Dug(root, deep)
  BY <1>2
<1>4. n \notin Seen(root, deep)
  <2>1. n # Top /\ Parent[n] \in Nodes /\ Up[n] = {n} \cup Up[Parent[n]]
    <3>1. n # Top
      BY <1>1, UpSteps DEF Within
    <3> QED
      BY <1>1, <3>1, UpSteps, WorldAssumption DEF Dirs
  <2>2. Parent[n] \in Within(d)
    BY <2>1 DEF Within
  <2> QED
    BY <1>2, <2>2 DEF Seen
<1> QED
  BY <1>3, <1>4

(* What is seen in a directory that counts.                                  *)
LEMMA InDug ==
    ASSUME NEW root \in Nodes, NEW deep \in Nat \cup {None}, NEW d \in Dug(root, deep) \ Unreadable,
           NEW n \in Children(d)
    PROVE  /\ n \in Nodes /\ n \in Seen(root, deep)
           /\ Len(Rel(root, n)) = Len(Rel(root, d)) + 1 /\ Len(Rel(root, d)) \in Nat
           /\ n \in Dirs /\ AtMost(Len(Rel(root, n)), deep) => n \in Dug(root, deep)
<1>1. n \in Nodes \ {Top} /\ d = Parent[n] /\ d \in Nodes /\ d \in Within(root) /\ d \in Visible(root)
  BY DEF Children, Dug, Dirs
<1>2. Up[n] = {n} \cup Up[d] /\ n \notin Up[d] /\ n \in Within(d) /\ n # d
  BY <1>1, WithinParts, UpSteps, UpLevelBoth DEF Within
<1>3. n \in Within(root) /\ n # root
  BY <1>1, <1>2 DEF Within
<1>4. n \in Seen(root, deep)
  BY <1>1, <1>3 DEF Seen, Below
<1>5. Len(Rel(root, n)) = Len(Rel(root, d)) + 1 /\ Len(Rel(root, d)) \in Nat
  <2> PICK l, r \in Nat : l = Level[d] /\ r = Level[root] /\ l - r \in Nat /\ Len(Rel(root, d)) = l - r
    BY <1>1, DepthOf
  <2> PICK k \in Nat : k = Level[n] /\ Len(Rel(root, n)) = k - r
    BY <1>3, DepthOf
  <2>1. k = l + 1
    BY <1>1, WorldAssumption
  <2>2. \A a, b \in Nat : (a + 1) - b = (a - b) + 1
    OBVIOUS
  <2> QED
    BY <2>1, <2>2
<1>6. n \in Visible(root)
  BY <1>1, <1>2, <1>3 DEF Visible
<1> QED
  BY <1>1, <1>3, <1>4, <1>5, <1>6 DEF Dug

(* What is left of a stack when e is taken. *)
Popped(stk, e, rest) ==
    /\ rest \in Seq(Triples) /\ \E i \in DOMAIN stk : e = stk[i]
    /\ \A i \in DOMAIN rest : i \in DOMAIN stk /\ rest[i] = stk[i]
    /\ Heads(rest) = Heads(stk) \ {e[1]}

LEMMA TakeLast ==
    ASSUME NEW s \in Seq(Triples), s # <<>>, Single(s), NEW e, e = s[Len(s)],
           NEW t, t = SubSeq(s, 1, Len(s) - 1)
    PROVE  Popped(s, e, t)
<1> PICK n \in Nat : n = Len(s) /\ n > 0 /\ DOMAIN s = 1 .. n
  OBVIOUS
<1>1. t \in Seq(Triples) /\ DOMAIN t = 1 .. (n - 1) /\ \A i \in 1 .. (n - 1) : t[i] = s[i]
  OBVIOUS
<1>2. \A i \in 1 .. n : i = n \/ i \in 1 .. (n - 1)
  OBVIOUS
<1>3. 1 .. (n - 1) \subseteq 1 .. n /\ n \in 1 .. n /\ n \notin 1 .. (n - 1)
  OBVIOUS
<1>4. Heads(t) = {s[i][1] : i \in 1 .. (n - 1)}
  <2> PICK D : D = 1 .. (n - 1)
    OBVIOUS
  <2>1. DOMAIN t = D /\ \A i \in D : t[i] = s[i]
    BY <1>1
  <2>2. {t[i][1] : i \in D} = {s[i][1] : i \in D}
    BY ONLY <2>1
  <2> QED
    BY <2>1, <2>2 DEF Heads
<1>5. Heads(s) = {s[i][1] : i \in 1 .. n}
  BY DEF Heads
<1>6. Heads(t) = Heads(s) \ {s[n][1]} /\ s[n][1] \in Heads(s)
  <2>1. \A i \in 1 .. (n - 1) : s[i][1] # s[n][1]
    BY <1>3 DEF Single
  <2> QED
    BY <1>2, <1>3, <1>4, <1>5, <2>1
<1> QED
  BY <1>1, <1>3, <1>6 DEF Popped

LEMMA PutLast ==
    ASSUME NEW S, NEW s \in Seq(S), Single(s),
           NEW e \in S, e[1] \notin Heads(s), NEW t, t = Append(s, e)
    PROVE  /\ t \in Seq(S)
           /\ \A i \in DOMAIN t : t[i] = e \/ (i \in DOMAIN s /\ t[i] = s[i])
           /\ Single(t)
<1> PICK n \in Nat : n = Len(s) /\ DOMAIN s = 1 .. n
  OBVIOUS
<1>1. t \in Seq(S) /\ DOMAIN t = 1 .. (n + 1) /\ t[n + 1] = e /\ \A i \in 1 .. n : t[i] = s[i]
  OBVIOUS
<1>2. \A i \in 1 .. (n + 1) : i = n + 1 \/ i \in 1 .. n
  OBVIOUS
<1>3. 1 .. n \subseteq 1 .. (n + 1) /\ n + 1 \in 1 .. (n + 1) /\ n + 1 \notin 1 .. n
  OBVIOUS
<1>4. \A i \in 1 .. n : s[i][1] \in Heads(s)
  BY DEF Heads
<1>5. ASSUME NEW i \in 1 .. (n + 1), NEW j \in 1 .. (n + 1), i # j PROVE t[i][1] # t[j][1]
  <2>1. CASE i \in 1 .. n /\ j \in 1 .. n
    BY <1>1, <1>5, <2>1 DEF Single
  <2>2. CASE i = n + 1
    BY <1>1, <1>2, <1>4, <1>5, <2>2
  <2>3. CASE j = n + 1
    BY <1>1, <1>2, <1>4, <1>5, <2>3
  <2> QED
    BY <1>2, <2>1, <2>2, <2>3
<1> QED
  BY <1>1, <1>2, <1>5 DEF Single

LEMMA PutHeads ==
    ASSUME NEW S, NEW s \in Seq(S), NEW e \in S, NEW t, t = Append(s, e)
    PROVE  \A x : x \in Heads(t) <=> (x \in Heads(s) \/ x = e[1])
<1> PICK n \in Nat : n = Len(s) /\ DOMAIN s = 1 .. n
  OBVIOUS
<1>1. t \in Seq(S) /\ DOMAIN t = 1 .. (n + 1) /\ t[n + 1] = e /\ \A i \in 1 .. n : t[i] = s[i]
  OBVIOUS
<1>2. \A i \in 1 .. (n + 1) : i = n + 1 \/ i \in 1 .. n
  OBVIOUS
<1>3. 1 .. n \subseteq 1 .. (n + 1) /\ n + 1 \in 1 .. (n + 1)
  OBVIOUS
<1>4. Heads(s) = {s[i][1] : i \in 1 .. n}
  BY DEF Heads
<1>5. Heads(t) = {t[i][1] : i \in 1 .. (n + 1)}
  BY <1>1 DEF Heads
<1> QED
  BY <1>1, <1>2, <1>3, <1>4, <1>5

(* What lies in one of several entries that are not in each other.           *)
LEMMA UnderApart ==
    ASSUME NEW S \in SUBSET Nodes, \A a, b \in S : a \in Up[b] => a = b, NEW d \in S
    PROVE  Under(S) = Within(d) \cup Under(S \ {d}) /\ Within(d) \cap Under(S \ {d}) = {} /\ d \in Within(d)
<1>1. Under(S) = Within(d) \cup Under(S \ {d}) /\ d \in Within(d)
  BY WithinSelf DEF Under
<1>2. ASSUME NEW n \in Within(d), NEW s \in S \ {d}, n \in Within(s) PROVE FALSE
  <2>1. n \in Nodes /\ d \in Up[n] /\ s \in Up[n]
    BY <1>2 DEF Within
  <2> QED
    BY <2>1, UpChain
<1> QED
  BY <1>1, <1>2 DEF Under

LEMMA UnderBoth ==
    ASSUME NEW S, NEW T
    PROVE  Under(S \cup T) = Under(S) \cup Under(T)
BY DEF Under

LEMMA UpSelf ==
    ASSUME NEW n \in Nodes
    PROVE  n \in Up[n]
BY UpSteps

(* What A has outside of W is what it has outside of V, or that and x.       *)
Kept(A, V, W)     == A \ W = A \ V
Gains(A, V, W, x) == A \ W = (A \ V) \cup {x}

(* What holds of A and x holds of what A has in L, or outside.               *)
LEMMA GainsPart ==
    ASSUME NEW A, NEW L, NEW V, NEW W, NEW x, Gains(A, V, W, x)
    PROVE  /\ x \in L => Gains(A \cap L, V, W, x) /\ Kept(A \ L, V, W)
           /\ x \notin L => Gains(A \ L, V, W, x) /\ Kept(A \cap L, V, W)
BY DEF Gains, Kept

(* Once a set with only d of A in it no longer covers A, d is laid open.     *)
LEMMA LaidOpen ==
    ASSUME NEW A, NEW K, NEW U, NEW d \in K, \A n \in K \ {d} : n \notin A, K \cap U = {}
    PROVE  /\ d \in A => A \ U = (A \ (K \cup U)) \cup {d}
           /\ d \notin A => A \ U = A \ (K \cup U)
OBVIOUS

(* The entries of a directory. *)
Entries(d) == IF d \in Unreadable THEN {} ELSE Children(d)

(* A directory is taken from the stack, and its entries come.                *)
LEMMA PopWalk ==
    ASSUME NEW root \in Nodes, NEW deep \in Nat \cup {None}, NEW stk, NEW opn, Shape(stk, opn, {}, root, deep),
           NEW e, NEW rest, Popped(stk, e, rest)
    PROVE  /\ Shape(rest, e, Entries(e[1]), root, deep) /\ e[1] \in Under(Heads(stk))
           /\ Gains(Dug(root, deep), Under(Heads(stk)), Under(Heads(rest) \cup Entries(e[1])), e[1])
           /\ Kept(Leaves(root, deep), Under(Heads(stk)), Under(Heads(rest) \cup Entries(e[1])))
<1> PICK new : new = IF e[1] \in Unreadable THEN {} ELSE Children(e[1])
  OBVIOUS
<1> PICK V, W : V = Under(Heads(stk)) /\ W = Under(Heads(rest) \cup new)
  OBVIOUS
<1> PICK d : d = e[1]
  OBVIOUS
<1> PICK H : H = Heads(stk)
  OBVIOUS
<1>1. /\ stk \in Seq(Triples) /\ Single(stk)
      /\ \A i \in DOMAIN stk : Placed(stk[i], root, deep)
      /\ \A a, b \in H : a \in Up[b] => a = b
  BY DEF Shape
<1>0. /\ rest \in Seq(Triples) /\ \A i \in DOMAIN rest : i \in DOMAIN stk /\ rest[i] = stk[i]
      /\ Heads(rest) = H \ {d} /\ \E i \in DOMAIN stk : e = stk[i]
  BY DEF Popped
<1>2. Heads(rest) = H \ {d} /\ d \in H
  BY <1>0 DEF Heads
<1>3. Placed(e, root, deep) /\ d \in Dug(root, deep) /\ d \in Nodes /\ d \in Dirs /\ d \in Within(root)
  BY <1>0, <1>1, <1>2 DEF Placed, Dug, Dirs
<1>4. \A h \in H : h \in Nodes
  BY <1>1 DEF Heads, Placed, Dug, Dirs
<1>5. \A c \in new : c \in Children(d) /\ d \notin Unreadable
  OBVIOUS
<1>6. ASSUME NEW h \in H \ {d}, NEW c \in new PROVE h # c /\ h \notin Up[c] /\ c \notin Up[h]
  <2>1. c \in Nodes /\ Up[c] = {c} \cup Up[d] /\ d \in Up[c]
    BY <1>3, <1>5, WithinParts, UpSelf
  <2>2. c \notin Up[h]
    <3> SUFFICES ASSUME c \in Up[h] PROVE FALSE
      OBVIOUS
    <3>1. d \in Up[h]
      BY <1>4, <2>1, UpClosed
    <3> QED
      BY <1>1, <1>2, <3>1
  <2>3. h # c
    BY <1>4, <2>2, UpSelf
  <2>4. h \notin Up[c]
    BY <1>1, <1>2, <2>1, <2>3
  <2> QED
    BY <2>2, <2>3, <2>4
<1>7. Shape(rest, e, new, root, deep)
  <2>1. \A i \in DOMAIN rest : Placed(rest[i], root, deep)
    BY <1>0, <1>1
  <2>2. Single(rest)
    BY <1>0, <1>1 DEF Single
  <2>3. Heads(rest) \cap new = {}
    BY <1>2, <1>6
  <2>4. ASSUME NEW a \in Heads(rest) \cup new, NEW b \in Heads(rest) \cup new, a \in Up[b] PROVE a = b
    <3>1. CASE a \in new /\ b \in new
      BY <1>3, <1>5, <2>4, <3>1, Siblings
    <3>2. CASE a \in H \ {d} /\ b \in H \ {d}
      BY <1>1, <2>4, <3>2
    <3> QED
      BY <1>2, <1>6, <2>4, <3>1, <3>2
  <2>5. new # {} => d \notin Unreadable /\ new \subseteq Children(d)
    BY <1>5
  <2> QED
    BY <1>0, <1>2, <1>3, <2>1, <2>2, <2>3, <2>4, <2>5 DEF Shape
<1>8. /\ V = Within(d) \cup Under(H \ {d}) /\ Within(d) \cap Under(H \ {d}) = {} /\ d \in Within(d)
      /\ W = Under(H \ {d}) \cup Under(new)
  <2>1. V = Within(d) \cup Under(H \ {d}) /\ Within(d) \cap Under(H \ {d}) = {} /\ d \in Within(d)
    BY <1>1, <1>2, <1>4, UnderApart
  <2> QED
    BY <1>2, <2>1, UnderBoth
<1>9. ASSUME d \in Unreadable
      PROVE  d \in V /\ Gains(Dug(root, deep), V, W, d) /\ Kept(Leaves(root, deep), V, W)
  <2>1. W = Under(H \ {d})
    <3>1. Under({}) = {} /\ new = {}
      BY <1>9 DEF Under
    <3> QED
      BY <1>8, <3>1
  <2>2. \A n \in Within(d) \ {d} : n \notin Dug(root, deep) /\ n \notin Seen(root, deep)
    BY <1>3, <1>9, Sealed
  <2>3. d \notin Seen(root, deep) \ Dirs
    BY <1>3
  <2>4. Dug(root, deep) \ W = (Dug(root, deep) \ V) \cup {d}
    <3> PICK A : A = Dug(root, deep)
      OBVIOUS
    <3> PICK K : K = Within(d)
      OBVIOUS
    <3> PICK U : U = Under(H \ {d})
      OBVIOUS
    <3>1. d \in K /\ (\A n \in K \ {d} : n \notin A) /\ K \cap U = {} /\ d \in A
      BY <1>3, <1>8, <2>2
    <3>2. A \ U = (A \ (K \cup U)) \cup {d}
      BY ONLY <3>1, LaidOpen
    <3>3. V = K \cup U /\ W = U
      BY <1>8, <2>1
    <3> QED
      BY <3>2, <3>3
  <2>5. (Seen(root, deep) \ Dirs) \ W = (Seen(root, deep) \ Dirs) \ V
    BY <1>8, <2>1, <2>2, <2>3
  <2> QED
    BY <1>8, <2>4, <2>5 DEF Gains, Kept, Leaves
<1>10. ASSUME d \notin Unreadable
       PROVE  d \in V /\ Gains(Dug(root, deep), V, W, d) /\ Kept(Leaves(root, deep), V, W)
  <2>1. new = Children(d)
    BY <1>10
  <2>2. Within(d) = {d} \cup Under(new) /\ d \notin Under(new)
    BY <1>3, <1>8, <2>1, WithinParts DEF Under
  <2>3. d \in V /\ V = W \cup {d} /\ d \notin W
    BY <1>8, <2>2
  <2> QED
    BY <1>3, <2>3 DEF Gains, Kept, Leaves
<1>11. new = Entries(e[1])
  BY DEF Entries
<1> QED
  BY <1>7, <1>9, <1>10, <1>11

(* Each entry that comes is in the root and seen, one level below the        *)
(* directory that is read.                                                   *)
LEMMA ComesFrom ==
    ASSUME NEW root \in Nodes, NEW deep \in Nat \cup {None}, NEW stk, NEW opn, NEW new,
           Shape(stk, opn, new, root, deep), NEW n \in new
    PROVE  /\ opn \in Triples /\ Placed(opn, root, deep) /\ opn[1] \in Dug(root, deep) \ Unreadable
           /\ n \in Children(opn[1]) /\ n \in Nodes /\ n \in Seen(root, deep) /\ n # root
           /\ n \in Within(root) /\ n \in Within(opn[1]) /\ Len(Rel(root, n)) = opn[2] + 1
           /\ n \in Dirs /\ AtMost(opn[2] + 1, deep) => n \in Dug(root, deep)
           /\ n \in Dug(root, deep) => AtMost(opn[2] + 1, deep)
<1>1. Placed(opn, root, deep) /\ opn[1] \notin Unreadable /\ n \in Children(opn[1])
  BY DEF Shape
<1>2. opn \in Triples /\ opn[1] \in Dug(root, deep) \ Unreadable /\ opn[2] = Len(Rel(root, opn[1]))
  BY <1>1 DEF Placed
<1>3. /\ n \in Nodes /\ n \in Seen(root, deep) /\ Len(Rel(root, n)) = opn[2] + 1
      /\ n \in Dirs /\ AtMost(opn[2] + 1, deep) => n \in Dug(root, deep)
  <2> PICK d \in Dug(root, deep) \ Unreadable : d = opn[1]
    BY <1>2
  <2> PICK l : l = Len(Rel(root, d))
    OBVIOUS
  <2>1. /\ n \in Nodes /\ n \in Seen(root, deep) /\ Len(Rel(root, n)) = l + 1
        /\ n \in Dirs /\ AtMost(Len(Rel(root, n)), deep) => n \in Dug(root, deep)
    BY <1>1, InDug
  <2> QED
    BY <1>2, <2>1
<1>4. n \in Within(root) /\ n # root
  BY <1>3 DEF Seen, Below
<1>5. n \in Within(opn[1])
  <2>1. opn[1] \in Nodes
    BY <1>2 DEF Dug, Dirs
  <2>2. Up[n] = {n} \cup Up[opn[1]] /\ opn[1] \in Up[opn[1]]
    BY <1>1, <2>1, WithinParts, UpSelf
  <2> QED
    BY <1>3, <2>2 DEF Within
<1>6. n \in Dug(root, deep) => AtMost(opn[2] + 1, deep)
  BY <1>3 DEF Dug
<1> QED
  BY <1>1, <1>2, <1>3, <1>4, <1>5, <1>6

(* A directory that is looked at goes on the stack.                          *)
SameUnder(S, T)   == Under(S) = Under(T)
Onto(stk, n, opn) == Append(stk, <<n, opn[2] + 1, IF opn[3] = None THEN n ELSE opn[3]>>)

LEMMA LookOn ==
    ASSUME NEW root \in Nodes, NEW deep \in Nat \cup {None}, NEW stk, NEW opn, NEW new,
           Shape(stk, opn, new, root, deep), NEW n \in new, n \in Dirs, AtMost(opn[2] + 1, deep)
    PROVE  /\ Shape(Onto(stk, n, opn), opn, new \ {n}, root, deep)
           /\ SameUnder(Heads(Onto(stk, n, opn)) \cup (new \ {n}), Heads(stk) \cup new)
<1> PICK s2 : s2 = Onto(stk, n, opn)
  OBVIOUS
<1> PICK e : e = <<n, opn[2] + 1, IF opn[3] = None THEN n ELSE opn[3]>>
  OBVIOUS
<1>1. /\ opn \in Triples /\ Placed(opn, root, deep) /\ opn[1] \in Dug(root, deep) \ Unreadable
      /\ n \in Children(opn[1]) /\ n \in Nodes /\ n # root /\ n \in Within(opn[1])
      /\ Len(Rel(root, n)) = opn[2] + 1 /\ n \in Dug(root, deep)
  BY ComesFrom
<1>2. /\ stk \in Seq(Triples) /\ Single(stk)
      /\ \A i \in DOMAIN stk : Placed(stk[i], root, deep)
      /\ Heads(stk) \cap new = {}
      /\ \A a, b \in Heads(stk) \cup new : a \in Up[b] => a = b
      /\ new \subseteq Children(opn[1])
  BY DEF Shape
<1>3. e[1] = n /\ e[2] = opn[2] + 1 /\ e[3] = IF opn[3] = None THEN n ELSE opn[3]
  OBVIOUS
<1>4. e \in Triples
  <2>1. opn[2] \in Nat /\ opn[3] \in Nodes \cup {None}
    BY <1>1 DEF Triples
  <2>2. opn[2] + 1 \in Nat
    BY <2>1
  <2> QED
    BY <1>1, <2>1, <2>2 DEF Triples
<1>5. e[3] \in Subdirs(root) /\ n \in Within(e[3])
  <2>1. CASE opn[1] = root
    <3>1. e[3] = n
      BY <1>1, <1>3, <2>1 DEF Placed
    <3>2. n \in Subdirs(root)
      BY <1>1, <2>1 DEF Subdirs
    <3> QED
      BY <1>1, <3>1, <3>2, WithinSelf
  <2>2. CASE opn[1] # root
    <3>1. opn[3] \in Subdirs(root) /\ opn[1] \in Within(opn[3])
      BY <1>1, <2>2 DEF Placed
    <3>2. opn[3] # None
      BY <3>1, WorldAssumption DEF Subdirs, Dirs
    <3>3. n \in Within(opn[3])
      BY <1>1, <3>1, WithinWithin
    <3> QED
      BY <1>3, <3>1, <3>2, <3>3
  <2> QED
    BY <2>1, <2>2
<1>6. Placed(e, root, deep)
  BY <1>1, <1>3, <1>4, <1>5 DEF Placed
<1>7. /\ s2 \in Seq(Triples)
      /\ \A i \in DOMAIN s2 : s2[i] = e \/ (i \in DOMAIN stk /\ s2[i] = stk[i])
      /\ Single(s2)
      /\ Heads(s2) = Heads(stk) \cup {n}
  <2>1. e[1] \notin Heads(stk) /\ s2 = Append(stk, e)
    BY <1>2, <1>3 DEF Onto
  <2>2. stk \in Seq(Triples) /\ Single(stk)
    BY <1>2
  <2>3. s2 \in Seq(Triples) /\ Single(s2)
    BY ONLY <1>4, <2>1, <2>2, PutLast
  <2>5. Heads(s2) = Heads(stk) \cup {e[1]}
    BY ONLY <1>4, <2>1, <2>2, PutHeads
  <2>4. \A i \in DOMAIN s2 : s2[i] = e \/ (i \in DOMAIN stk /\ s2[i] = stk[i])
    BY ONLY <1>4, <2>1, <2>2, PutLast
  <2> QED
    BY <1>3, <2>3, <2>4, <2>5
<1>8. Heads(s2) \cup (new \ {n}) = Heads(stk) \cup new
  BY <1>7
<1>9. Heads(s2) \cap (new \ {n}) = {}
  BY <1>2, <1>7
<1>10. \A i \in DOMAIN s2 : Placed(s2[i], root, deep)
  BY <1>2, <1>6, <1>7
<1>11. Shape(s2, opn, new \ {n}, root, deep)
  BY <1>1, <1>2, <1>7, <1>8, <1>9, <1>10 DEF Shape
<1>12. SameUnder(Heads(s2) \cup (new \ {n}), Heads(stk) \cup new)
  BY <1>8 DEF SameUnder
<1> QED
  BY <1>11, <1>12

(* Of all else nothing but itself is still to come, and the walk counts      *)
(* nothing in it.                                                            *)
LEMMA LookPast ==
    ASSUME NEW root \in Nodes, NEW deep \in Nat \cup {None}, NEW stk, NEW opn, NEW new,
           Shape(stk, opn, new, root, deep), NEW n \in new, n \in Dirs => ~AtMost(opn[2] + 1, deep)
    PROVE  /\ Shape(stk, opn, new \ {n}, root, deep) /\ n \in Under(Heads(stk) \cup new)
           /\ Kept(Dug(root, deep), Under(Heads(stk) \cup new), Under(Heads(stk) \cup (new \ {n})))
           /\ n \in Dirs =>
                  Kept(Leaves(root, deep), Under(Heads(stk) \cup new), Under(Heads(stk) \cup (new \ {n})))
           /\ n \notin Dirs =>
                  Gains(Leaves(root, deep), Under(Heads(stk) \cup new), Under(Heads(stk) \cup (new \ {n})), n)
<1> PICK V, W : V = Under(Heads(stk) \cup new) /\ W = Under(Heads(stk) \cup (new \ {n}))
  OBVIOUS
<1> PICK S : S = Heads(stk) \cup new
  OBVIOUS
<1>1. /\ opn[1] \in Dug(root, deep) /\ n \in Nodes /\ n \in Seen(root, deep) /\ n \in Within(root)
      /\ Len(Rel(root, n)) = opn[2] + 1 /\ n \notin Dug(root, deep)
  <2>1. n \in Dug(root, deep) => n \in Dirs
    BY DEF Dug
  <2> QED
    BY <2>1, ComesFrom
<1>2. /\ \A i \in DOMAIN stk : Placed(stk[i], root, deep)
      /\ Heads(stk) \cap new = {} /\ new \subseteq Children(opn[1])
      /\ \A a, b \in S : a \in Up[b] => a = b
  BY DEF Shape
<1>3. Shape(stk, opn, new \ {n}, root, deep)
  BY DEF Shape
<1>4. S \in SUBSET Nodes /\ n \in S /\ S \ {n} = Heads(stk) \cup (new \ {n})
  BY <1>2 DEF Heads, Placed, Dug, Dirs, Children
<1>5. V = Within(n) \cup W /\ Within(n) \cap W = {} /\ n \in Within(n)
  BY <1>2, <1>4, UnderApart
<1>6. \A m \in Within(n) \ {n} : m \notin Dug(root, deep) /\ m \notin Seen(root, deep)
  <2>1. CASE n \in Dirs
    BY <1>1, <2>1, Sealed
  <2>2. CASE n \notin Dirs
    BY <1>1, <2>2, WithinFile
  <2> QED
    BY <2>1, <2>2
<1>7. Dug(root, deep) \ W = Dug(root, deep) \ V
  BY <1>1, <1>5, <1>6
<1>8. n \in Dirs => (Seen(root, deep) \ Dirs) \ W = (Seen(root, deep) \ Dirs) \ V
  BY <1>5, <1>6
<1>9. ASSUME n \notin Dirs
      PROVE  (Seen(root, deep) \ Dirs) \ W = ((Seen(root, deep) \ Dirs) \ V) \cup {n}
  <2> PICK A : A = Seen(root, deep) \ Dirs
    OBVIOUS
  <2> PICK K : K = Within(n)
    OBVIOUS
  <2>1. n \in K /\ (\A m \in K \ {n} : m \notin A) /\ K \cap W = {} /\ n \in A /\ V = K \cup W
    BY <1>1, <1>5, <1>6, <1>9
  <2>2. A \ W = (A \ (K \cup W)) \cup {n}
    BY ONLY <2>1, LaidOpen
  <2> QED
    BY <2>1, <2>2
<1>10. /\ Kept(Dug(root, deep), V, W)
       /\ n \in Dirs => Kept(Leaves(root, deep), V, W)
       /\ n \notin Dirs => Gains(Leaves(root, deep), V, W, n)
  BY <1>7, <1>8, <1>9 DEF Kept, Gains, Leaves
<1> QED
  BY <1>3, <1>5, <1>10

(* A file is in the subdirectory of the root that the walk has noted.        *)
LEMMA ShareOf ==
    ASSUME NEW root \in Nodes, NEW deep \in Nat \cup {None}, NEW stk, NEW opn, NEW new,
           Shape(stk, opn, new, root, deep), NEW n \in new \ Dirs, NEW d \in Subdirs(root)
    PROVE  n \in Within(d) <=> d = opn[3]
<1>1. /\ Placed(opn, root, deep) /\ opn[1] \in Dug(root, deep) \ Unreadable
      /\ n \in Children(opn[1]) /\ n \in Nodes /\ n \in Within(opn[1])
  BY ComesFrom
<1>2. d \in Children(root) /\ d \in Dirs /\ d \in Nodes /\ opn[1] \in Nodes
  BY <1>1 DEF Subdirs, Dug, Dirs
<1>3. Up[n] = {n} \cup Up[opn[1]]
  BY <1>1, <1>2, WithinParts
<1>4. n \in Within(d) <=> d \in Up[opn[1]]
  BY <1>1, <1>2, <1>3 DEF Within
<1>5. CASE opn[1] = root
  <2>1. d \notin Up[root]
    <3>1. Up[d] = {d} \cup Up[root] /\ root \notin Within(d)
      BY <1>2, WithinParts
    <3> QED
      BY <3>1 DEF Within
  <2>2. opn[3] # d
    BY <1>1, <1>2, <1>5, WorldAssumption DEF Placed
  <2> QED
    BY <1>4, <1>5, <2>1, <2>2
<1>6. CASE opn[1] # root
  <2>1. opn[3] \in Subdirs(root) /\ opn[1] \in Within(opn[3])
    BY <1>1, <1>6 DEF Placed
  <2>2. opn[3] \in Children(root) /\ opn[3] \in Up[opn[1]]
    BY <2>1 DEF Subdirs, Within
  <2>3. ASSUME d \in Up[opn[1]] PROVE d = opn[3]
    <3>1. d \in Up[opn[3]] \/ opn[3] \in Up[d]
      BY <1>2, <2>2, <2>3, UpChain
    <3> QED
      BY <1>2, <2>2, <3>1, Siblings
  <2> QED
    BY <1>4, <2>2, <2>3
<1> QED
  BY <1>5, <1>6

-----------------------------------------------------------------------------
(* What the walk counts.                                                     *)

LEMMA SmallerOf ==
    ASSUME NEW a \in Int, NEW b \in Int
    PROVE  Min({a, b}) = IF a <= b THEN a ELSE b
<1> DEFINE P(x) == x \in {a, b} /\ \A y \in {a, b} : x <= y
<1> PICK c : c = IF a <= b THEN a ELSE b
  OBVIOUS
<1>1. P(c)
  OBVIOUS
<1>2. \A x : P(x) => x = c
  OBVIOUS
<1>3. Min({a, b}) = CHOOSE x \in {a, b} : \A y \in {a, b} : x <= y
  BY DEF Min
<1>4. (CHOOSE x \in {a, b} : \A y \in {a, b} : x <= y) = c
  BY <1>1, <1>2
<1> QED
  BY <1>3, <1>4

(* The heap holds the largest files when one more comes.                     *)
LEMMA Heavier ==
    ASSUME NEW files \in SUBSET Nodes, NEW S, NEW top \in Int, Heaviest(S, files, top),
           NEW n \in Nodes \ files, NEW h \in Largest(S, n, top)
    PROVE  Heaviest(h, files \cup {n}, top)
<1>1. S \subseteq files /\ S \in SUBSET Nodes /\ n \notin S
  BY DEF Heaviest
<1>2. /\ Cardinality(S) \in Nat /\ Cardinality(files) \in Nat
      /\ Cardinality(files \cup {n}) = Cardinality(files) + 1
      /\ Cardinality(S \cup {n}) = Cardinality(S) + 1
      /\ IsFiniteSet(S) /\ IsFiniteSet(files)
  BY <1>1, OneMore, WorldAssumption, FS_Subset
<1> PICK s \in Nat, k \in Nat : s = Cardinality(S) /\ k = Cardinality(files)
  BY <1>2
<1>3. files # {} => s = IF top <= k THEN top ELSE k
  BY SmallerOf DEF Heaviest
<1>4. files = {} => s = 0 /\ k = 0
  BY <1>1, FS_EmptySet
<1>5. Min({top, Cardinality(files \cup {n})}) = IF top <= k + 1 THEN top ELSE k + 1
  BY <1>2, SmallerOf
<1>6. \A x \in Nodes : SizeOf(x) \in Nat
  BY SizeType
<1>7. CASE s < top
  <2>1. h = S \cup {n}
    BY <1>7 DEF Largest
  <2>2. s = k /\ k + 1 <= top
    BY <1>3, <1>4, <1>7
  <2>3. S = files
    BY <1>1, <1>2, <2>2, FS_Subset
  <2>4. Cardinality(h) = Min({top, Cardinality(files \cup {n})})
    BY <1>2, <1>5, <2>1, <2>2
  <2> QED
    BY <2>1, <2>3, <2>4 DEF Heaviest
<1>8. CASE ~(s < top)
  <2> PICK m \in Smallest(S) : h = IF SizeOf(n) > SizeOf(m) THEN (S \ {m}) \cup {n} ELSE S
    BY <1>8 DEF Largest
  <2>1. m \in S /\ m \in Nodes /\ \A o \in S : SizeOf(o) >= SizeOf(m)
    BY <1>1 DEF Smallest
  <2>2. s = top /\ top <= k
    BY <1>1, <1>3, <1>8, <2>1
  <2>3. h \subseteq files \cup {n}
    BY <1>1
  <2>4. Cardinality(h) = s
    <3>1. Cardinality(S \ {m}) = s - 1
      BY <1>2, <2>1, FS_RemoveElement
    <3>2. S \ {m} \in SUBSET Nodes /\ n \notin S \ {m}
      BY <1>1
    <3>3. Cardinality((S \ {m}) \cup {n}) = Cardinality(S \ {m}) + 1
      BY <3>2, OneMore
    <3>4. Cardinality((S \ {m}) \cup {n}) = s
      BY <3>1, <3>3
    <3> QED
      BY <3>4
  <2>5. ASSUME NEW x \in h, NEW y \in (files \cup {n}) \ h PROVE SizeOf(x) >= SizeOf(y)
    <3>1. \A o \in S, z \in files \ S : SizeOf(o) >= SizeOf(z)
      BY DEF Heaviest
    <3>2. \A a, b, c \in Nat : (a >= b /\ b >= c => a >= c) /\ (a > b => a >= b) /\ (~(a > b) => b >= a)
      OBVIOUS
    <3>3. SizeOf(m) \in Nat /\ SizeOf(n) \in Nat /\ \A z \in files : SizeOf(z) \in Nat
      BY <1>6, <2>1
    <3>4. CASE SizeOf(n) > SizeOf(m)
      <4>1. x = n \/ x \in S
        BY <3>4
      <4>2. y = m \/ y \in files \ S
        BY <3>4
      <4>3. SizeOf(m) >= SizeOf(y)
        BY <2>1, <3>1, <4>2
      <4>4. SizeOf(x) >= SizeOf(m) \/ x \in S
        BY <3>2, <3>3, <3>4, <4>1
      <4>5. CASE x \in S
        BY <2>1, <3>1, <4>2, <4>5
      <4>6. CASE x = n
        BY <1>1, <2>1, <3>2, <3>3, <3>4, <4>2, <4>3, <4>6
      <4> QED
        BY <4>1, <4>5, <4>6
    <3>5. CASE ~(SizeOf(n) > SizeOf(m))
      <4>1. x \in S /\ (y = n \/ y \in files \ S)
        BY <3>5
      <4>2. CASE y = n
        BY <1>1, <2>1, <3>2, <3>3, <3>5, <4>1, <4>2
      <4> QED
        BY <3>1, <4>1, <4>2
    <3> QED
      BY <3>4, <3>5
  <2>6. Cardinality(h) = Min({top, Cardinality(files \cup {n})})
    BY <1>5, <2>2, <2>4
  <2> QED
    BY <2>3, <2>5, <2>6 DEF Heaviest
<1> QED
  BY <1>7, <1>8

(* One more directory, link or file is counted.                              *)
LEMMA SumsDir ==
    ASSUME NEW root, NEW top, NEW sum, NEW F, NEW D \in SUBSET Nodes, NEW L, Sums(sum, F, D, L, root, top),
           NEW x \in Nodes \ D, NEW s2, s2 = [sum EXCEPT !.dirs = @ + 1]
    PROVE  Sums(s2, F, D \cup {x}, L, root, top)
<1>1. sum \in Summaries(root) /\ sum.dirs = Cardinality(D)
  BY DEF Sums
<1>2. Cardinality(D \cup {x}) = Cardinality(D) + 1 /\ Cardinality(D) \in Nat
  BY OneMore
<1>3. s2 \in Summaries(root) /\ s2.dirs = Cardinality(D \cup {x})
  BY <1>1, <1>2 DEF Summaries
<1>4. /\ s2.files = sum.files /\ s2.links = sum.links /\ s2.bytes = sum.bytes
      /\ s2.largest = sum.largest /\ s2.share = sum.share
  BY <1>1 DEF Summaries
<1> QED
  BY <1>3, <1>4 DEF Sums

LEMMA SumsLink ==
    ASSUME NEW root, NEW top, NEW sum, NEW F, NEW D, NEW L \in SUBSET Nodes, Sums(sum, F, D, L, root, top),
           NEW x \in Nodes \ L, NEW s2, s2 = [sum EXCEPT !.links = @ + 1]
    PROVE  Sums(s2, F, D, L \cup {x}, root, top)
<1>1. sum \in Summaries(root) /\ sum.links = Cardinality(L)
  BY DEF Sums
<1>2. Cardinality(L \cup {x}) = Cardinality(L) + 1 /\ Cardinality(L) \in Nat
  BY OneMore
<1>3. s2 \in Summaries(root) /\ s2.links = Cardinality(L \cup {x})
  BY <1>1, <1>2 DEF Summaries
<1>4. /\ s2.files = sum.files /\ s2.dirs = sum.dirs /\ s2.bytes = sum.bytes
      /\ s2.largest = sum.largest /\ s2.share = sum.share
  BY <1>1 DEF Summaries
<1> QED
  BY <1>3, <1>4 DEF Sums

CountFile(sum, x, o, h) ==
    [sum EXCEPT !.files = @ + 1, !.bytes = @ + SizeOf(x), !.largest = h,
                !.share = [d \in DOMAIN @ |-> @[d] + (IF d = o THEN SizeOf(x) ELSE 0)]]

LEMMA SumsFile ==
    ASSUME NEW root, NEW top \in Int, NEW sum, NEW F \in SUBSET Nodes, NEW D, NEW L,
           Sums(sum, F, D, L, root, top), NEW x \in Nodes \ F,
           NEW o, \A d \in Subdirs(root) : x \in Within(d) <=> d = o,
           NEW h \in Largest(sum.largest, x, top)
    PROVE  Sums(CountFile(sum, x, o, h), F \cup {x}, D, L, root, top)
<1> PICK s2 : s2 = CountFile(sum, x, o, h)
  OBVIOUS
<1>1. /\ sum \in Summaries(root) /\ sum.files = Cardinality(F) /\ sum.bytes = Bytes(F)
      /\ \A d \in Subdirs(root) : sum.share[d] = Bytes(F \cap Within(d))
      /\ Heaviest(sum.largest, F, top)
  BY DEF Sums
<1>2. Cardinality(F \cup {x}) = Cardinality(F) + 1 /\ Cardinality(F) \in Nat
  BY OneMore
<1>3. Bytes(F \cup {x}) = Bytes(F) + SizeOf(x) /\ Bytes(F) \in Nat /\ SizeOf(x) \in Nat
  BY BytesMore, SizeType
<1>4. Heaviest(h, F \cup {x}, top)
  BY <1>1, Heavier
<1> PICK share : share = [d \in Subdirs(root) |-> sum.share[d] + (IF d = o THEN SizeOf(x) ELSE 0)]
  OBVIOUS
<1>5. ASSUME NEW d \in Subdirs(root)
      PROVE  share[d] = Bytes((F \cup {x}) \cap Within(d)) /\ share[d] \in Nat
  <2> PICK T \in SUBSET Nodes : T = F \cap Within(d)
    OBVIOUS
  <2>1. Bytes(T) \in Nat /\ Bytes(T \cup {x}) = Bytes(T) + SizeOf(x) /\ sum.share[d] = Bytes(T)
    BY <1>1, BytesMore
  <2>2. CASE d = o
    <3> PICK U : U = (F \cup {x}) \cap Within(d)
      OBVIOUS
    <3>1. U = T \cup {x}
      BY <2>2
    <3>2. Bytes(U) = Bytes(T) + SizeOf(x)
      BY <2>1, <3>1
    <3>3. share[d] = Bytes(T) + SizeOf(x)
      BY <2>1, <2>2
    <3> QED
      BY <1>3, <2>1, <3>2, <3>3
  <2>3. CASE d # o
    <3>1. (F \cup {x}) \cap Within(d) = T
      BY <2>3
    <3>2. share[d] = Bytes(T) + 0
      BY <2>1, <2>3
    <3> QED
      BY <2>1, <3>1, <3>2
  <2> QED
    BY <2>2, <2>3
<1>6. /\ s2.files = sum.files + 1 /\ s2.bytes = sum.bytes + SizeOf(x) /\ s2.largest = h
      /\ s2.share = share /\ s2.dirs = sum.dirs /\ s2.links = sum.links
      /\ DOMAIN s2 = {"files", "dirs", "links", "bytes", "largest", "share"}
  <2>1. DOMAIN sum.share = Subdirs(root)
    BY <1>1 DEF Summaries
  <2> QED
    BY <1>1, <2>1 DEF CountFile, Summaries
<1>7. s2 \in Summaries(root)
  <2>1. h \in SUBSET Nodes
    BY <1>4 DEF Heaviest
  <2>2. share \in [Subdirs(root) -> Nat]
    BY <1>5
  <2>3. sum.files + 1 \in Nat /\ sum.bytes + SizeOf(x) \in Nat /\ sum.dirs \in Nat /\ sum.links \in Nat
    BY <1>1, <1>2, <1>3 DEF Summaries
  <2>4. s2 = [files |-> s2.files, dirs |-> s2.dirs, links |-> s2.links, bytes |-> s2.bytes,
              largest |-> s2.largest, share |-> s2.share]
    BY <1>1 DEF CountFile, Summaries
  <2> QED
    BY <1>6, <2>1, <2>2, <2>3, <2>4 DEF Summaries
<1> QED
  BY <1>1, <1>2, <1>3, <1>4, <1>5, <1>6, <1>7 DEF Sums

-----------------------------------------------------------------------------
(* The walk and its sums together.                                           *)

Surveyed(stk, opn, new, sum, root, top, deep) ==
    LET V == Under(Heads(stk) \cup new)
    IN  /\ Shape(stk, opn, new, root, deep)
        /\ Sums(sum, Sized(root, deep) \ V, Dug(root, deep) \ V, (Seen(root, deep) \cap Links) \ V, root, top)

(* What is seen is a directory, a link or a file. *)
LEMMA ThreeKinds ==
    ASSUME NEW root \in Nodes, NEW deep
    PROVE  /\ Sized(root, deep) = Leaves(root, deep) \ Links
           /\ Seen(root, deep) \cap Links = Leaves(root, deep) \cap Links
           /\ Sized(root, deep) \in SUBSET Nodes /\ Seen(root, deep) \in SUBSET Nodes
           /\ Dug(root, deep) \in SUBSET Nodes /\ Links \cap Dirs = {}
           /\ Dug(root, deep) \subseteq Within(root) /\ Seen(root, deep) \subseteq Within(root)
<1>1. Links \cap Dirs = {}
  BY DEF Links, Dirs
<1> QED
  BY <1>1 DEF Sized, Leaves, Seen, Dug, Below, Within

LEMMA SurveyStart ==
    ASSUME NEW root \in Dirs, NEW deep \in Nat \cup {None}, NEW top \in Int, NEW opn, NEW stk, NEW sum,
           stk = <<<<root, 0, None>>>>, sum = [NoSummary EXCEPT !.share = [d \in Subdirs(root) |-> 0]]
    PROVE  Surveyed(stk, opn, {}, sum, root, top, deep)
<1> PICK e : e = <<root, 0, None>>
  OBVIOUS
<1>1. root \in Nodes /\ e \in Triples /\ e[1] = root /\ e[2] = 0 /\ e[3] = None
  BY DEF Dirs, Triples
<1>2. stk \in Seq(Triples) /\ DOMAIN stk = {1} /\ stk[1] = e
  <2>1. <<e>> \in Seq(Triples) /\ DOMAIN <<e>> = {1} /\ <<e>>[1] = e
    BY <1>1
  <2> QED
    BY <2>1
<1>3. Heads(stk) \cup {} = {root} /\ Single(stk)
  BY <1>1, <1>2 DEF Heads, Single
<1>4. root \in Dug(root, deep) /\ Len(Rel(root, root)) = 0
  <2>1. root \in Within(root)
    BY <1>1, WithinSelf
  <2>2. Len(Rel(root, root)) = 0
    <3>1. Rel(root, root) = <<>>
      BY <1>1, <2>1, RelLength
    <3> QED
      BY <3>1
  <2>3. AtMost(0, deep)
    BY DEF AtMost
  <2>4. root \in Visible(root)
    BY <1>1, <2>1, UpLevelBoth DEF Visible, Within
  <2> QED
    BY <2>1, <2>2, <2>3, <2>4 DEF Dug
<1>5. Placed(e, root, deep)
  BY <1>1, <1>4 DEF Placed
<1>6. Shape(stk, opn, {}, root, deep)
  BY <1>1, <1>2, <1>3, <1>5 DEF Shape
<1> PICK V : V = Under(Heads(stk) \cup {})
  OBVIOUS
<1>7. V = Within(root)
  BY <1>3 DEF Under
<1>8. /\ Sized(root, deep) \ V = {} /\ Dug(root, deep) \ V = {} /\ (Seen(root, deep) \cap Links) \ V = {}
  BY <1>1, <1>7, ThreeKinds DEF Sized
<1>9. /\ sum.files = 0 /\ sum.dirs = 0 /\ sum.links = 0 /\ sum.bytes = 0 /\ sum.largest = {}
      /\ sum.share = [d \in Subdirs(root) |-> 0] /\ sum \in Summaries(root)
  BY DEF NoSummary, Summaries
<1>10. Bytes({}) = 0 /\ Cardinality({}) = 0
  BY <1>1, BytesMore, FS_EmptySet
<1>11. \A d \in Subdirs(root) : sum.share[d] = Bytes({} \cap Within(d))
  <2>1. \A d : {} \cap Within(d) = {}
    OBVIOUS
  <2> QED
    BY <1>9, <1>10, <2>1
<1>12. Heaviest({}, {}, top)
  BY DEF Heaviest
<1>13. Sums(sum, {}, {}, {}, root, top)
  BY <1>9, <1>10, <1>11, <1>12 DEF Sums
<1> QED
  BY <1>6, <1>8, <1>13 DEF Surveyed

(* What Pop and Look do to the stack, the entries to come and the summary.   *)
Taking(stk, sum, rest, e, new, s2) ==
    /\ stk # <<>> /\ e = stk[Len(stk)] /\ rest = SubSeq(stk, 1, Len(stk) - 1)
    /\ new = IF e[1] \in Unreadable THEN {} ELSE Children(e[1])
    /\ s2 = [sum EXCEPT !.dirs = @ + 1]

Looking(stk, opn, sum, n, top, deep, stk2, s2) ==
    CASE n \in Links -> s2 = [sum EXCEPT !.links = @ + 1] /\ stk2 = stk
      [] n \in Dirs  -> stk2 = (IF AtMost(opn[2] + 1, deep) THEN Onto(stk, n, opn) ELSE stk) /\ s2 = sum
      [] OTHER       -> (\E h \in Largest(sum.largest, n, top) : s2 = CountFile(sum, n, opn[3], h)) /\ stk2 = stk

LEMMA SurveyPop ==
    ASSUME NEW root \in Nodes, NEW deep \in Nat \cup {None}, NEW top \in Int, NEW stk, NEW opn, NEW sum,
           Surveyed(stk, opn, {}, sum, root, top, deep),
           NEW rest, NEW e, NEW new, NEW s2, Taking(stk, sum, rest, e, new, s2)
    PROVE  Surveyed(rest, e, new, s2, root, top, deep)
<1>0. /\ stk # <<>> /\ e = stk[Len(stk)] /\ rest = SubSeq(stk, 1, Len(stk) - 1)
      /\ new = Entries(e[1]) /\ s2 = [sum EXCEPT !.dirs = @ + 1]
  BY DEF Taking, Entries
<1> PICK V, W : V = Under(Heads(stk)) /\ W = Under(Heads(rest) \cup new)
  OBVIOUS
<1> PICK A, B : A = Leaves(root, deep) /\ B = Dug(root, deep)
  OBVIOUS
<1>1. Shape(stk, opn, {}, root, deep) /\ Sums(sum, (A \ Links) \ V, B \ V, (A \cap Links) \ V, root, top)
  <2>1. Heads(stk) \cup {} = Heads(stk)
    OBVIOUS
  <2> QED
    BY <2>1, ThreeKinds DEF Surveyed
<1>2. Popped(stk, e, rest)
  <2>1. stk \in Seq(Triples) /\ Single(stk)
    BY <1>1 DEF Shape
  <2> QED
    BY <1>0, <2>1, TakeLast
<1>3. /\ Shape(rest, e, new, root, deep)
      /\ e[1] \in V /\ Gains(B, V, W, e[1]) /\ Kept(A, V, W)
  <2>1. /\ Shape(rest, e, Entries(e[1]), root, deep) /\ e[1] \in Under(Heads(stk))
        /\ Gains(Dug(root, deep), Under(Heads(stk)), Under(Heads(rest) \cup Entries(e[1])), e[1])
        /\ Kept(Leaves(root, deep), Under(Heads(stk)), Under(Heads(rest) \cup Entries(e[1])))
    BY <1>1, <1>2, PopWalk
  <2> QED
    BY <1>0, <2>1
<1>4. (A \ Links) \ W = (A \ Links) \ V /\ (A \cap Links) \ W = (A \cap Links) \ V
  BY <1>3 DEF Kept
<1>5. e[1] \in Nodes \ (B \ V) /\ B \ V \in SUBSET Nodes
  BY <1>3, ThreeKinds DEF Gains
<1>6. Sums(s2, (A \ Links) \ V, (B \ V) \cup {e[1]}, (A \cap Links) \ V, root, top)
  BY <1>0, <1>1, <1>5, SumsDir
<1>7. Sums(s2, (A \ Links) \ W, B \ W, (A \cap Links) \ W, root, top)
  BY <1>3, <1>4, <1>6 DEF Gains
<1> QED
  BY <1>3, <1>7, ThreeKinds DEF Surveyed

LEMMA SurveyOn ==
    ASSUME NEW root \in Nodes, NEW deep \in Nat \cup {None}, NEW top, NEW stk, NEW opn, NEW new, NEW sum,
           Surveyed(stk, opn, new, sum, root, top, deep), NEW n \in new, n \in Dirs, AtMost(opn[2] + 1, deep)
    PROVE  Surveyed(Onto(stk, n, opn), opn, new \ {n}, sum, root, top, deep)
<1>1. Shape(stk, opn, new, root, deep)
  BY DEF Surveyed
<1>2. /\ Shape(Onto(stk, n, opn), opn, new \ {n}, root, deep)
      /\ SameUnder(Heads(Onto(stk, n, opn)) \cup (new \ {n}), Heads(stk) \cup new)
  BY <1>1, LookOn
<1> PICK V, W : V = Under(Heads(Onto(stk, n, opn)) \cup (new \ {n})) /\ W = Under(Heads(stk) \cup new)
  OBVIOUS
<1>3. V = W
  BY <1>2 DEF SameUnder
<1>4. Sums(sum, Sized(root, deep) \ W, Dug(root, deep) \ W, (Seen(root, deep) \cap Links) \ W, root, top)
  BY DEF Surveyed
<1>5. Sums(sum, Sized(root, deep) \ V, Dug(root, deep) \ V, (Seen(root, deep) \cap Links) \ V, root, top)
  BY <1>3, <1>4
<1> QED
  BY <1>2, <1>5 DEF Surveyed

(* What is looked at and does not go on the stack. *)
LEMMA SurveyPast ==
    ASSUME NEW root \in Nodes, NEW deep \in Nat \cup {None}, NEW top, NEW stk, NEW opn, NEW new, NEW sum,
           Surveyed(stk, opn, new, sum, root, top, deep), NEW n \in new, n \in Dirs => ~AtMost(opn[2] + 1, deep)
    PROVE  \E A, B, V, W \in SUBSET Nodes :
             /\ Shape(stk, opn, new \ {n}, root, deep)
             /\ Sums(sum, (A \ Links) \ V, B \ V, (A \cap Links) \ V, root, top)
             /\ n \in V /\ n \in Nodes /\ Kept(B, V, W)
             /\ IF n \in Dirs THEN Kept(A, V, W) ELSE Gains(A, V, W, n)
             /\ \A s2 : Sums(s2, (A \ Links) \ W, B \ W, (A \cap Links) \ W, root, top) =>
                            Surveyed(stk, opn, new \ {n}, s2, root, top, deep)
<1> PICK V, W : V = Under(Heads(stk) \cup new) /\ W = Under(Heads(stk) \cup (new \ {n}))
  OBVIOUS
<1> PICK A, B : A = Leaves(root, deep) /\ B = Dug(root, deep)
  OBVIOUS
<1>1. Shape(stk, opn, new, root, deep) /\ Sums(sum, (A \ Links) \ V, B \ V, (A \cap Links) \ V, root, top)
  BY ThreeKinds DEF Surveyed
<1>2. /\ Shape(stk, opn, new \ {n}, root, deep) /\ n \in V /\ Kept(B, V, W)
      /\ IF n \in Dirs THEN Kept(A, V, W) ELSE Gains(A, V, W, n)
  BY <1>1, LookPast
<1>3. A \in SUBSET Nodes /\ B \in SUBSET Nodes /\ V \in SUBSET Nodes /\ W \in SUBSET Nodes
  BY ThreeKinds DEF Leaves, Under, Within
<1>4. ASSUME NEW s2, Sums(s2, (A \ Links) \ W, B \ W, (A \cap Links) \ W, root, top)
      PROVE  Surveyed(stk, opn, new \ {n}, s2, root, top, deep)
  BY <1>2, <1>4, ThreeKinds DEF Surveyed
<1> QED
  BY <1>1, <1>2, <1>3, <1>4

LEMMA SurveyLook ==
    ASSUME NEW root \in Nodes, NEW deep \in Nat \cup {None}, NEW top \in Int, NEW stk, NEW opn, NEW new, NEW sum,
           Surveyed(stk, opn, new, sum, root, top, deep), NEW n \in new,
           NEW stk2, NEW s2, Looking(stk, opn, sum, n, top, deep, stk2, s2)
    PROVE  Surveyed(stk2, opn, new \ {n}, s2, root, top, deep)
<1>0. Links \cap Dirs = {}
  BY ThreeKinds
<1>1. CASE n \in Dirs /\ AtMost(opn[2] + 1, deep)
  <2>1. stk2 = Onto(stk, n, opn) /\ s2 = sum
    BY <1>0, <1>1 DEF Looking
  <2> QED
    BY <1>1, <2>1, SurveyOn
<1>2. CASE ~(n \in Dirs /\ AtMost(opn[2] + 1, deep))
  <2>1. PICK A, B, V, W \in SUBSET Nodes :
             /\ Shape(stk, opn, new \ {n}, root, deep)
             /\ Sums(sum, (A \ Links) \ V, B \ V, (A \cap Links) \ V, root, top)
             /\ n \in V /\ n \in Nodes /\ Kept(B, V, W)
             /\ IF n \in Dirs THEN Kept(A, V, W) ELSE Gains(A, V, W, n)
             /\ \A t2 : Sums(t2, (A \ Links) \ W, B \ W, (A \cap Links) \ W, root, top) =>
                            Surveyed(stk, opn, new \ {n}, t2, root, top, deep)
    BY <1>2, SurveyPast
  <2>2. stk2 = stk
    BY <1>0, <1>2 DEF Looking
  <2>3. B \ W = B \ V
    BY <2>1 DEF Kept
  <2>4. CASE n \in Dirs
    <3>1. s2 = sum
      BY <1>0, <1>2, <2>4 DEF Looking
    <3>2. (A \ Links) \ W = (A \ Links) \ V /\ (A \cap Links) \ W = (A \cap Links) \ V
      BY <2>1, <2>4 DEF Kept
    <3> QED
      BY <2>1, <2>2, <2>3, <3>1, <3>2
  <2>5. CASE n \in Links
    <3>1. s2 = [sum EXCEPT !.links = @ + 1]
      BY <1>0, <2>5 DEF Looking
    <3>2. Gains(A \cap Links, V, W, n) /\ Kept(A \ Links, V, W)
      BY <1>0, <2>1, <2>5, GainsPart
    <3>3. (A \ Links) \ W = (A \ Links) \ V /\ (A \cap Links) \ W = ((A \cap Links) \ V) \cup {n}
      BY <3>2 DEF Gains, Kept
    <3>4. n \in Nodes \ ((A \cap Links) \ V) /\ (A \cap Links) \ V \in SUBSET Nodes
      BY <2>1
    <3>5. Sums(s2, (A \ Links) \ V, B \ V, ((A \cap Links) \ V) \cup {n}, root, top)
      BY <2>1, <3>1, <3>4, SumsLink
    <3> QED
      BY <2>1, <2>2, <2>3, <3>3, <3>5
  <2>6. CASE n \notin Dirs /\ n \notin Links
    <3>1. PICK h \in Largest(sum.largest, n, top) : s2 = CountFile(sum, n, opn[3], h)
      BY <2>6 DEF Looking
    <3>2. Gains(A \ Links, V, W, n) /\ Kept(A \cap Links, V, W)
      BY <2>1, <2>6, GainsPart
    <3>3. (A \ Links) \ W = ((A \ Links) \ V) \cup {n} /\ (A \cap Links) \ W = (A \cap Links) \ V
      BY <3>2 DEF Gains, Kept
    <3>4. n \in Nodes \ ((A \ Links) \ V) /\ (A \ Links) \ V \in SUBSET Nodes
      BY <2>1
    <3> PICK o : o = opn[3]
      OBVIOUS
    <3>5. \A d \in Subdirs(root) : n \in Within(d) <=> d = o
      <4>1. Shape(stk, opn, new, root, deep) /\ n \in new \ Dirs
        BY <2>6 DEF Surveyed
      <4> QED
        BY <4>1, ShareOf
    <3>6. Sums(s2, ((A \ Links) \ V) \cup {n}, B \ V, (A \cap Links) \ V, root, top)
      BY <2>1, <3>1, <3>4, <3>5, SumsFile
    <3> QED
      BY <2>1, <2>2, <2>3, <3>3, <3>6
  <2> QED
    BY <2>4, <2>5, <2>6
<1> QED
  BY <1>1, <1>2

(* So it is in every state of a du command, until it ends. *)
Survey ==
    Kind("du") =>
        /\ pc \in {"start", "visit", "exit"} /\ waiting = command.targets
        /\ pc = "start" => unread = {}
        /\ code = "ok" => stack = <<>> /\ unread = {}
        /\ (pc = "visit" \/ code = "ok") /\ Object[First] \in Dirs =>
               Surveyed(stack, open, unread, summary, Object[First], command.top, command.maxDepth)

(* What happens in du. *)
LEMMA DuCases ==
    ASSUME Kind("du"), Survey, [Next]_vars
    PROVE  \/ StartDu \/ Visit \/ (pc' = "exit" /\ code' = "interrupted" /\ UNCHANGED waiting)
           \/ UNCHANGED <<pc, code, waiting, duVars>>
<1>1. pc \in {"start", "visit", "exit"}
  BY DEF Survey
<1>2. ~StartDelete /\ ~StartClean /\ ~Inspect /\ ~InspectUnsafe /\ ~InspectMissing /\ ~Confirmed
  BY <1>1 DEF StartDelete, StartClean, Inspect, InspectUnsafe, InspectMissing, Confirmed, Kind
<1>3. ~RunReturns /\ ~NextOfMany /\ ~Finish /\ ~Consent /\ ~Decline
  BY <1>1 DEF RunReturns, NextOfMany, Finish, Consent, Decline, Kind
<1>4. \A t \in Nodes : ~TrashTarget(t) /\ ~TargetGone(t) /\ ~SingleTarget(t) /\ ~DirectoryTarget(t) /\ ~Process(t)
  BY <1>1 DEF TrashTarget, TargetGone, SingleTarget, DirectoryTarget, Next1, Process
<1>5. CASE Interrupt
  BY <1>5 DEF Interrupt, Exit
<1>6. CASE Handler \/ Arrive \/ Finished \/ UNCHANGED vars
  BY <1>6 DEF Handler, Deliver, EnterSet, LeaveSet, Arrive, Finished, vars, main
<1> QED
  BY <1>2, <1>3, <1>4, <1>5, <1>6 DEF Next, Program, User

LEMMA SurveyStep == IInv /\ OInv /\ Survey /\ [Next]_vars => Survey'
<1> SUFFICES ASSUME TypeOK, Coded, Survey, [Next]_vars, Kind("du")', command' = command, command \in Commands
             PROVE  Survey'
  BY TypeStep DEF IInv, OInv, Survey
<1>1. /\ Kind("du")
      /\ code # "none" => pc = "exit"
  BY DEF Coded, Over, Kind
<1>2. /\ pc \in {"start", "visit", "exit"} /\ waiting = command.targets
      /\ pc = "start" => unread = {}
      /\ code = "ok" => stack = <<>> /\ unread = {}
      /\ (pc = "visit" \/ code = "ok") /\ Object[First] \in Dirs =>
             Surveyed(stack, open, unread, summary, Object[First], command.top, command.maxDepth)
  BY DEF Survey, Kind
<1>3. command.top \in Int /\ command.maxDepth \in Nat \cup {None}
  BY CommandAssumption DEF Options
<1> PICK root, top, deep : root = Object[First] /\ top = command.top /\ deep = command.maxDepth
  OBVIOUS
<1>4. ASSUME UNCHANGED waiting,
             pc' \in {"visit", "exit"} \/ UNCHANGED <<pc, unread>>,
             code' = "ok" => stack' = <<>> /\ unread' = {},
             (pc' = "visit" \/ code' = "ok") /\ root \in Dirs =>
                Surveyed(stack', open', unread', summary', root, top, deep)
      PROVE  Survey'
  BY <1>2, <1>4 DEF Survey, First
<1>5. CASE StartDu
  <2>1. pc = "start" /\ code = "none" /\ unread = {} /\ UNCHANGED waiting
    BY <1>1, <1>2, <1>5 DEF StartDu, Coded, Over
  <2>2. CASE Object[RealPath[First]] = None
    BY <1>4, <1>5, <2>1, <2>2 DEF StartDu, Exit
  <2>3. CASE Object[RealPath[First]] # None
    <3>1. Analyze(root) /\ pc' = "visit" /\ code' = "none"
      BY <1>5, <2>1, <2>3 DEF StartDu
    <3>2. ASSUME root \in Dirs PROVE Surveyed(stack', open', unread', summary', root, top, deep)
      <4> PICK stk, sum, opn : stk = stack' /\ sum = summary' /\ opn = open'
        OBVIOUS
      <4>1. /\ stk = <<<<root, 0, None>>>> /\ sum = [NoSummary EXCEPT !.share = [d \in Subdirs(root) |-> 0]]
            /\ unread' = {}
        BY <2>1, <3>1, <3>2 DEF Analyze
      <4>2. Surveyed(stk, opn, {}, sum, root, top, deep)
        BY <1>3, <3>2, <4>1, SurveyStart
      <4> QED
        BY <4>1, <4>2
    <3> QED
      BY <1>4, <2>1, <3>1, <3>2
  <2> QED
    BY <2>2, <2>3
<1>6. CASE Visit
  <2>1. pc = "visit" /\ code = "none" /\ UNCHANGED waiting
    BY <1>1, <1>6 DEF Visit
  <2> PICK stk, opn, new, sum : stk = stack /\ opn = open /\ new = unread /\ sum = summary
    OBVIOUS
  <2> PICK stk2, opn2, new2, sum2 : stk2 = stack' /\ opn2 = open' /\ new2 = unread' /\ sum2 = summary'
    OBVIOUS
  <2>2. root \in Dirs => Surveyed(stk, opn, new, sum, root, top, deep)
    BY <1>2, <2>1
  <2>3. CASE Pop /\ UNCHANGED <<pc, code>>
    <3>1. new = {} /\ Taking(stk, sum, stk2, opn2, new2, sum2)
      BY <2>3 DEF Pop, Taking
    <3>2. ASSUME root \in Dirs PROVE Surveyed(stk2, opn2, new2, sum2, root, top, deep)
      <4>1. root \in Nodes
        BY <3>2 DEF Dirs
      <4>2. Surveyed(stk, opn, {}, sum, root, top, deep)
        BY <2>2, <3>1, <3>2
      <4> QED
        BY <1>3, <3>1, <4>1, <4>2, SurveyPop
    <3> QED
      BY <1>4, <2>1, <2>3, <3>2
  <2>4. ASSUME NEW n \in unread, Look(n, command.top, command.maxDepth), UNCHANGED <<pc, code>> PROVE Survey'
    <3>1. n \in new /\ new2 = new \ {n} /\ opn2 = opn
      BY <2>4 DEF Look
    <3>2. Looking(stk, opn, sum, n, top, deep, stk2, sum2)
      BY <2>4 DEF Look, LookDir, LookFile, Looking, Onto, CountFile
    <3>3. ASSUME root \in Dirs PROVE Surveyed(stk2, opn2, new2, sum2, root, top, deep)
      <4>1. root \in Nodes /\ Surveyed(stk, opn, new, sum, root, top, deep)
        BY <2>2, <3>3 DEF Dirs
      <4>2. Surveyed(stk2, opn, new \ {n}, sum2, root, top, deep)
        BY <1>3, <3>1, <3>2, <4>1, SurveyLook
      <4> QED
        BY <3>1, <4>2
    <3> QED
      BY <1>4, <2>1, <2>4, <3>3
  <2>5. CASE Exit("raised") /\ UNCHANGED duVars
    BY <1>4, <2>1, <2>5 DEF Exit
  <2>6. CASE unread = {} /\ stack = <<>> /\ Exit("ok") /\ UNCHANGED duVars
    <3>1. stk2 = stk /\ opn2 = opn /\ new2 = new /\ sum2 = sum
      BY <2>6 DEF duVars
    <3>2. root \in Dirs => Surveyed(stack', open', unread', summary', root, top, deep)
      BY <2>2, <3>1
    <3> QED
      BY <1>4, <2>1, <2>6, <3>2 DEF Exit, duVars
  <2> QED
    BY <1>6, <2>3, <2>4, <2>5, <2>6 DEF Visit
<1>7. CASE pc' = "exit" /\ code' = "interrupted" /\ UNCHANGED waiting
  BY <1>4, <1>7
<1>8. CASE UNCHANGED <<pc, code, waiting, duVars>>
  <2>1. UNCHANGED <<stack, open, unread, summary>>
    BY <1>8 DEF duVars
  <2>2. (pc' = "visit" \/ code' = "ok") /\ root \in Dirs =>
           Surveyed(stack', open', unread', summary', root, top, deep)
    BY <1>2, <1>8, <2>1
  <2> QED
    BY <1>2, <1>4, <1>8, <2>1, <2>2
<1> QED
  BY <1>1, <1>5, <1>6, <1>7, <1>8, DuCases, CommandAssumption DEF Kind

(* When du ends its summary is exact: each directory it can read within the  *)
(* depth asked for, each link and each file in one of those is counted once, *)
(* each file in the subdirectory of the root that it is in, and the files it *)
(* lists are as many as were asked for, none smaller than one left out:      *)
(* analyze_directory.                                                        *)
THEOREM Usage == Spec => []DuExact
<1>1. Init => Survey
  BY DEF Init, DuInit, Survey
<1>2. Survey => DuExact
  <2> SUFFICES ASSUME Survey, Kind("du"), code = "ok", Object[First] \in Dirs PROVE DuExact
    BY DEF DuExact
  <2> DEFINE root == Object[First]
             deep == command.maxDepth
  <2>1. Surveyed(<<>>, open, {}, summary, root, command.top, deep)
    BY DEF Survey
  <2>2. Under(Heads(<<>>) \cup {}) = {}
    BY DEF Heads, Under
  <2>3. Sums(summary, Sized(root, deep), Dug(root, deep), Seen(root, deep) \cap Links, root, command.top)
    <3>1. \A S : S \ {} = S
      OBVIOUS
    <3> QED
      BY <2>1, <2>2, <3>1 DEF Surveyed
  <2> QED
    BY <2>3 DEF DuExact, Sums, Heaviest, Sized, Seen, Dug, Bytes
<1> QED
  BY Invariant, Outcome, SurveyStep, <1>1, <1>2, PTL DEF Spec
======================================================================
