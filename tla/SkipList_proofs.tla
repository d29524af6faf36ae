--------------------------- MODULE SkipList_proofs ---------------------------
(***************************************************************************)
(* Proofs about SkipList, for any keys, values, readers, levels and number *)
(* of nodes.                                                               *)
(*                                                                         *)
(* Each level is a sorted list at every step (ListInv); in the middle of a *)
(* write the levels below writer.i are as the write leaves them and the    *)
(* others as it found them (InstallInv, BypassInv).  A reader may be on a  *)
(* node that is out of the list for good: what it can still reach from     *)
(* there has every key that has been in the list all along, and no pair    *)
(* that has not been in it since the scan began (ScanInv).                 *)
(*                                                                         *)
(* First come lemmas about the walks of SkipList: what they find on a      *)
(* sorted list, what the two kinds of stores make of such a list, and what *)
(* a reader can still reach when a store has been made.  They are about    *)
(* one level's pointers and one assignment of keys, so that they apply     *)
(* before and after a step.                                                *)
(***************************************************************************)
EXTENDS SkipList, FiniteSetTheorems, WellFoundedInduction, SequenceTheorems, TLAPS

-----------------------------------------------------------------------------
(* Sorted lists.                                                           *)

\* The header comes before every node.
Before(key, m, n) == m = Header \/ key[m] < key[n]

\* From the header on, link gives the nodes of a set by ascending keys.
IsList(key, link, L) ==
    /\ \A m, n \in L : key[m] = key[n] => m = n
    /\ \A m \in L \cup {Header} :
         \/ link[m] = Null /\ \A n \in L : ~Before(key, m, n)
         \/ /\ link[m] \in L
            /\ Before(key, m, link[m])
            /\ \A n \in L : Before(key, m, n) => n = link[m] \/ key[link[m]] < key[n]

\* The last node of a list before a key.
IsPred(key, L, k, m) ==
    /\ m \in L \cup {Header}
    /\ m # Header => key[m] < k
    /\ \A x \in L : key[x] < k => m # Header /\ key[x] <= key[m]

\* A set that has the earlier of two nodes when it has the later.
Downward(key, L, allowed) ==
    \A m, n \in L : n \in allowed /\ key[m] < key[n] => m \in allowed

KeyMaps(N) == [1 .. N -> Int]
LinkMaps == [Places -> Places \cup {Null, Unset}]

LEMMA Extremal ==
    ASSUME NEW s \in SUBSET Nat, s # {}
    PROVE  \E x \in s : \A y \in s : x <= y
<1> DEFINE Less == {p \in Nat \X Nat : p[1] < p[2]}
<1>1. IsWellFoundedOn(Less, Nat)
  BY NatLessThanWellFounded, Zenon DEF OpToRel
<1>2. PICK x \in s : \A y \in s : <<y, x>> \notin Less
  <2> HIDE DEF Less
  <2>1. QED
    BY <1>1, WFMin
<1>3. ASSUME NEW y \in s
      PROVE  x <= y
  <2>1. y < x => <<y, x>> \in Less
    OBVIOUS
  <2>2. QED
    BY <1>2, <2>1
<1>4. QED
  BY <1>3

\* The node with the least key in a set of nodes.
LEMMA LeastKey ==
    ASSUME NEW N \in Nat, NEW key \in KeyMaps(N), NEW S \in SUBSET (1 .. N), S # {}
    PROVE  \E b \in S : \A c \in S : key[b] <= key[c]
<1>0. \A n \in S : key[n] \in Int
  BY DEF KeyMaps
<1> DEFINE Less(n) == {m \in S : key[m] < key[n]}
           counts == {Cardinality(Less(n)) : n \in S}
<1>1. \A n \in S : IsFiniteSet(Less(n)) /\ Cardinality(Less(n)) \in Nat
  <2> SUFFICES ASSUME NEW n \in S
               PROVE  IsFiniteSet(Less(n)) /\ Cardinality(Less(n)) \in Nat
    OBVIOUS
  <2>1. IsFiniteSet(1 .. N)
    <3>1. 1 \in Int /\ N \in Int
      OBVIOUS
    <3>2. QED
      BY <3>1, FS_Interval
  <2>2. Less(n) \in SUBSET (1 .. N)
    OBVIOUS
  <2> HIDE DEF Less
  <2>3. QED
    BY <2>1, <2>2, FS_Subset, FS_CardinalityType
<1>2. counts \in SUBSET Nat /\ counts # {}
  BY <1>1
<1>3. PICK c \in counts : \A d \in counts : c <= d
  <2> HIDE DEF counts
  <2>1. QED
    BY <1>2, Extremal
<1>4. PICK b \in S : c = Cardinality(Less(b))
  BY <1>3
<1>5. ASSUME NEW m \in S, key[m] < key[b]
      PROVE  FALSE
  <2>1. Less(m) \in SUBSET Less(b) /\ m \in Less(b) /\ m \notin Less(m)
    <3>1. \A x \in S : key[x] < key[m] => key[x] < key[b]
      BY <1>0, <1>5
    <3>2. ~(key[m] < key[m])
      BY <1>0
    <3> HIDE DEF KeyMaps
    <3>3. QED
      BY <1>5, <3>1, <3>2
  <2>2. Cardinality(Less(b)) <= Cardinality(Less(m))
    BY <1>3, <1>4
  <2> DEFINE lb == Less(b)
             lm == Less(m)
  <2> HIDE DEF Less
  <2>3. /\ Cardinality(lm) <= Cardinality(lb)
        /\ Cardinality(lb) = Cardinality(lm) => lb = lm
    <3>1. IsFiniteSet(lb) /\ lm \in SUBSET lb
      BY <1>1, <2>1
    <3> HIDE DEF lb, lm
    <3>2. QED
      BY <3>1, FS_Subset
  <2>4. Cardinality(Less(m)) = Cardinality(Less(b))
    BY <1>1, <2>2, <2>3
  <2>5. QED
    BY <2>1, <2>3, <2>4
<1>6. \A m \in S : key[b] <= key[m]
  BY <1>0, <1>5
<1>7. QED
  BY <1>6

\* The node with the greatest key.
LEMMA GreatestKey ==
    ASSUME NEW N \in Nat, NEW key \in KeyMaps(N), NEW S \in SUBSET (1 .. N), S # {}
    PROVE  \E b \in S : \A c \in S : key[c] <= key[b]
<1> DEFINE turned == [n \in 1 .. N |-> 0 - key[n]]
<1>1. turned \in KeyMaps(N)
  BY DEF KeyMaps
<1>2. PICK b \in S : \A c \in S : turned[b] <= turned[c]
  <2> HIDE DEF turned
  <2>1. QED
    BY <1>1, LeastKey
<1>3. /\ \A n \in S : key[n] \in Int
      /\ \A n \in S : turned[n] = 0 - key[n]
  BY DEF KeyMaps
<1> HIDE DEF turned
<1>4. QED
  BY <1>2, <1>3

-----------------------------------------------------------------------------
(* The recursive walks have the values their equations say.                *)

\* Every set of places that has n and, with a place, the next allowed one.
Closed(link, allowed, s) == \A x \in s : link[x] \in allowed => link[x] \in s
Least(link, allowed, n) ==
    {m \in Places : \A s \in SUBSET Places : n \in s /\ Closed(link, allowed, s) => m \in s}

\* Such a walk starts with its first node and goes on as from the second.
LEMMA LeastStep ==
    ASSUME NEW link, NEW allowed \in SUBSET Places, NEW n \in Places
    PROVE  Least(link, allowed, n)
             = {n} \cup (IF link[n] \in allowed THEN Least(link, allowed, link[n]) ELSE {})
<1>1. CASE link[n] \notin allowed
  <2>1. Closed(link, allowed, {n})
    BY <1>1 DEF Closed
  <2>2. QED
    BY <1>1, <2>1 DEF Least
<1>2. CASE link[n] \in allowed
  <2> DEFINE rest == Least(link, allowed, link[n])
  <2>1. Closed(link, allowed, rest)
    BY DEF Closed, Least
  <2>2. link[n] \in rest /\ rest \in SUBSET Places
    BY <1>2 DEF Least
  <2>3. Closed(link, allowed, {n} \cup rest)
    BY <2>1, <2>2 DEF Closed
  <2>4. Least(link, allowed, n) \subseteq {n} \cup rest
    BY <2>2, <2>3 DEF Least
  <2>5. n \in Least(link, allowed, n)
    BY DEF Least
  <2>6. rest \subseteq Least(link, allowed, n)
    BY <1>2 DEF Least, Closed
  <2>7. QED
    BY <1>2, <2>4, <2>5, <2>6
<1>3. QED
  BY <1>1, <1>2

LEMMA WalkedStep ==
    ASSUME NEW link, NEW allowed \in SUBSET Places, NEW n \in Places
    PROVE  Walked(link, allowed)[n]
             = {n} \cup (IF link[n] \in allowed THEN Walked(link, allowed)[link[n]] ELSE {})
<1> DEFINE Is(f) == f = [m \in Places |->
                           {m} \cup (IF link[m] \in allowed THEN f[link[m]] ELSE {})]
           least == [m \in Places |-> Least(link, allowed, m)]
<1>1. Is(least)
  <2>1. \A m \in Places : link[m] \in allowed => link[m] \in Places
    OBVIOUS
  <2>2. \A m \in Places :
          Least(link, allowed, m)
            = {m} \cup (IF link[m] \in allowed THEN least[link[m]] ELSE {})
    BY <2>1, LeastStep
  <2> HIDE DEF Least
  <2>3. QED
    BY <2>2
<1>2. Walked(link, allowed) = CHOOSE f : Is(f)
  BY DEF Walked
<1> HIDE DEF Is, least
<1>3. Is(CHOOSE f : Is(f))
  BY <1>1
<1>4. Is(Walked(link, allowed))
  BY <1>2, <1>3
<1>5. QED
  BY <1>4 DEF Is

LEMMA StopStep ==
    ASSUME NEW link, NEW allowed \in SUBSET Places, NEW n \in Places
    PROVE  Stop(link, allowed)[n]
             = IF link[n] \in allowed THEN Stop(link, allowed)[link[n]] ELSE n
<1> DEFINE Is(f) == f = [m \in Places |-> IF link[m] \in allowed THEN f[link[m]] ELSE m]
           Ends(m) == {x \in Least(link, allowed, m) : link[x] \notin allowed}
           end == [m \in Places |-> CHOOSE x : x \in Ends(m)]
<1>1. Is(end)
  <2>1. ASSUME NEW m \in Places, link[m] \in allowed
        PROVE  Ends(m) = Ends(link[m])
    BY <2>1, LeastStep
  <2>2. ASSUME NEW m \in Places, link[m] \notin allowed
        PROVE  Ends(m) = {m}
    BY <2>2, LeastStep
  <2> HIDE DEF Ends
  <2>3. \A m \in Places : end[m] = IF link[m] \in allowed THEN end[link[m]] ELSE m
    BY <2>1, <2>2
  <2>4. end = [m \in Places |-> end[m]]
    OBVIOUS
  <2> HIDE DEF end
  <2>5. QED
    BY <2>3, <2>4
<1>2. Stop(link, allowed) = CHOOSE f : Is(f)
  BY DEF Stop
<1> HIDE DEF Is, end
<1>3. Is(CHOOSE f : Is(f))
  BY <1>1
<1>4. Is(Stop(link, allowed))
  BY <1>2, <1>3
<1>5. QED
  BY <1>4 DEF Is

-----------------------------------------------------------------------------
(* What a walk on a sorted list finds.                                     *)

\* A list of nodes among the places.
ListOf(N, key, link, L) ==
    /\ N \in Nat /\ N <= MaxNodes
    /\ key \in KeyMaps(N)
    /\ link \in LinkMaps
    /\ L \in SUBSET (1 .. N)
    /\ IsList(key, link, L)

LEMMA ListTypes ==
    ASSUME NEW N, NEW key, NEW link, NEW L, ListOf(N, key, link, L)
    PROVE  /\ N \in Nat
           /\ L \subseteq Places /\ Header \in Places /\ Header \notin L
           /\ L \cup {Header} \subseteq Places
           /\ Null \notin Places /\ Unset \notin Places /\ Null # Unset
           /\ \A n \in L : key[n] \in Int
           /\ \A n \in Places : link[n] \in Places \cup {Null, Unset}
<1>1. \A n \in 1 .. N : n \in Places /\ n # Header
  BY BoundsAssumption DEF ListOf, Places, Header
<1>2. Header \in Places /\ Null \notin Places /\ Unset \notin Places /\ Null # Unset
  BY BoundsAssumption DEF Places, Header, Null, Unset
<1>3. \A n \in L : key[n] \in Int
  BY DEF ListOf, KeyMaps
<1>4. \A n \in Places : link[n] \in Places \cup {Null, Unset}
  BY DEF ListOf, LinkMaps
<1>5. L \in SUBSET (1 .. N) /\ N \in Nat
  BY DEF ListOf
<1>6. QED
  BY <1>1, <1>2, <1>3, <1>4, <1>5

\* A node of the list or its header, and the allowed nodes behind it.
Row(key, L, allowed, n) == {n} \cup {m \in L \cap allowed : Before(key, n, m)}

LEMMA ListWalk ==
    ASSUME NEW N, NEW key, NEW link, NEW L, ListOf(N, key, link, L),
           NEW allowed \in SUBSET Places, Downward(key, L, allowed)
    PROVE  \A n \in L \cup {Header} :
              /\ Walked(link, allowed)[n] = Row(key, L, allowed, n)
              /\ Stop(link, allowed)[n] \in Row(key, L, allowed, n)
              /\ link[Stop(link, allowed)[n]] \notin allowed
              /\ Least(link, allowed, n) = Row(key, L, allowed, n)
<1> DEFINE Holds(n) == /\ Walked(link, allowed)[n] = Row(key, L, allowed, n)
                       /\ Stop(link, allowed)[n] \in Row(key, L, allowed, n)
                       /\ link[Stop(link, allowed)[n]] \notin allowed
                       /\ Least(link, allowed, n) = Row(key, L, allowed, n)
           Bad == {n \in L : ~Holds(n)}
<1>1. /\ L \cup {Header} \subseteq Places /\ Header \notin L
      /\ Null \notin Places
      /\ \A n \in L : key[n] \in Int
  BY ListTypes
<1>2. IsList(key, link, L)
  BY DEF ListOf
<1>3. ASSUME NEW n \in L \cup {Header},
             link[n] \in allowed => link[n] \in L \ Bad
      PROVE  Holds(n)
  <2>1. n \in Places
    BY <1>1
  <2>2. CASE link[n] \in allowed
    <3>1. link[n] \in L /\ Holds(link[n])
      BY <1>3, <2>2
    <3>2. /\ Walked(link, allowed)[n] = {n} \cup Walked(link, allowed)[link[n]]
          /\ Stop(link, allowed)[n] = Stop(link, allowed)[link[n]]
          /\ Least(link, allowed, n) = {n} \cup Least(link, allowed, link[n])
      BY <2>1, <2>2, WalkedStep, StopStep, LeastStep
    <3>3. /\ Before(key, n, link[n])
          /\ \A m \in L : Before(key, n, m) => m = link[n] \/ key[link[n]] < key[m]
      BY <1>1, <1>2, <3>1 DEF IsList
    <3>4. \A m \in L : Before(key, n, m) <=> m = link[n] \/ Before(key, link[n], m)
      BY <1>1, <3>1, <3>3 DEF Before
    <3>5. Row(key, L, allowed, n) = {n} \cup Row(key, L, allowed, link[n])
      BY <2>2, <3>1, <3>4 DEF Row
    <3>6. QED
      BY <3>1, <3>2, <3>5
  <2>3. CASE link[n] \notin allowed
    <3>1. /\ Walked(link, allowed)[n] = {n}
          /\ Stop(link, allowed)[n] = n
          /\ Least(link, allowed, n) = {n}
      BY <2>1, <2>3, WalkedStep, StopStep, LeastStep
    <3>2. ASSUME NEW m \in L \cap allowed, Before(key, n, m)
          PROVE  FALSE
      <4>1. link[n] \in L /\ (m = link[n] \/ key[link[n]] < key[m])
        BY <1>2, <3>2 DEF IsList
      <4>2. link[n] \in allowed
        BY <3>2, <4>1 DEF Downward
      <4>3. QED
        BY <2>3, <4>2
    <3>3. Row(key, L, allowed, n) = {n}
      BY <3>2 DEF Row
    <3>4. QED
      BY <2>3, <3>1, <3>3
  <2>4. QED
    BY <2>2, <2>3
<1> HIDE DEF Holds
<1>4. Bad = {}
  <2> SUFFICES ASSUME Bad # {}
               PROVE  FALSE
    OBVIOUS
  <2>1. Bad \in SUBSET (1 .. N) /\ key \in KeyMaps(N) /\ N \in Nat
    BY DEF ListOf
  <2>2. PICK b \in Bad : \A c \in Bad : key[c] <= key[b]
    <3> HIDE DEF Bad
    <3>1. QED
      BY <2>1, GreatestKey
  <2>3. ASSUME link[b] \in allowed
        PROVE  link[b] \in L \ Bad
    <3>1. link[b] \in L /\ key[b] < key[link[b]]
      BY <1>1, <1>2, <2>2, <2>3 DEF IsList, Before
    <3>2. ~(key[link[b]] <= key[b])
      BY <1>1, <2>2, <3>1
    <3>3. QED
      BY <2>2, <3>1, <3>2
  <2>4. Holds(b)
    BY <1>3, <2>2, <2>3
  <2>5. QED
    BY <2>2, <2>4
<1>5. \A n \in L : Holds(n)
  BY <1>4
<1>6. link[Header] \in allowed => link[Header] \in L \ Bad
  BY <1>1, <1>2, <1>4 DEF IsList
<1>7. Holds(Header)
  BY <1>3, <1>6
<1>8. QED
  BY <1>5, <1>7 DEF Holds

\* All of a list, when everything is allowed.
LEMMA WholeList ==
    ASSUME NEW N, NEW key, NEW link, NEW L, ListOf(N, key, link, L)
    PROVE  Walked(link, Places)[Header] \ {Header} = L
<1>1. L \subseteq Places /\ Header \notin L
  BY ListTypes
<1>2. Downward(key, L, Places)
  BY <1>1 DEF Downward
<1>3. Walked(link, Places)[Header] = Row(key, L, Places, Header)
  BY <1>2, ListWalk
<1>4. QED
  BY <1>1, <1>3 DEF Row, Before

\* Only one node is the last before a key.
LEMMA PredUnique ==
    ASSUME NEW N, NEW key, NEW link, NEW L, ListOf(N, key, link, L),
           NEW k \in Int, NEW m, NEW n, IsPred(key, L, k, m), IsPred(key, L, k, n)
    PROVE  m = n
<1>1. /\ Header \notin L
      /\ \A x \in L : key[x] \in Int
      /\ \A x, y \in L : key[x] = key[y] => x = y
  BY ListTypes DEF ListOf, IsList
<1>2. QED
  BY <1>1 DEF IsPred

\* The nodes below a key, or up to one.
Smaller(N, key, k) == {n \in 1 .. N : key[n] < k}
NotAbove(N, key, k) == {n \in 1 .. N : key[n] <= k}

LEMMA AllowedBelow ==
    ASSUME NEW N, NEW key, NEW link, NEW L, ListOf(N, key, link, L), NEW k \in Int
    PROVE  /\ Smaller(N, key, k) \in SUBSET Places
           /\ NotAbove(N, key, k) \in SUBSET Places
           /\ Downward(key, L, Smaller(N, key, k))
           /\ Downward(key, L, NotAbove(N, key, k))
           /\ \A x \in L : x \in Smaller(N, key, k) <=> key[x] < k
           /\ \A x \in L : x \in NotAbove(N, key, k) <=> key[x] <= k
<1>1. N \in Nat /\ N <= MaxNodes /\ MaxNodes \in Nat
  BY BoundsAssumption DEF ListOf
<1>2. 1 .. N \subseteq Places
  BY <1>1 DEF Places, Header
<1>3. L \in SUBSET (1 .. N) /\ \A x \in L : key[x] \in Int
  BY ListTypes DEF ListOf
<1>4. Smaller(N, key, k) \in SUBSET Places /\ NotAbove(N, key, k) \in SUBSET Places
  BY <1>2 DEF Smaller, NotAbove
<1>5. /\ \A x \in L : x \in Smaller(N, key, k) <=> key[x] < k
      /\ \A x \in L : x \in NotAbove(N, key, k) <=> key[x] <= k
  BY <1>3 DEF Smaller, NotAbove
<1>6. Downward(key, L, Smaller(N, key, k))
  BY <1>3, <1>5 DEF Downward
<1>7. Downward(key, L, NotAbove(N, key, k))
  BY <1>3, <1>5 DEF Downward
<1>8. QED
  BY <1>4, <1>5, <1>6, <1>7

\* The search for a key stops at the last node before it, from wherever it
\* enters the level.
LEMMA SearchStops ==
    ASSUME NEW N, NEW key, NEW link, NEW L, ListOf(N, key, link, L),
           NEW k \in Int, NEW n \in L \cup {Header}, n # Header => key[n] < k
    PROVE  IsPred(key, L, k, Stop(link, Smaller(N, key, k))[n])
<1> DEFINE allowed == Smaller(N, key, k)
           e == Stop(link, allowed)[n]
<1>1. Header \notin L /\ IsList(key, link, L)
  BY ListTypes DEF ListOf
<1>2. /\ allowed \in SUBSET Places
      /\ \A x \in L : x \in allowed <=> key[x] < k
      /\ \A x \in L : key[x] \in Int
  BY AllowedBelow, ListTypes
<1>3. Downward(key, L, allowed)
  BY AllowedBelow
<1> HIDE DEF allowed
<1>4. e \in Row(key, L, allowed, n) /\ link[e] \notin allowed
  BY <1>2, <1>3, ListWalk
<1> HIDE DEF e
<1>5. e \in L \cup {Header} /\ (e # Header => key[e] < k)
  BY <1>2, <1>4 DEF Row
<1>6. ASSUME NEW x \in L, key[x] < k
      PROVE  e # Header /\ key[x] <= key[e]
  <2>1. ~Before(key, e, x)
    <3>1. SUFFICES ASSUME Before(key, e, x)
                   PROVE  FALSE
      OBVIOUS
    <3>2. link[e] \in L /\ (x = link[e] \/ key[link[e]] < key[x])
      BY <1>1, <1>5, <3>1 DEF IsList
    <3>3. key[link[e]] < k
      BY <1>2, <1>6, <3>2
    <3>4. QED
      BY <1>2, <1>4, <3>2, <3>3
  <2>2. QED
    BY <1>2, <1>5, <2>1 DEF Before
<1>7. IsPred(key, L, k, e)
  BY <1>5, <1>6 DEF IsPred
<1>8. QED
  BY <1>7 DEF e, allowed

\* The node behind the last one before a key has the key if any node has it.
LEMMA SearchFinds ==
    ASSUME NEW N, NEW key, NEW link, NEW L, ListOf(N, key, link, L),
           NEW k \in Int, NEW m, IsPred(key, L, k, m)
    PROVE  /\ link[m] = Null \/ (link[m] \in L /\ k <= key[link[m]])
           /\ \A n \in L : key[n] = k => link[m] = n
<1>1. /\ IsList(key, link, L)
      /\ Header \notin L
      /\ \A x \in L : key[x] \in Int
      /\ m \in L \cup {Header}
  BY ListTypes DEF ListOf, IsPred
<1>2. link[m] = Null \/ (link[m] \in L /\ k <= key[link[m]])
  BY <1>1 DEF IsPred, IsList, Before
<1>3. ASSUME NEW n \in L, key[n] = k
      PROVE  link[m] = n
  <2>1. Before(key, m, n)
    BY <1>1, <1>3 DEF IsPred, Before
  <2>2. link[m] \in L /\ (n = link[m] \/ key[link[m]] < key[n])
    BY <1>1, <2>1 DEF IsList
  <2>3. QED
    BY <1>1, <1>2, <1>3, <2>2, ListTypes
<1>4. QED
  BY <1>2, <1>3

-----------------------------------------------------------------------------
(* What the stores of the writer make of a list.                           *)

\* A store to one pointer keeps the map of pointers a map of pointers.
LEMMA StoreTypes ==
    ASSUME NEW link \in LinkMaps, NEW b \in Places, NEW p \in Places \cup {Null, Unset}
    PROVE  /\ [link EXCEPT ![b] = p] \in LinkMaps
           /\ \A n \in Places : [link EXCEPT ![b] = p][n] = IF n = b THEN p ELSE link[n]
  BY DEF LinkMaps

\* A node put between its predecessor and what was behind that.
LEMMA InstalledList ==
    ASSUME NEW N, NEW key, NEW link, NEW L, ListOf(N, key, link, L),
           NEW new \in 1 .. N, NEW b, NEW link2 \in LinkMaps,
           IsPred(key, L, key[new], b),
           \A n \in L : key[n] # key[new],
           link2[new] = link[b], link2[b] = new,
           \A n \in Places \ {new, b} : link2[n] = link[n]
    PROVE  ListOf(N, key, link2, L \cup {new})
<1>1. /\ IsList(key, link, L)
      /\ Header \notin L /\ L \subseteq Places /\ L \subseteq 1 .. N
      /\ \A x \in L : key[x] \in Int
      /\ Null \notin Places
  BY ListTypes DEF ListOf
<1>2. N \in Nat /\ N <= MaxNodes /\ key \in KeyMaps(N)
  BY DEF ListOf
<1>3. key[new] \in Int /\ new # Header
  BY <1>2 DEF KeyMaps, Header
<1>4. /\ b \in L \cup {Header}
      /\ b # Header => key[b] < key[new]
      /\ \A x \in L : key[x] < key[new] => b # Header /\ key[x] <= key[b]
  BY DEF IsPred
<1>5. new \notin L
  OBVIOUS
<1> DEFINE L2 == L \cup {new}
           Good(m) ==
             \/ link2[m] = Null /\ \A n \in L2 : ~Before(key, m, n)
             \/ /\ link2[m] \in L2
                /\ Before(key, m, link2[m])
                /\ \A n \in L2 : Before(key, m, n) => n = link2[m] \/ key[link2[m]] < key[n]
<1>6. \A m \in L \cup {Header} :
        \/ link[m] = Null /\ \A n \in L : ~Before(key, m, n)
        \/ /\ link[m] \in L
           /\ Before(key, m, link[m])
           /\ \A n \in L : Before(key, m, n) => n = link[m] \/ key[link[m]] < key[n]
  BY <1>1 DEF IsList
<1>7. Good(b)
  <2>1. Before(key, b, new)
    BY <1>4 DEF Before
  <2>2. ASSUME NEW n \in L, Before(key, b, n)
        PROVE  key[new] < key[n]
    BY <1>1, <1>3, <1>4, <2>2 DEF Before
  <2>3. QED
    BY <2>1, <2>2
<1>8. Good(new)
  <2>1. \A n \in L : key[new] < key[n] => Before(key, b, n)
    BY <1>1, <1>3, <1>4 DEF Before
  <2>2. \A n \in L2 : Before(key, new, n) <=> n \in L /\ key[new] < key[n]
    BY <1>3 DEF Before
  <2>3. CASE link[b] = Null
    BY <1>1, <1>4, <1>6, <2>1, <2>2, <2>3
  <2>4. CASE link[b] # Null
    <3>1. /\ link[b] \in L /\ Before(key, b, link[b])
          /\ \A n \in L : Before(key, b, n) => n = link[b] \/ key[link[b]] < key[n]
      BY <1>4, <1>6, <2>4
    <3>2. PICK s \in L : s = link[b]
      BY <3>1
    <3>3. key[s] \in Int /\ key[s] # key[new]
      BY <1>1
    <3>4. b # Header => key[b] \in Int /\ key[b] < key[s]
      BY <1>1, <1>4, <3>1, <3>2 DEF Before
    <3>5. ~(key[s] < key[new])
      BY <1>3, <1>4, <3>3, <3>4
    <3>6. key[new] < key[s]
      BY <1>3, <3>3, <3>5
    <3>7. Before(key, new, s)
      BY <3>6 DEF Before
    <3>8. \A n \in L2 : Before(key, new, n) => n = s \/ key[s] < key[n]
      BY <2>1, <2>2, <3>1, <3>2
    <3>9. QED
      BY <3>2, <3>7, <3>8
  <2>5. QED
    BY <2>3, <2>4
<1>9. ASSUME NEW m \in L \cup {Header}, m # b
      PROVE  Good(m)
  <2>1. link2[m] = link[m]
    BY <1>1, <1>3, <1>5, <1>9, ListTypes
  <2>2. ASSUME Before(key, m, new)
        PROVE  b \in L /\ Before(key, m, b)
    <3>1. CASE m = Header
      BY <1>4, <1>9, <3>1 DEF Before
    <3>2. CASE m # Header
      <4>1. m \in L /\ key[m] < key[new]
        BY <2>2, <3>2 DEF Before
      <4>2. b \in L /\ key[m] <= key[b] /\ key[m] # key[b]
        BY <1>1, <1>4, <1>9, <4>1 DEF IsList
      <4>3. QED
        BY <1>1, <4>1, <4>2 DEF Before
    <3>3. QED
      BY <3>1, <3>2
  <2>3. CASE link[m] = Null
    <3>1. \A n \in L : ~Before(key, m, n)
      BY <1>1, <1>6, <2>3
    <3>2. \A n \in L2 : ~Before(key, m, n)
      BY <2>2, <3>1
    <3>3. QED
      BY <2>1, <2>3, <3>2
  <2>4. CASE link[m] # Null
    <3>1. /\ link[m] \in L /\ Before(key, m, link[m])
          /\ \A n \in L : Before(key, m, n) => n = link[m] \/ key[link[m]] < key[n]
      BY <1>6, <2>4
    <3>2. Before(key, m, new) => key[link[m]] < key[new]
      <4>1. SUFFICES ASSUME Before(key, m, new)
                     PROVE  key[link[m]] < key[new]
        OBVIOUS
      <4>2. b \in L /\ (b = link[m] \/ key[link[m]] < key[b])
        BY <2>2, <3>1, <4>1
      <4>3. key[b] < key[new] /\ b # Header
        BY <1>1, <1>4, <4>2
      <4>4. {key[b], key[new], key[link[m]]} \subseteq Int
        BY <1>1, <1>3, <3>1, <4>2
      <4>5. QED
        BY <4>2, <4>3, <4>4
    <3>3. QED
      BY <2>1, <3>1, <3>2
  <2>5. QED
    BY <2>3, <2>4
<1>10. \A m \in L2 \cup {Header} : Good(m)
  BY <1>7, <1>8, <1>9
<1>11. \A m, n \in L2 : key[m] = key[n] => m = n
  <2>1. \A m, n \in L : key[m] = key[n] => m = n
    BY <1>1 DEF IsList
  <2>2. QED
    BY <2>1
<1> HIDE DEF L2
<1>12. IsList(key, link2, L2)
  BY <1>10, <1>11 DEF IsList
<1>13. L2 \in SUBSET (1 .. N)
  BY <1>1 DEF L2
<1>14. QED
  BY <1>2, <1>12, <1>13 DEF ListOf, L2

\* What is left of a list when a range of keys is taken out.
Outside(key, L, lo, hi) == {n \in L : key[n] < lo \/ key[n] > hi}

\* The predecessor of a range linked past it.
LEMMA BypassedList ==
    ASSUME NEW N, NEW key, NEW link, NEW L, ListOf(N, key, link, L),
           NEW lo \in Int, NEW hi \in Int, lo <= hi, NEW b, NEW e,
           IsPred(key, L, lo, b), IsPred(key, L, hi + 1, e)
    PROVE  ListOf(N, key, [link EXCEPT ![b] = link[e]], Outside(key, L, lo, hi))
<1> DEFINE link2 == [link EXCEPT ![b] = link[e]]
           L2 == Outside(key, L, lo, hi)
           Good(m) ==
             \/ link2[m] = Null /\ \A n \in L2 : ~Before(key, m, n)
             \/ /\ link2[m] \in L2
                /\ Before(key, m, link2[m])
                /\ \A n \in L2 : Before(key, m, n) => n = link2[m] \/ key[link2[m]] < key[n]
<1>1. /\ IsList(key, link, L)
      /\ Header \notin L /\ L \cup {Header} \subseteq Places /\ L \subseteq 1 .. N
      /\ \A x \in L : key[x] \in Int
      /\ Null \notin Places
      /\ link \in LinkMaps
  BY ListTypes DEF ListOf
<1>2. /\ b \in L \cup {Header} /\ e \in L \cup {Header}
      /\ b # Header => key[b] < lo
      /\ e # Header => key[e] <= hi
      /\ \A x \in L : key[x] < lo => b # Header /\ key[x] <= key[b]
      /\ \A x \in L : key[x] <= hi => e # Header /\ key[x] <= key[e]
  BY <1>1 DEF IsPred
<1>3. /\ link2 \in LinkMaps
      /\ link2[b] = link[e]
      /\ \A n \in L \cup {Header} : n # b => link2[n] = link[n]
  <2>1. b \in Places /\ link[e] \in Places \cup {Null, Unset}
    BY <1>1, <1>2, ListTypes
  <2>2. QED
    BY <1>1, <2>1, StoreTypes
<1> HIDE DEF link2
<1>4. \A m \in L \cup {Header} :
        \/ link[m] = Null /\ \A n \in L : ~Before(key, m, n)
        \/ /\ link[m] \in L
           /\ Before(key, m, link[m])
           /\ \A n \in L : Before(key, m, n) => n = link[m] \/ key[link[m]] < key[n]
  BY <1>1 DEF IsList
<1>5. \A n \in L : n \in L2 <=> key[n] < lo \/ key[n] > hi
  BY DEF Outside
<1>6. L2 \subseteq L
  BY DEF Outside
<1> HIDE DEF L2
<1>7. Good(b)
  <2>1. ASSUME NEW n \in L2, Before(key, b, n)
        PROVE  key[n] > hi /\ Before(key, e, n)
    <3>1. n \in L /\ ~(key[n] < lo)
      BY <1>1, <1>2, <1>6, <2>1 DEF Before
    <3>2. key[n] > hi
      BY <1>5, <2>1, <3>1
    <3>3. e # Header => key[e] \in Int /\ key[n] \in Int /\ key[e] <= hi
      BY <1>1, <1>2, <3>1
    <3>4. Before(key, e, n)
      BY <3>2, <3>3 DEF Before
    <3>5. QED
      BY <3>2, <3>4
  <2>2. CASE link[e] = Null
    <3>1. \A n \in L : ~Before(key, e, n)
      BY <1>1, <1>2, <1>4, <2>2
    <3>2. QED
      BY <1>3, <1>6, <2>1, <2>2, <3>1
  <2>3. CASE link[e] # Null
    <3>1. /\ link[e] \in L /\ Before(key, e, link[e])
          /\ \A n \in L : Before(key, e, n) => n = link[e] \/ key[link[e]] < key[n]
      BY <1>2, <1>4, <2>3
    <3>2. PICK s \in L : s = link[e]
      BY <3>1
    <3>3. key[s] \in Int /\ (e # Header => key[e] \in Int /\ key[e] < key[s])
      BY <1>1, <1>2, <3>1, <3>2 DEF Before
    <3>4. ~(key[s] <= hi)
      BY <1>2, <3>3
    <3>5. key[s] > hi
      BY <3>3, <3>4
    <3>6. s \in L2
      BY <1>5, <3>5
    <3>7. b # Header => key[b] \in Int /\ key[b] < lo
      BY <1>1, <1>2
    <3>8. Before(key, b, s)
      BY <3>3, <3>5, <3>7 DEF Before
    <3>9. \A n \in L2 : Before(key, b, n) => n = s \/ key[s] < key[n]
      BY <1>6, <2>1, <3>1, <3>2
    <3>10. QED
      BY <1>3, <3>2, <3>6, <3>8, <3>9
  <2>4. QED
    BY <2>2, <2>3
<1>8. ASSUME NEW m \in L2 \cup {Header}, m # b
      PROVE  Good(m)
  <2>1. m \in L \cup {Header} /\ link2[m] = link[m]
    BY <1>3, <1>6, <1>8
  <2>2. CASE link[m] = Null
    <3>1. \A n \in L : ~Before(key, m, n)
      BY <1>1, <1>4, <2>1, <2>2
    <3>2. QED
      BY <1>6, <2>1, <2>2, <3>1
  <2>3. CASE link[m] # Null
    <3>1. /\ link[m] \in L /\ Before(key, m, link[m])
          /\ \A n \in L : Before(key, m, n) => n = link[m] \/ key[link[m]] < key[n]
      BY <1>4, <2>1, <2>3
    <3>2. link[m] \in L2
      <4>0. key[link[m]] \in Int
        BY <1>1, <3>1
      <4>1. CASE m # Header /\ key[m] > hi
        <5>1. key[m] \in Int /\ key[m] < key[link[m]]
          BY <1>1, <2>1, <3>1, <4>1 DEF Before
        <5>2. key[link[m]] > hi
          BY <4>0, <4>1, <5>1
        <5>3. QED
          BY <1>5, <3>1, <5>2
      <4>2. CASE m = Header \/ key[m] < lo
        <5>1. b \in L /\ Before(key, m, b)
          <6>1. CASE m = Header
            BY <1>2, <1>8, <6>1 DEF Before
          <6>2. CASE m # Header
            <7>1. m \in L /\ b \in L /\ key[m] <= key[b] /\ key[m] # key[b]
              BY <1>1, <1>2, <1>8, <2>1, <4>2, <6>2 DEF IsList
            <7>2. QED
              BY <1>1, <7>1 DEF Before
          <6>3. QED
            BY <6>1, <6>2
        <5>2. key[b] \in Int /\ key[b] < lo
          BY <1>1, <1>2, <5>1
        <5>3. b = link[m] \/ key[link[m]] < key[b]
          BY <3>1, <5>1
        <5>4. key[link[m]] < lo
          BY <4>0, <5>2, <5>3
        <5>5. QED
          BY <1>5, <3>1, <5>4
      <4>3. QED
        BY <1>5, <1>6, <1>8, <4>1, <4>2
    <3>3. QED
      BY <1>6, <2>1, <3>1, <3>2
  <2>4. QED
    BY <2>2, <2>3
<1>9. \A m \in L2 \cup {Header} : Good(m)
  BY <1>7, <1>8
<1>10. \A m, n \in L2 : key[m] = key[n] => m = n
  BY <1>1, <1>6 DEF IsList
<1>11. IsList(key, link2, L2)
  BY <1>9, <1>10 DEF IsList
<1>12. L2 \in SUBSET (1 .. N) /\ N \in Nat /\ N <= MaxNodes /\ key \in KeyMaps(N)
  BY <1>1, <1>6 DEF ListOf
<1>13. ListOf(N, key, link2, L2)
  BY <1>3, <1>11, <1>12 DEF ListOf
<1>14. QED
  BY <1>13 DEF link2, L2

-----------------------------------------------------------------------------
(* What a reader can still reach.                                          *)

Reach(link, n) == Least(link, Places, n)

LEMMA ReachFacts ==
    ASSUME NEW link, NEW n \in Places
    PROVE  /\ n \in Reach(link, n) /\ Reach(link, n) \subseteq Places
           /\ \A m \in Reach(link, n) : link[m] \in Places => link[m] \in Reach(link, n)
           /\ link[n] \in Places =>
                Reach(link, n) = {n} \cup Reach(link, link[n])
           /\ link[n] \notin Places => Reach(link, n) = {n}
           /\ \A s \in SUBSET Places :
                n \in s /\ Closed(link, Places, s) => Reach(link, n) \subseteq s
<1>1. Reach(link, n) = {n} \cup (IF link[n] \in Places THEN Reach(link, link[n]) ELSE {})
  BY LeastStep DEF Reach
<1>2. \A m \in Reach(link, n) : link[m] \in Places => link[m] \in Reach(link, n)
  BY DEF Reach, Least, Closed
<1>3. \A s \in SUBSET Places :
        n \in s /\ Closed(link, Places, s) => Reach(link, n) \subseteq s
  BY DEF Reach, Least
<1>4. Reach(link, n) \subseteq Places
  BY DEF Reach, Least
<1>5. QED
  BY <1>1, <1>2, <1>3, <1>4

\* What one can reach from a node in reach is in reach.
LEMMA ReachOn ==
    ASSUME NEW link, NEW n \in Places, NEW m \in Reach(link, n)
    PROVE  Reach(link, m) \subseteq Reach(link, n)
<1>1. m \in Places /\ Reach(link, n) \in SUBSET Places
  BY ReachFacts
<1>2. Closed(link, Places, Reach(link, n))
  BY ReachFacts DEF Closed
<1>3. QED
  BY <1>1, <1>2, ReachFacts

\* From a node of a list one reaches the rest of it.
LEMMA ReachList ==
    ASSUME NEW N, NEW key, NEW link, NEW L, ListOf(N, key, link, L),
           NEW n \in L \cup {Header}
    PROVE  Reach(link, n) = {n} \cup {m \in L : Before(key, n, m)}
<1>1. L \subseteq Places
  BY ListTypes
<1>2. Downward(key, L, Places)
  BY <1>1 DEF Downward
<1>3. Least(link, Places, n) = Row(key, L, Places, n)
  BY <1>2, ListWalk
<1>4. QED
  BY <1>1, <1>3 DEF Row, Reach

\* A store of a pointer to something in reach adds nothing to what is in reach.
LEMMA ReachShrinks ==
    ASSUME NEW link \in LinkMaps, NEW b \in Places, NEW p \in Places \cup {Null},
           p \in Places => p \in Reach(link, b), NEW n \in Places
    PROVE  Reach([link EXCEPT ![b] = p], n) \subseteq Reach(link, n)
<1> DEFINE link2 == [link EXCEPT ![b] = p]
<1>1. \A m \in Places : link2[m] = IF m = b THEN p ELSE link[m]
  BY DEF LinkMaps
<1> HIDE DEF link2
<1>2. Reach(link, n) \in SUBSET Places /\ n \in Reach(link, n)
  BY ReachFacts
<1>3. b \in Reach(link, n) => Reach(link, b) \subseteq Reach(link, n)
  BY ReachOn
<1>4. Closed(link2, Places, Reach(link, n))
  BY <1>1, <1>2, <1>3, ReachFacts DEF Closed
<1>5. Reach(link2, n) \subseteq Reach(link, n)
  BY <1>2, <1>4, ReachFacts
<1>6. QED
  BY <1>5 DEF link2

\* It takes nothing out of reach but what is skipped.
LEMMA ReachKept ==
    ASSUME NEW link \in LinkMaps, NEW b \in Places, NEW p \in Places \cup {Null},
           NEW gone \in SUBSET Places, link[b] \in gone \cup {p},
           \A x \in gone : link[x] \in gone \cup {p},
           NEW n \in Places
    PROVE  Reach(link, n) \ gone \subseteq Reach([link EXCEPT ![b] = p], n)
<1> DEFINE link2 == [link EXCEPT ![b] = p]
<1>1. \A m \in Places : link2[m] = IF m = b THEN p ELSE link[m]
  BY DEF LinkMaps
<1> HIDE DEF link2
<1>2. ASSUME NEW s \in SUBSET Places, n \in s, Closed(link2, Places, s)
      PROVE  Reach(link, n) \ gone \subseteq s
  <2> DEFINE more == IF b \in s THEN s \cup gone ELSE s
  <2>1. Closed(link, Places, more)
    BY <1>1, <1>2 DEF Closed
  <2>2. n \in more /\ more \in SUBSET Places /\ more \subseteq s \cup gone
    BY <1>2
  <2> HIDE DEF more
  <2>3. Reach(link, n) \subseteq more
    BY <2>1, <2>2, ReachFacts
  <2>4. QED
    BY <2>2, <2>3
<1>3. Reach(link, n) \subseteq Places
  BY ReachFacts
<1>4. Reach(link, n) \ gone \subseteq Reach(link2, n)
  BY <1>2, <1>3 DEF Reach, Least
<1>5. QED
  BY <1>4 DEF link2

\* A node nobody points to, put behind b, is all that comes into reach, and
\* nothing goes out of it.
LEMMA ReachInstalled ==
    ASSUME NEW link \in LinkMaps, NEW link2 \in LinkMaps, NEW b \in Places,
           NEW new \in Places, new # b,
           \A x \in Places : link[x] # new,
           link2[new] = link[b], link2[b] = new,
           \A x \in Places \ {new, b} : link2[x] = link[x],
           NEW n \in Places, n # new
    PROVE  /\ Reach(link2, n) \subseteq Reach(link, n) \cup {new}
           /\ Reach(link, n) \subseteq Reach(link2, n)
<1>1. Reach(link, n) \in SUBSET Places /\ n \in Reach(link, n)
  BY ReachFacts
<1>2. new \notin Reach(link, n)
  <2>1. Closed(link, Places, Places \ {new})
    BY DEF Closed
  <2>2. QED
    BY <2>1, ReachFacts
<1>3. Reach(link2, n) \subseteq Reach(link, n) \cup {new}
  <2> DEFINE more == IF b \in Reach(link, n) THEN Reach(link, n) \cup {new} ELSE Reach(link, n)
  <2>1. \A x \in Reach(link, n) : link[x] \in Places => link[x] \in Reach(link, n)
    BY ReachFacts
  <2>2. Closed(link2, Places, more)
    BY <1>1, <1>2, <2>1 DEF Closed
  <2>3. n \in more /\ more \in SUBSET Places
    BY <1>1
  <2> HIDE DEF more
  <2>4. Reach(link2, n) \subseteq more
    BY <2>2, <2>3, ReachFacts
  <2>5. QED
    BY <2>4 DEF more
<1>4. ASSUME NEW s \in SUBSET Places, n \in s, Closed(link2, Places, s)
      PROVE  Reach(link, n) \subseteq s
  <2>1. Closed(link, Places, s \ {new})
    BY <1>4 DEF Closed
  <2>2. n \in s \ {new} /\ s \ {new} \in SUBSET Places
    BY <1>4
  <2>3. QED
    BY <2>1, <2>2, ReachFacts
<1>5. Reach(link, n) \subseteq Reach(link2, n)
  BY <1>1, <1>4 DEF Reach, Least
<1>6. QED
  BY <1>3, <1>5

-----------------------------------------------------------------------------
(* What the steps of the writer need besides.                              *)

\* A new node changes nothing of a list it is not in.
LEMMA ListGrows ==
    ASSUME NEW N, NEW key, NEW link, NEW L, ListOf(N, key, link, L),
           N + 1 <= MaxNodes, NEW key2 \in KeyMaps(N + 1),
           \A n \in 1 .. N : key2[n] = key[n]
    PROVE  /\ ListOf(N + 1, key2, link, L)
           /\ \A k, m : IsPred(key, L, k, m) => IsPred(key2, L, k, m)
<1>1. /\ N \in Nat /\ link \in LinkMaps /\ L \in SUBSET (1 .. N)
      /\ IsList(key, link, L)
  BY DEF ListOf
<1>2. \A n \in L : key2[n] = key[n]
  BY <1>1
<1>3. IsList(key2, link, L)
  <2>1. \A m, n \in L : key2[m] = key2[n] => m = n
    BY <1>1, <1>2 DEF IsList
  <2>2. ASSUME NEW m \in L \cup {Header}
        PROVE  \/ link[m] = Null /\ \A n \in L : ~Before(key2, m, n)
               \/ /\ link[m] \in L
                  /\ Before(key2, m, link[m])
                  /\ \A n \in L : Before(key2, m, n) =>
                                    n = link[m] \/ key2[link[m]] < key2[n]
    <3>1. \/ link[m] = Null /\ \A n \in L : ~Before(key, m, n)
          \/ /\ link[m] \in L
             /\ Before(key, m, link[m])
             /\ \A n \in L : Before(key, m, n) => n = link[m] \/ key[link[m]] < key[n]
      BY <1>1 DEF IsList
    <3>2. \A n \in L : Before(key2, m, n) <=> Before(key, m, n)
      BY <1>2 DEF Before
    <3>3. PICK l : l = link[m]
      OBVIOUS
    <3>4. l \in L => key2[l] = key[l]
      BY <1>2
    <3>5. QED
      BY <1>2, <3>1, <3>2, <3>3, <3>4
  <2>3. QED
    BY <2>1, <2>2 DEF IsList
<1>4. \A k, m : IsPred(key, L, k, m) => IsPred(key2, L, k, m)
  BY <1>2 DEF IsPred
<1>5. N + 1 \in Nat /\ L \in SUBSET (1 .. N + 1)
  BY <1>1
<1>6. QED
  BY <1>1, <1>3, <1>4, <1>5 DEF ListOf

\* Any set of nodes is a finite one.
LEMMA NodeSets ==
    ASSUME NEW N \in Nat, N <= MaxNodes, NEW S \in SUBSET (1 .. N)
    PROVE  IsFiniteSet(S) /\ Cardinality(S) \in 0 .. MaxNodes
<1>1. MaxNodes \in Nat /\ 1 \in Int /\ N \in Int
  BY BoundsAssumption
<1>2. /\ IsFiniteSet(1 .. N)
      /\ Cardinality(1 .. N) = IF 1 > N THEN 0 ELSE N - 1 + 1
  BY <1>1, FS_Interval
<1>3. Cardinality(1 .. N) = N
  BY <1>2
<1>4. IsFiniteSet(S) /\ Cardinality(S) <= Cardinality(1 .. N)
  BY <1>2, FS_Subset
<1>5. Cardinality(S) \in Nat
  BY <1>4, FS_CardinalityType
<1>6. QED
  BY <1>1, <1>3, <1>4, <1>5

\* From the predecessor of a range and from the nodes in it, the pointers lead
\* to nodes in it or to the one behind it.
LEMMA RangeLinks ==
    ASSUME NEW N, NEW key, NEW link, NEW L, ListOf(N, key, link, L),
           NEW lo \in Int, NEW hi \in Int, lo <= hi, NEW b, NEW e,
           IsPred(key, L, lo, b), IsPred(key, L, hi + 1, e)
    PROVE  \A x \in (L \ Outside(key, L, lo, hi)) \cup {b} :
              link[x] \in (L \ Outside(key, L, lo, hi)) \cup {link[e]}
<1> DEFINE gone == L \ Outside(key, L, lo, hi)
<1>1. /\ Header \notin L
      /\ \A x \in L : key[x] \in Int
  BY ListTypes
<1>2. /\ gone \subseteq L
      /\ \A x \in L : x \in gone <=> lo <= key[x] /\ key[x] <= hi
  BY <1>1 DEF Outside
<1>3. /\ b \in L \cup {Header}
      /\ b # Header => key[b] < lo
      /\ \A x \in L : key[x] < lo => b # Header /\ key[x] <= key[b]
  BY DEF IsPred
<1>4. SUFFICES ASSUME NEW x \in gone \cup {b}, link[x] \notin gone
               PROVE  link[x] = link[e]
  OBVIOUS
<1> HIDE DEF gone
<1>5. x \in L \cup {Header} /\ (x # Header => key[x] < hi + 1 /\ key[x] \in Int)
  BY <1>1, <1>2, <1>3
<1>6. PICK l : l = link[x]
  OBVIOUS
<1>7. \/ l = Null /\ \A n \in L : ~Before(key, x, n)
      \/ l \in L /\ Before(key, x, l) /\ \A n \in L : Before(key, x, n) => n = l \/ key[l] < key[n]
  BY <1>5, <1>6 DEF ListOf, IsList
<1>8. l \in L /\ Before(key, x, l) => key[l] > hi
  <2>1. SUFFICES ASSUME l \in L, Before(key, x, l)
                 PROVE  key[l] > hi
    OBVIOUS
  <2>2. l \notin gone /\ key[l] \in Int
    BY <1>1, <1>4, <1>6, <2>1
  <2>3. lo <= key[l]
    <3>1. CASE x \in gone
      <4>1. x # Header /\ key[x] \in Int /\ lo <= key[x]
        BY <1>1, <1>2, <3>1
      <4>2. key[x] < key[l]
        BY <2>1, <4>1 DEF Before
      <4>3. QED
        BY <2>2, <4>1, <4>2
    <3>2. CASE x = b
      <4>1. SUFFICES ASSUME key[l] < lo
                     PROVE  FALSE
        BY <2>2
      <4>2. b # Header /\ key[l] <= key[b] /\ key[b] \in Int
        BY <1>1, <1>3, <2>1, <4>1
      <4>3. key[b] < key[l]
        BY <2>1, <3>2, <4>2 DEF Before
      <4>4. QED
        BY <2>2, <4>2, <4>3
    <3>3. QED
      BY <3>1, <3>2
  <2>4. QED
    BY <1>2, <2>1, <2>2, <2>3
<1>9. ASSUME NEW y \in L, key[y] < hi + 1
      PROVE  x # Header /\ key[y] <= key[x]
  <2>1. ~Before(key, x, y)
    <3>1. SUFFICES ASSUME Before(key, x, y)
                   PROVE  FALSE
      OBVIOUS
    <3>2. l \in L /\ Before(key, x, l) /\ (y = l \/ key[l] < key[y])
      BY <1>7, <3>1
    <3>3. key[l] > hi /\ key[l] \in Int /\ key[y] \in Int
      BY <1>1, <1>8, <3>2
    <3>4. QED
      BY <1>9, <3>2, <3>3
  <2>2. x # Header /\ ~(key[x] < key[y])
    BY <2>1 DEF Before
  <2>3. QED
    BY <1>1, <1>5, <2>2
<1>10. IsPred(key, L, hi + 1, x)
  BY <1>5, <1>9 DEF IsPred
<1>11. hi + 1 \in Int
  OBVIOUS
<1>12. x = e
  BY <1>10, <1>11, PredUnique
<1>13. QED
  BY <1>12

-----------------------------------------------------------------------------
(* The inductive invariant.                                                *)

KeyOf == [n \in 1 .. Len(node) |-> node[n].key]

\* A sorted list on each level, of nodes tall enough for it.
Sorted ==
    \A i \in Levels :
        /\ ListOf(Len(node), KeyOf, Links(i), ChainNodes(i))
        /\ \A n \in ChainNodes(i) : i <= node[n].top_level /\ node[n].top_level <= level_

\* Whatever node has been linked, in the list or out of it, points to a linked
\* node with a greater key.
Linked == {n \in 1 .. Len(node) : next[n][0] # Unset}
Ascending ==
    \A n \in Linked : next[n][0] # Null =>
        next[n][0] \in Linked /\ node[n].key < node[next[n][0]].key

\* Pointers of nodes that are not allocated have never been stored to.
Unused == \A n \in Places : n > Len(node) => next[n][0] = Unset

ListInv == Sorted /\ Ascending /\ Unused

Tall(S, i) == {n \in S : node[n].top_level >= i}

\* Every level has the nodes of level 0 that are tall enough.
Agree == \A i \in Levels : ChainNodes(i) = Tall(ChainNodes(0), i)

\* put has linked its node on the levels below writer.i.
InstallInv ==
    LET new == writer.new IN
    /\ writer.i <= node[new].top_level
    /\ node[new].top_level <= level_
    /\ \A j \in Levels : new \in ChainNodes(j) <=> j < writer.i
    /\ \A j \in Levels : ChainNodes(j) \ {new} = Tall(ChainNodes(0) \ {new}, j)
    /\ \A n \in ChainNodes(0) \ {new} : node[n].key # node[new].key
    /\ \A j \in Levels : j >= writer.i =>
          IsPred(KeyOf, ChainNodes(j), node[new].key, writer.update[j])
    /\ writer.i = 0 => next[new][0] = Unset
    /\ size_ = Cardinality(ChainNodes(0) \ {new})

\* erase_range has taken its range out of the levels below writer.i.
Outer(S) == Outside(KeyOf, S, writer.lo, writer.hi)
BypassInv ==
    /\ <<writer.lo, writer.hi>> \in Ranges
    /\ writer.cur_level = level_
    /\ \A j \in Levels : j < writer.i => Outer(ChainNodes(j)) = ChainNodes(j)
    /\ \A j \in Levels : Outer(ChainNodes(j)) = Tall(Outer(ChainNodes(0)), j)
    /\ \A j \in Levels : j >= writer.i =>
          IsPred(KeyOf, ChainNodes(j), writer.lo, writer.update[j])
    /\ size_ = Cardinality(Outer(ChainNodes(0))) + writer.erased

WriterInv ==
    /\ writer.op \in {"idle", "overwrite"} => Agree /\ size_ = Cardinality(ChainNodes(0))
    /\ writer.op = "overwrite" => writer.at \in ChainNodes(0)
    /\ writer.op = "install" => InstallInv
    /\ writer.op = "bypass" => BypassInv

\* What a scan has collected, and the nodes it can still come to.
OutKeys(s) == {s.out[j][1] : j \in 1 .. Len(s.out)}
Ahead(s) == IF s.cur = Null THEN {} ELSE Reach(Links(0), s.cur)
Pair(n) == <<node[n].key, node[n].value>>
InRange(s, k) == s.lo <= k /\ k <= s.hi

Collected(s) ==
    /\ \A j \in 2 .. Len(s.out) : s.out[j - 1][1] < s.out[j][1]
    /\ \A j \in 1 .. Len(s.out) : s.out[j] \in s.ever

\* Where a scan stands: on a linked node, ahead of all it has collected.
Standing(s) ==
    /\ s.pc = "load" => s.cur # Null
    /\ s.cur # Null =>
         /\ s.cur \in Linked
         /\ \A k \in OutKeys(s) :
              k < node[s.cur].key \/ (s.pc = "load" /\ k = node[s.cur].key)

\* What a scan knows of the list and of what lies ahead.
Covered(s) ==
    /\ \A n \in ChainNodes(0) : InRange(s, node[n].key) => Pair(n) \in s.ever
    /\ \A n \in Ahead(s) : InRange(s, node[n].key) => Pair(n) \in s.ever
    /\ \A k \in s.always :
         /\ InRange(s, k) /\ k \in Present
         /\ \/ k \in OutKeys(s)
            \/ \E n \in Ahead(s) \cap ChainNodes(0) :
                  node[n].key = k /\ (s.pc = "load" => n # s.cur)

ScanInv(s) ==
    /\ s.pc # "away" => Collected(s)
    /\ s.pc = "done" => s.always \subseteq OutKeys(s)
    /\ s.pc \in {"visit", "load"} => Standing(s) /\ Covered(s)

ReaderInv == \A r \in Readers : ScanInv(reader[r])

IInv == TypeOK /\ ListInv /\ WriterInv /\ ReaderInv

-----------------------------------------------------------------------------
(* Types, and the lists as the lemmas on walks see them.                   *)

NodeType == [key : Keys, value : Values \cup {Torn}, top_level : Levels]

LEMMA StateTypes ==
    ASSUME TypeOK
    PROVE  /\ Len(node) \in Nat /\ Len(node) <= MaxNodes
           /\ \A n \in 1 .. Len(node) :
                /\ node[n] \in NodeType
                /\ node[n].key \in Int /\ node[n].key \in Keys
                /\ node[n].value \in Values \cup {Torn}
                /\ node[n].top_level \in Levels
           /\ level_ \in Levels
           /\ 1 .. Len(node) \subseteq Places
<1>1. node \in Seq(NodeType) /\ Len(node) <= MaxNodes /\ level_ \in Levels
  BY DEF TypeOK, NodeType
<1>2. Len(node) \in Nat /\ \A n \in 1 .. Len(node) : node[n] \in NodeType
  BY <1>1
<1>3. 1 .. Len(node) \subseteq Places
  BY <1>1, <1>2, BoundsAssumption DEF Places, Header
<1>4. QED
  BY <1>1, <1>2, <1>3, KeysAssumption DEF NodeType

LEMMA KeyOfType ==
    ASSUME TypeOK
    PROVE  /\ KeyOf \in KeyMaps(Len(node))
           /\ \A n \in 1 .. Len(node) : KeyOf[n] = node[n].key
  BY StateTypes DEF KeyOf, KeyMaps

LEMMA LinksType ==
    ASSUME TypeOK, NEW i \in Levels
    PROVE  /\ Links(i) \in LinkMaps
           /\ \A n \in Places : Links(i)[n] = next[n][i]
<1>1. next \in [Places -> [Levels -> Places \cup {Null, Unset}]]
  BY DEF TypeOK
<1>2. QED
  BY <1>1 DEF Links, LinkMaps

LEMMA SearchSets ==
    ASSUME TypeOK
    PROVE  /\ \A k : Below(k) = Smaller(Len(node), KeyOf, k)
           /\ \A k : UpTo(k) = NotAbove(Len(node), KeyOf, k)
  BY KeyOfType DEF Below, UpTo, Smaller, NotAbove

\* A level that is a list with some nodes has them as its chain.
LEMMA ChainIs ==
    ASSUME NEW i \in Levels, NEW N, NEW key, NEW L, ListOf(N, key, Links(i), L)
    PROVE  ChainNodes(i) = L
  BY WholeList DEF ChainNodes

LEMMA LevelZero == 0 \in Levels /\ \A i \in Levels : i \in Int /\ i >= 0
  BY BoundsAssumption DEF Levels

\* Members of a chain.
LEMMA ChainTypes ==
    ASSUME TypeOK, Sorted, NEW i \in Levels
    PROVE  /\ ChainNodes(i) \subseteq 1 .. Len(node)
           /\ Header \notin ChainNodes(i)
           /\ ChainNodes(i) \cup {Header} \subseteq Places
           /\ \A n \in ChainNodes(i) : /\ KeyOf[n] = node[n].key /\ node[n].key \in Int
                                       /\ node[n].top_level \in Int
           /\ IsFiniteSet(ChainNodes(i))
           /\ Cardinality(ChainNodes(i)) \in 0 .. MaxNodes
<1>1. ListOf(Len(node), KeyOf, Links(i), ChainNodes(i))
  BY DEF Sorted
<1>2. /\ ChainNodes(i) \in SUBSET (1 .. Len(node))
      /\ Header \notin ChainNodes(i)
      /\ ChainNodes(i) \cup {Header} \subseteq Places
  BY <1>1, ListTypes DEF ListOf
<1>3. \A n \in ChainNodes(i) : /\ KeyOf[n] = node[n].key /\ node[n].key \in Int
                               /\ node[n].top_level \in Int
  BY <1>2, StateTypes, KeyOfType, LevelZero
<1>4. IsFiniteSet(ChainNodes(i)) /\ Cardinality(ChainNodes(i)) \in 0 .. MaxNodes
  BY <1>2, StateTypes, NodeSets
<1>5. QED
  BY <1>2, <1>3, <1>4

-----------------------------------------------------------------------------
(* What a search finds.                                                    *)

\* A search that enters a level before the key stops at its predecessor.
LEMMA StopIsPred ==
    ASSUME TypeOK, Sorted, NEW i \in Levels, NEW k \in Int,
           NEW n \in ChainNodes(i) \cup {Header}, n # Header => node[n].key < k
    PROVE  IsPred(KeyOf, ChainNodes(i), k, Stop(Links(i), Below(k))[n])
<1>1. ListOf(Len(node), KeyOf, Links(i), ChainNodes(i))
  BY DEF Sorted
<1>2. n # Header => KeyOf[n] < k
  BY ChainTypes
<1>3. IsPred(KeyOf, ChainNodes(i), k, Stop(Links(i), Smaller(Len(node), KeyOf, k))[n])
  BY <1>1, <1>2, SearchStops
<1>4. QED
  BY <1>3, SearchSets

\* Chains above level_ are empty.
LEMMA EmptyAbove ==
    ASSUME TypeOK, Sorted, NEW i \in Levels, i > level_
    PROVE  ChainNodes(i) = {}
<1>1. \A n \in ChainNodes(i) : i <= node[n].top_level /\ node[n].top_level <= level_
  BY DEF Sorted
<1>2. \A n \in ChainNodes(i) : node[n].top_level \in Int
  BY ChainTypes
<1>3. level_ \in Int /\ i \in Int
  BY StateTypes, LevelZero
<1>4. QED
  BY <1>1, <1>2, <1>3

LEMMA UpdateIs ==
    ASSUME TypeOK, Sorted, Agree, NEW k \in Int
    PROVE  \A i \in Levels : IsPred(KeyOf, ChainNodes(i), k, Update(k)[i])
<1> DEFINE At(f, i) ==
             IF i > level_ THEN Header ELSE
             Stop(Links(i), Below(k))[IF i = level_ THEN Header ELSE f[i + 1]]
           Is(f) == f = [i \in Levels |-> At(f, i)]
           Pred(i, m) == IsPred(KeyOf, ChainNodes(i), k, m)
           preds == [i \in Levels |-> IF i > level_ THEN Header
                                      ELSE Stop(Links(i), Below(k))[Header]]
<1>1. level_ \in Levels /\ level_ \in Int /\ \A i \in Levels : i \in Int
  BY StateTypes, LevelZero
<1>0. \A i \in Levels : i < level_ => i + 1 \in Levels /\ ~(i > level_) /\ i # level_
  <2>1. level_ \in 0 .. MaxLevel /\ MaxLevel \in Int
    BY <1>1, BoundsAssumption DEF Levels
  <2>2. ASSUME NEW i \in 0 .. MaxLevel, i < level_
        PROVE  i + 1 \in 0 .. MaxLevel /\ ~(i > level_) /\ i # level_
    BY <2>1, <2>2
  <2>3. QED
    BY <2>2 DEF Levels
<1>2. \A i \in Levels : i > level_ => Pred(i, Header)
  BY EmptyAbove DEF IsPred
<1>3. \A i \in Levels : Pred(i, Stop(Links(i), Below(k))[Header])
  BY StopIsPred
<1>4. ASSUME NEW i \in Levels, i < level_, NEW m, Pred(i + 1, m)
      PROVE  Pred(i, Stop(Links(i), Below(k))[m])
  <2>1. i + 1 \in Levels
    BY <1>0, <1>4
  <2>2. ChainNodes(i + 1) \subseteq ChainNodes(i)
    <3>1. ASSUME NEW n \in ChainNodes(i + 1)
          PROVE  n \in ChainNodes(i)
      <4>1. n \in ChainNodes(0) /\ node[n].top_level >= i + 1 /\ node[n].top_level \in Int
        BY <2>1, ChainTypes DEF Agree, Tall
      <4>2. node[n].top_level >= i
        BY <1>1, <4>1
      <4>3. QED
        BY <4>1, <4>2 DEF Agree, Tall
    <3>2. QED
      BY <3>1
  <2>3. m \in ChainNodes(i) \cup {Header} /\ (m # Header => node[m].key < k)
    BY <1>4, <2>1, <2>2, ChainTypes DEF IsPred
  <2>4. QED
    BY <2>3, StopIsPred
<1>5. \A i \in Levels : Pred(i, preds[i])
  BY <1>2, <1>3
<1>6. Is(preds)
  <2>1. ASSUME NEW i \in Levels
        PROVE  preds[i] = At(preds, i)
    <3>1. CASE i >= level_
      <4>1. i > level_ \/ (i = level_ /\ ~(i > level_))
        BY <1>1, <3>1
      <4>2. CASE i > level_
        BY <4>2, Zenon
      <4>3. CASE i = level_ /\ ~(i > level_)
        BY <4>3, Zenon
      <4>4. QED
        BY <4>1, <4>2, <4>3, Zenon
    <3>2. CASE i < level_
      <4>1. i + 1 \in Levels
        BY <1>0, <3>2
      <4>2. Pred(i, Stop(Links(i), Below(k))[preds[i + 1]])
        BY <1>4, <1>5, <3>2, <4>1
      <4>3. preds[i] = Stop(Links(i), Below(k))[preds[i + 1]]
        <5>1. ListOf(Len(node), KeyOf, Links(i), ChainNodes(i))
          BY DEF Sorted
        <5> HIDE DEF preds
        <5>2. QED
          BY <1>5, <4>2, <5>1, PredUnique
      <4>4. ~(i > level_) /\ i # level_
        BY <1>0, <3>2
      <4> HIDE DEF preds
      <4>5. At(preds, i) = Stop(Links(i), Below(k))[preds[i + 1]]
        BY <4>4, Zenon
      <4>6. QED
        BY <4>3, <4>5, Zenon
    <3>3. i >= level_ \/ i < level_
      BY <1>1
    <3>4. QED
      BY <3>1, <3>2, <3>3, Zenon
  <2>2. preds = [i \in Levels |-> preds[i]]
    OBVIOUS
  <2> HIDE DEF preds, At
  <2>3. QED
    BY <2>1, <2>2
<1>7. Update(k) = CHOOSE f : Is(f)
  BY DEF Update
<1> HIDE DEF Is, preds
<1>8. Is(CHOOSE f : Is(f))
  BY <1>6
<1>9. PICK f : f = Update(k) /\ Is(f)
  BY <1>7, <1>8
<1>10. \A i \in Levels : f[i] = At(f, i)
  BY <1>9 DEF Is
<1>11. ASSUME NEW i \in Levels, i < level_ => Pred(i + 1, f[i + 1])
       PROVE  Pred(i, f[i])
  <2>1. CASE i > level_
    BY <1>2, <1>10, <2>1
  <2>2. CASE i = level_
    BY <1>1, <1>3, <1>10, <2>2
  <2>3. CASE i < level_
    <3>1. Pred(i, Stop(Links(i), Below(k))[f[i + 1]])
      BY <1>4, <1>11, <2>3
    <3>2. f[i] = Stop(Links(i), Below(k))[f[i + 1]]
      BY <1>0, <1>10, <2>3, Zenon
    <3>3. QED
      BY <3>1, <3>2
  <2>4. QED
    BY <1>1, <2>1, <2>2, <2>3
<1> HIDE DEF Pred
<1>12. \A i \in Levels : Pred(i, f[i])
  <2> DEFINE bad == {x \in 0 .. MaxLevel : ~Pred(MaxLevel - x, f[MaxLevel - x])}
  <2>1. CASE bad = {}
    <3>1. ASSUME NEW i \in Levels
          PROVE  Pred(i, f[i])
      <4>1. MaxLevel - i \in 0 .. MaxLevel /\ MaxLevel - (MaxLevel - i) = i
        BY BoundsAssumption DEF Levels
      <4>2. QED
        BY <2>1, <4>1
    <3>2. QED
      BY <3>1
  <2>2. CASE bad # {}
    <3>1. bad \in SUBSET Nat
      BY BoundsAssumption
    <3>2. PICK x \in bad : \A y \in bad : x <= y
      <4> HIDE DEF bad
      <4>1. QED
        BY <2>2, <3>1, Extremal
    <3>3. x \in 0 .. MaxLevel /\ MaxLevel - x \in Levels
      BY <3>2, BoundsAssumption DEF Levels
    <3>4. MaxLevel - x < level_ => Pred(MaxLevel - x + 1, f[MaxLevel - x + 1])
      <4>1. SUFFICES ASSUME MaxLevel - x < level_
                     PROVE  Pred(MaxLevel - x + 1, f[MaxLevel - x + 1])
        OBVIOUS
      <4>2. x - 1 \in 0 .. MaxLevel /\ MaxLevel - (x - 1) = MaxLevel - x + 1 /\ ~(x <= x - 1)
        BY <1>1, <3>3, <4>1, BoundsAssumption DEF Levels
      <4>3. x - 1 \notin bad
        BY <3>2, <4>2
      <4>4. Pred(MaxLevel - (x - 1), f[MaxLevel - (x - 1)])
        BY <4>2, <4>3
      <4>5. QED
        BY <4>2, <4>4
    <3>5. Pred(MaxLevel - x, f[MaxLevel - x])
      BY <1>11, <3>3, <3>4
    <3>6. QED
      BY <3>2, <3>5
  <2>3. QED
    BY <2>1, <2>2
<1>13. QED
  BY <1>9, <1>12 DEF Pred

\* The node put looks at after its search.
LEMMA FoundIs ==
    ASSUME TypeOK, Sorted, Agree, NEW k \in Int
    PROVE  LET found == next[Update(k)[0]][0] IN
           /\ found = Null \/ (found \in ChainNodes(0) /\ k <= node[found].key)
           /\ \A n \in ChainNodes(0) : node[n].key = k => found = n
<1>1. 0 \in Levels
  BY LevelZero
<1>2. IsPred(KeyOf, ChainNodes(0), k, Update(k)[0])
  BY <1>1, UpdateIs
<1>3. ListOf(Len(node), KeyOf, Links(0), ChainNodes(0))
  BY <1>1 DEF Sorted
<1>4. PICK m : m = Update(k)[0]
  OBVIOUS
<1>5. m \in Places /\ Links(0)[m] = next[m][0]
  <2>1. m \in ChainNodes(0) \cup {Header}
    BY <1>2, <1>4 DEF IsPred
  <2>2. m \in Places
    BY <1>1, <2>1, ChainTypes
  <2>3. QED
    BY <1>1, <2>2, LinksType
<1>6. /\ Links(0)[m] = Null \/ (Links(0)[m] \in ChainNodes(0) /\ k <= KeyOf[Links(0)[m]])
      /\ \A n \in ChainNodes(0) : KeyOf[n] = k => Links(0)[m] = n
  BY <1>2, <1>3, <1>4, SearchFinds
<1>7. \A n \in ChainNodes(0) : KeyOf[n] = node[n].key
  BY <1>1, ChainTypes
<1>8. QED
  BY <1>4, <1>5, <1>6, <1>7

\* The nodes erase_range counts are those of its range.
LEMMA ErasedIs ==
    ASSUME TypeOK, Sorted, NEW lo \in Int, NEW hi \in Int, NEW b,
           IsPred(KeyOf, ChainNodes(0), lo, b), lo <= hi
    PROVE  Erased(b, hi) = {n \in ChainNodes(0) : lo <= node[n].key /\ node[n].key <= hi}
<1>1. 0 \in Levels
  BY LevelZero
<1>2. ListOf(Len(node), KeyOf, Links(0), ChainNodes(0))
  BY <1>1 DEF Sorted
<1> DEFINE S == NotAbove(Len(node), KeyOf, hi)
<1>3. /\ S \in SUBSET Places /\ Downward(KeyOf, ChainNodes(0), S)
      /\ \A x \in ChainNodes(0) : x \in S <=> KeyOf[x] <= hi
  BY <1>2, AllowedBelow
<1>4. /\ b \in ChainNodes(0) \cup {Header}
      /\ b # Header => KeyOf[b] < lo
      /\ \A x \in ChainNodes(0) : KeyOf[x] < lo => b # Header /\ KeyOf[x] <= KeyOf[b]
  BY DEF IsPred
<1> HIDE DEF S
<1>5. Walked(Links(0), S)[b] = Row(KeyOf, ChainNodes(0), S, b)
  BY <1>2, <1>3, <1>4, ListWalk
<1>6. /\ Header \notin ChainNodes(0)
      /\ \A n \in ChainNodes(0) : KeyOf[n] = node[n].key /\ node[n].key \in Int
  BY <1>1, ChainTypes
<1>7. Erased(b, hi) = {m \in ChainNodes(0) \cap S : Before(KeyOf, b, m)} \ {b}
  BY <1>5, SearchSets DEF Erased, Row, S
<1>8. ASSUME NEW m \in ChainNodes(0)
      PROVE  Before(KeyOf, b, m) /\ m # b <=> lo <= node[m].key
  BY <1>4, <1>6 DEF Before
<1>9. QED
  BY <1>3, <1>6, <1>7, <1>8

\* The node a level is linked on to, past the range.
LEMMA BeyondIs ==
    ASSUME TypeOK, Sorted, NEW i \in Levels, NEW lo \in Int, NEW hi \in Int, lo <= hi,
           NEW b, IsPred(KeyOf, ChainNodes(i), lo, b)
    PROVE  \E e \in ChainNodes(i) \cup {Header} :
              /\ IsPred(KeyOf, ChainNodes(i), hi + 1, e)
              /\ Beyond(b, i, hi) = Links(i)[e]
<1>1. ListOf(Len(node), KeyOf, Links(i), ChainNodes(i))
  BY DEF Sorted
<1>2. KeyOf \in KeyMaps(Len(node))
  BY KeyOfType
<1>3. UpTo(hi) = Smaller(Len(node), KeyOf, hi + 1)
  <2>1. \A n \in 1 .. Len(node) : KeyOf[n] \in Int
    BY <1>2 DEF KeyMaps
  <2>2. UpTo(hi) = NotAbove(Len(node), KeyOf, hi)
    BY SearchSets
  <2>3. QED
    BY <2>1, <2>2 DEF NotAbove, Smaller
<1>4. b \in ChainNodes(i) \cup {Header} /\ (b # Header => KeyOf[b] < lo)
  BY DEF IsPred
<1>5. \A n \in ChainNodes(i) : KeyOf[n] \in Int
  BY ChainTypes
<1>6. b # Header => KeyOf[b] < hi + 1
  BY <1>4, <1>5
<1>7. PICK e : e = Stop(Links(i), UpTo(hi))[b]
  OBVIOUS
<1>8. IsPred(KeyOf, ChainNodes(i), hi + 1, e)
  <2>1. hi + 1 \in Int
    OBVIOUS
  <2>2. IsPred(KeyOf, ChainNodes(i), hi + 1,
               Stop(Links(i), Smaller(Len(node), KeyOf, hi + 1))[b])
    BY <1>1, <1>4, <1>6, <2>1, SearchStops
  <2>3. QED
    BY <1>3, <1>7, <2>2
<1>9. e \in ChainNodes(i) \cup {Header}
  BY <1>8 DEF IsPred
<1>10. Links(i)[e] = next[e][i]
  BY <1>9, ChainTypes, LinksType
<1>11. QED
  BY <1>7, <1>8, <1>9, <1>10 DEF Beyond

-----------------------------------------------------------------------------
(* What a scan can still come to.                                          *)

\* The nodes of level 0 are linked, and the header points to one of them.
LEMMA ChainLinked ==
    ASSUME TypeOK, Sorted
    PROVE  /\ ChainNodes(0) \subseteq Linked
           /\ Linked \subseteq Places /\ Linked \subseteq 1 .. Len(node)
           /\ next[Header][0] = Null \/ next[Header][0] \in ChainNodes(0)
           /\ \A m, n \in ChainNodes(0) : node[m].key = node[n].key => m = n
<1>1. 0 \in Levels
  BY LevelZero
<1>2. ListOf(Len(node), KeyOf, Links(0), ChainNodes(0))
  BY <1>1 DEF Sorted
<1>3. /\ ChainNodes(0) \subseteq 1 .. Len(node)
      /\ ChainNodes(0) \cup {Header} \subseteq Places
      /\ \A n \in ChainNodes(0) : KeyOf[n] = node[n].key
  BY <1>1, ChainTypes
<1>4. /\ \A n \in ChainNodes(0) \cup {Header} :
           Links(0)[n] = Null \/ Links(0)[n] \in ChainNodes(0)
      /\ \A m, n \in ChainNodes(0) : KeyOf[m] = KeyOf[n] => m = n
  BY <1>2 DEF ListOf, IsList
<1>5. Unset \notin Places /\ Null # Unset
  BY <1>2, ListTypes
<1>6. \A n \in ChainNodes(0) \cup {Header} : Links(0)[n] = next[n][0]
  BY <1>1, <1>3, LinksType
<1>7. ChainNodes(0) \subseteq Linked
  <2>1. ASSUME NEW n \in ChainNodes(0)
        PROVE  next[n][0] # Unset
    <3>1. next[n][0] = Null \/ next[n][0] \in ChainNodes(0)
      BY <1>4, <1>6
    <3>2. QED
      BY <1>3, <1>5, <3>1
  <2>2. QED
    BY <1>3, <2>1 DEF Linked
<1>8. Linked \subseteq Places /\ Linked \subseteq 1 .. Len(node)
  BY StateTypes DEF Linked
<1>9. QED
  BY <1>3, <1>4, <1>6, <1>7, <1>8

\* From a linked node one reaches only linked ones, with greater keys.
LEMMA AheadLinked ==
    ASSUME TypeOK, ListInv, NEW n \in Linked
    PROVE  /\ n \in Reach(Links(0), n)
           /\ Reach(Links(0), n) \subseteq Linked
           /\ \A m \in Reach(Links(0), n) : m = n \/ node[n].key < node[m].key
<1> DEFINE s == {m \in Linked : m = n \/ node[n].key < node[m].key}
<1>1. 0 \in Levels /\ Linked \subseteq Places /\ Linked \subseteq 1 .. Len(node)
  BY LevelZero, ChainLinked DEF ListInv
<1>2. \A m \in Linked : node[m].key \in Int
  BY <1>1, StateTypes
<1>3. \A m \in Places : Links(0)[m] = next[m][0]
  BY <1>1, LinksType
<1>4. Null \notin Places
  BY BoundsAssumption DEF Null, Places, Header
<1>5. Closed(Links(0), Places, s)
  <2>1. SUFFICES ASSUME NEW m \in s, Links(0)[m] \in Places
                 PROVE  Links(0)[m] \in s
    BY DEF Closed
  <2>2. m \in Linked /\ next[m][0] \in Places /\ next[m][0] # Null
    BY <1>1, <1>3, <1>4, <2>1
  <2>3. next[m][0] \in Linked /\ node[m].key < node[next[m][0]].key
    BY <2>2 DEF ListInv, Ascending
  <2>4. PICK x : x = next[m][0]
    OBVIOUS
  <2>5. x \in Linked /\ node[m].key < node[x].key /\ (m = n \/ node[n].key < node[m].key)
    BY <2>1, <2>3, <2>4
  <2>6. node[n].key < node[x].key
    BY <1>2, <2>2, <2>5
  <2>7. QED
    BY <1>1, <1>3, <2>2, <2>4, <2>5, <2>6
<1>6. s \in SUBSET Places /\ n \in s
  BY <1>1
<1> HIDE DEF s
<1>7. n \in Reach(Links(0), n) /\ Reach(Links(0), n) \subseteq s
  BY <1>1, <1>5, <1>6, ReachFacts
<1>8. QED
  BY <1>7 DEF s

\* What a step that leaves a scan where it is does with its history, when
\* afterwards these pairs are stored.
Follows(s, s2, pairs) ==
    IF s.pc \in {"away", "done"} THEN s2 = s
    ELSE /\ s2.pc = s.pc /\ s2.lo = s.lo /\ s2.hi = s.hi /\ s2.cur = s.cur /\ s2.out = s.out
         /\ s.ever \subseteq s2.ever
         /\ \A p \in pairs : InRange(s, p[1]) => p \in s2.ever
         /\ s2.always \subseteq s.always
         /\ \A k \in s2.always : \E p \in pairs : p[1] = k

ScanType ==
    [lo : Keys, hi : Keys, pc : {"load", "visit", "done"},
     cur : Places \cup {Null}, out : Seq(Pairs), ever : SUBSET Pairs, always : SUBSET Keys]

LEMMA ReaderTypes ==
    ASSUME TypeOK, NEW r \in Readers
    PROVE  \/ reader[r] = Away /\ reader[r].pc = "away"
           \/ /\ reader[r] \in ScanType
              /\ reader[r].pc \in {"load", "visit", "done"}
              /\ reader[r].lo \in Keys /\ reader[r].hi \in Keys
              /\ reader[r].lo \in Int /\ reader[r].hi \in Int
              /\ reader[r].cur \in Places \cup {Null}
              /\ reader[r].out \in Seq(Pairs)
              /\ reader[r].ever \subseteq Pairs
              /\ reader[r].always \subseteq Keys
<1>1. reader[r] \in {Away} \cup ScanType
  BY DEF TypeOK, ScanType
<1>2. CASE reader[r] = Away
  BY <1>2 DEF Away
<1>3. CASE reader[r] \in ScanType
  <2>1. PICK s \in ScanType : s = reader[r]
    BY <1>3
  <2>2. /\ s.lo \in Keys /\ s.hi \in Keys /\ s.pc \in {"load", "visit", "done"}
        /\ s.cur \in Places \cup {Null} /\ s.out \in Seq(Pairs)
        /\ s.ever \subseteq Pairs /\ s.always \subseteq Keys
    BY DEF ScanType
  <2>3. s.lo \in Int /\ s.hi \in Int
    BY <2>2, KeysAssumption
  <2>4. QED
    BY <2>1, <2>2, <2>3
<1>4. QED
  BY <1>1, <1>2, <1>3

\* A step of the writer that stores or unlinks nodes.
LEMMA WatchFollows ==
    ASSUME TypeOK, NEW stored \in SUBSET Pairs
    PROVE  /\ Watch(stored) \in [Readers -> {Away} \cup ScanType]
           /\ \A r \in Readers : Follows(reader[r], Watch(stored)[r], stored)
<1>1. ASSUME NEW r \in Readers
      PROVE  /\ Watch(stored)[r] \in {Away} \cup ScanType
             /\ Follows(reader[r], Watch(stored)[r], stored)
  <2>1. CASE reader[r].pc \in {"away", "done"}
    <3>1. Watch(stored)[r] = reader[r]
      BY <2>1 DEF Watch
    <3>2. QED
      BY <2>1, <3>1, ReaderTypes DEF Follows
  <2>2. CASE reader[r].pc \notin {"away", "done"}
    <3>1. PICK s \in ScanType : s = reader[r]
      BY <2>2, ReaderTypes
    <3>2. /\ s.lo \in Keys /\ s.hi \in Keys /\ s.pc \in {"load", "visit", "done"}
          /\ s.cur \in Places \cup {Null} /\ s.out \in Seq(Pairs)
          /\ s.ever \subseteq Pairs /\ s.always \subseteq Keys
      BY DEF ScanType
    <3> DEFINE ever == s.ever \cup Within(stored, s.lo, s.hi)
               always == s.always \cap {p[1] : p \in stored}
    <3>3. PICK t : t = [s EXCEPT !.ever = ever, !.always = always]
      OBVIOUS
    <3>4. Watch(stored)[r] = t
      BY <2>2, <3>1, <3>3 DEF Watch
    <3>5. ever \in SUBSET Pairs /\ always \in SUBSET Keys
      BY <3>2 DEF Within
    <3>6. /\ s.ever \subseteq ever
          /\ \A p \in stored : InRange(s, p[1]) => p \in ever
          /\ always \subseteq s.always
          /\ \A k \in always : \E p \in stored : p[1] = k
      BY DEF Within, InRange
    <3> HIDE DEF ever, always
    <3>7. /\ t \in ScanType
          /\ t.pc = s.pc /\ t.lo = s.lo /\ t.hi = s.hi /\ t.cur = s.cur /\ t.out = s.out
          /\ t.ever = ever /\ t.always = always
      BY <3>3, <3>5 DEF ScanType
    <3>8. s.pc \notin {"away", "done"}
      BY <2>2, <3>1
    <3>9. Follows(s, t, stored)
      BY <3>6, <3>7, <3>8 DEF Follows
    <3>10. QED
      BY <3>1, <3>4, <3>7, <3>9
  <2>3. QED
    BY <2>1, <2>2
<1>2. Watch(stored) = [r \in Readers |-> Watch(stored)[r]]
  BY DEF Watch
<1>3. QED
  BY <1>1, <1>2

\* So does one that stores and unlinks nothing.
LEMMA SameFollows ==
    ASSUME TypeOK, ReaderInv
    PROVE  \A r \in Readers : Follows(reader[r], reader[r], Stored)
<1>1. SUFFICES ASSUME NEW r \in Readers, reader[r].pc \notin {"away", "done"}
               PROVE  Follows(reader[r], reader[r], Stored)
  BY DEF Follows
<1>2. PICK s : s = reader[r]
  OBVIOUS
<1>3. Covered(s)
  BY <1>1, <1>2, ReaderTypes DEF ReaderInv, ScanInv
<1>4. ASSUME NEW p \in Stored, InRange(s, p[1])
      PROVE  p \in s.ever
  BY <1>3, <1>4 DEF Covered, Stored, Pair
<1>5. ASSUME NEW k \in s.always
      PROVE  \E p \in Stored : p[1] = k
  <2>1. k \in Present
    BY <1>3, <1>5 DEF Covered
  <2>2. PICK n \in ChainNodes(0) : node[n].key = k
    BY <2>1 DEF Present
  <2>3. <<node[n].key, node[n].value>> \in Stored
    BY DEF Stored
  <2>4. <<node[n].key, node[n].value>>[1] = k
    BY <2>2
  <2>5. QED
    BY <2>3, <2>4
<1>6. QED
  BY <1>1, <1>2, <1>4, <1>5 DEF Follows

\* Scans keep what they know when the list changes under them: linked nodes
\* stay linked, new ones ahead are in the list, others keep their values, and
\* nodes ahead that stay in the list stay ahead.
LEMMA ScansKept ==
    ASSUME TypeOK, ListInv, ReaderInv, TypeOK', ListInv',
           \A r \in Readers : Follows(reader[r], reader'[r], Stored'),
           \A n \in Linked : n \in Linked' /\ node'[n].key = node[n].key,
           \A n \in Linked : \A m \in Reach(Links(0)', n) :
               m \in ChainNodes(0)' \/ (m \in Reach(Links(0), n) /\ node'[m] = node[m]),
           \A n \in Linked : \A m \in Reach(Links(0), n) \cap ChainNodes(0) :
               m \in ChainNodes(0)' => m \in Reach(Links(0)', n),
           \A n \in ChainNodes(0), m \in ChainNodes(0)' :
               node[n].key = node'[m].key => n \in ChainNodes(0)'
    PROVE  ReaderInv'
<1> SUFFICES ASSUME NEW r \in Readers
             PROVE  ScanInv(reader[r])'
  BY DEF ReaderInv
<1>1. PICK s : s = reader[r]
  OBVIOUS
<1>2. PICK s2 : s2 = reader'[r]
  OBVIOUS
<1>3. ScanInv(s) /\ Follows(s, s2, Stored')
  BY <1>1, <1>2 DEF ReaderInv
<1>4. CASE s.pc \in {"away", "done"}
  <2>1. s2 = s
    BY <1>3, <1>4 DEF Follows
  <2>2. QED
    BY <1>2, <1>3, <1>4, <2>1 DEF ScanInv, Collected, OutKeys
<1>5. CASE s.pc \notin {"away", "done"}
  <2>1. /\ s2.pc = s.pc /\ s2.lo = s.lo /\ s2.hi = s.hi /\ s2.cur = s.cur /\ s2.out = s.out
        /\ s.ever \subseteq s2.ever
        /\ \A p \in Stored' : InRange(s, p[1]) => p \in s2.ever
        /\ s2.always \subseteq s.always
        /\ \A k \in s2.always : \E p \in Stored' : p[1] = k
    BY <1>3, <1>5 DEF Follows
  <2>2. s.pc \in {"load", "visit"}
    BY <1>1, <1>5, ReaderTypes
  <2>3. Collected(s) /\ Standing(s) /\ Covered(s)
    BY <1>3, <2>2 DEF ScanInv
  <2>4. OutKeys(s2) = OutKeys(s)
    BY <2>1 DEF OutKeys
  <2>5. Collected(s2)
    BY <2>1, <2>3 DEF Collected
  <2>6. s2.pc = "load" => s2.cur # Null
    BY <2>1, <2>3 DEF Standing
  <2>7. ASSUME s2.cur # Null
        PROVE  /\ s2.cur \in Linked'
               /\ \A k \in OutKeys(s2) :
                    k < node'[s2.cur].key \/ (s2.pc = "load" /\ k = node'[s2.cur].key)
    <3>1. s.cur \in Linked
      BY <2>1, <2>3, <2>7 DEF Standing
    <3>2. node'[s.cur].key = node[s.cur].key /\ s.cur \in Linked'
      BY <3>1
    <3>3. QED
      BY <2>1, <2>3, <2>4, <2>7, <3>2 DEF Standing
  <2>8. \A n \in ChainNodes(0)' : InRange(s2, node'[n].key) =>
                                     <<node'[n].key, node'[n].value>> \in s2.ever
    BY <2>1 DEF Stored, InRange
  <2> DEFINE ahead2 == IF s2.cur = Null THEN {} ELSE Reach(Links(0)', s2.cur)
  <2>9. ASSUME NEW n \in ahead2, InRange(s2, node'[n].key)
        PROVE  <<node'[n].key, node'[n].value>> \in s2.ever
    <3>1. CASE n \in ChainNodes(0)'
      BY <2>8, <2>9, <3>1
    <3>2. CASE n \notin ChainNodes(0)'
      <4>1. s.cur # Null /\ s.cur \in Linked /\ n \in Reach(Links(0)', s.cur)
        BY <2>1, <2>3, <2>9 DEF Standing
      <4>2. n \in Reach(Links(0), s.cur) /\ node'[n] = node[n]
        BY <3>2, <4>1
      <4>3. n \in Ahead(s) /\ InRange(s, node[n].key)
        BY <2>1, <2>9, <4>1, <4>2 DEF Ahead, InRange
      <4>4. Pair(n) \in s.ever
        BY <2>3, <4>3 DEF Covered
      <4>5. QED
        BY <2>1, <4>2, <4>4 DEF Pair
    <3>3. QED
      BY <3>1, <3>2
  <2>10. ASSUME NEW k \in s2.always
         PROVE  /\ InRange(s2, k) /\ k \in Present'
                /\ \/ k \in OutKeys(s2)
                   \/ \E n \in ahead2 \cap ChainNodes(0)' :
                         node'[n].key = k /\ (s2.pc = "load" => n # s2.cur)
    <3>1. PICK m \in ChainNodes(0)' : node'[m].key = k
      BY <2>1, <2>10 DEF Stored
    <3>2. InRange(s2, k)
      BY <2>1, <2>3, <2>10 DEF Covered, InRange
    <3>3. k \in Present'
      BY <3>1 DEF Present
    <3>4. CASE k \in OutKeys(s)
      BY <2>4, <3>2, <3>3, <3>4
    <3>5. CASE k \notin OutKeys(s)
      <4>1. PICK n \in Ahead(s) \cap ChainNodes(0) :
                    node[n].key = k /\ (s.pc = "load" => n # s.cur)
        BY <2>1, <2>3, <2>10, <3>5 DEF Covered
      <4>2. s.cur # Null /\ s.cur \in Linked /\ n \in Reach(Links(0), s.cur)
        BY <2>3, <4>1 DEF Ahead, Standing
      <4>3. n \in ChainNodes(0)'
        BY <3>1, <4>1
      <4>4. n \in ahead2
        BY <2>1, <4>1, <4>2, <4>3
      <4>5. n \in Linked
        BY <4>1, ChainLinked DEF ListInv
      <4>6. node'[n].key = k
        BY <4>1, <4>5
      <4> HIDE DEF ahead2
      <4>7. QED
        BY <2>1, <3>2, <3>3, <4>1, <4>3, <4>4, <4>6
    <3>6. QED
      BY <3>4, <3>5
  <2>11. s2.pc \in {"load", "visit"} /\ s2.pc # "done"
    BY <2>1, <2>2
  <2>12. Standing(reader[r])'
    BY <1>2, <2>6, <2>7 DEF Standing, OutKeys
  <2>13. Covered(reader[r])'
    BY <1>2, <2>8, <2>9, <2>10 DEF Covered, OutKeys, Ahead, Pair, InRange
  <2>14. Collected(reader[r])'
    BY <1>2, <2>5 DEF Collected
  <2>15. QED
    BY <1>2, <2>11, <2>12, <2>13, <2>14 DEF ScanInv
<1>6. QED
  BY <1>4, <1>5

-----------------------------------------------------------------------------
(* The steps of the readers.                                               *)

\* They change nothing of the list.
LEMMA ListFrame ==
    ASSUME UNCHANGED <<node, next, level_, size_, writer>>, ListInv, WriterInv
    PROVE  ListInv' /\ WriterInv'
<1>1. /\ node' = node /\ next' = next /\ level_' = level_ /\ size_' = size_
      /\ writer' = writer
  OBVIOUS
<1>2. KeyOf' = KeyOf /\ Linked' = Linked /\ \A i : Links(i)' = Links(i)
  BY <1>1 DEF KeyOf, Linked, Links
<1>3. \A i : ChainNodes(i)' = ChainNodes(i)
  BY <1>2 DEF ChainNodes
<1>4. ListInv'
  BY <1>1, <1>2, <1>3 DEF ListInv, Sorted, Ascending, Unused
<1>5. Agree' = Agree /\ InstallInv' = InstallInv /\ BypassInv' = BypassInv
  BY <1>1, <1>2, <1>3 DEF Agree, Tall, InstallInv, BypassInv, Outer
<1>6. WriterInv'
  BY <1>1, <1>3, <1>5 DEF WriterInv
<1>7. QED
  BY <1>4, <1>6

LEMMA ReaderStep ==
    ASSUME IInv, UNCHANGED <<node, next, level_, size_, writer>>,
           NEW r \in Readers, NEW s \in {Away} \cup ScanType, ScanInv(s),
           reader' = [reader EXCEPT ![r] = s]
    PROVE  IInv'
<1>1. ListInv' /\ WriterInv'
  BY ListFrame DEF IInv
<1>2. reader \in [Readers -> {Away} \cup ScanType]
  BY DEF IInv, TypeOK, ScanType
<1>3. reader' \in [Readers -> {Away} \cup ScanType]
  BY <1>2
<1>4. TypeOK'
  BY <1>3 DEF IInv, TypeOK, ScanType
<1>5. ASSUME NEW t, ScanInv(t)
      PROVE  ScanInv(t)'
  <2>1. node' = node /\ Linked' = Linked /\ Links(0)' = Links(0)
    BY DEF Linked, Links
  <2>2. ChainNodes(0)' = ChainNodes(0)
    BY <2>1 DEF ChainNodes
  <2>3. Present' = Present
    BY <2>1, <2>2 DEF Present
  <2>4. Standing(t)' = Standing(t) /\ Covered(t)' = Covered(t)
    BY <2>1, <2>2, <2>3 DEF Standing, Covered, Ahead, Pair
  <2>5. QED
    BY <1>5, <2>4 DEF ScanInv
<1>6. ASSUME NEW q \in Readers
      PROVE  ScanInv(reader[q])'
  <2>1. PICK t : t = reader'[q]
    OBVIOUS
  <2>2. t = IF q = r THEN s ELSE reader[q]
    BY <1>2, <2>1
  <2>3. ScanInv(t)
    BY <2>2 DEF IInv, ReaderInv
  <2>4. ScanInv(t)'
    BY <1>5, <2>3
  <2>5. QED
    BY <2>1, <2>4 DEF ScanInv, Collected, Standing, Covered, Ahead, OutKeys
<1>7. QED
  BY <1>1, <1>4, <1>6 DEF IInv, ReaderInv

LEMMA CallStep ==
    ASSUME IInv, NEW r \in Readers, NEW range \in Ranges, Call(r, range[1], range[2])
    PROVE  IInv'
<1>1. PICK lo \in Keys, hi \in Keys : lo = range[1] /\ hi = range[2]
  BY KeysAssumption
<1> DEFINE ever == Within(Stored, lo, hi)
           always == {p[1] : p \in ever}
<1>2. PICK s : s = [lo |-> lo, hi |-> hi, pc |-> "visit", cur |-> next[Header][0],
                    out |-> <<>>, ever |-> ever, always |-> always]
  OBVIOUS
<1>3. reader' = [reader EXCEPT ![r] = s] /\ UNCHANGED <<node, next, level_, size_, writer>>
  BY <1>1, <1>2 DEF Call
<1>4. TypeOK /\ ListInv /\ Sorted /\ 0 \in Levels
  BY LevelZero DEF IInv, ListInv
<1>5. /\ ChainNodes(0) \subseteq 1 .. Len(node) /\ ChainNodes(0) \subseteq Linked
      /\ Header \notin ChainNodes(0) /\ ChainNodes(0) \cup {Header} \subseteq Places
      /\ \A n \in ChainNodes(0) : node[n].key \in Int /\ KeyOf[n] = node[n].key
  BY <1>4, ChainTypes, ChainLinked
<1>6. next[Header][0] = Null \/ next[Header][0] \in ChainNodes(0)
  BY <1>4, ChainLinked
<1>7. Stored \subseteq Pairs
  BY <1>4, <1>5, StateTypes DEF Stored, Pairs
<1>8. ever \in SUBSET Pairs /\ always \in SUBSET Keys
  BY <1>7 DEF Within, Pairs
<1>9. /\ \A n \in ChainNodes(0) : lo <= node[n].key /\ node[n].key <= hi => Pair(n) \in ever
      /\ \A k \in always : lo <= k /\ k <= hi /\ \E n \in ChainNodes(0) : node[n].key = k
  BY DEF Within, Stored, Pair
<1> HIDE DEF ever, always
<1>10. /\ s \in ScanType
       /\ s.pc = "visit" /\ s.lo = lo /\ s.hi = hi /\ s.cur = next[Header][0]
       /\ s.out = <<>> /\ s.ever = ever /\ s.always = always
  <2>1. next[Header][0] \in Places \cup {Null} /\ <<>> \in Seq(Pairs)
    BY <1>5, <1>6
  <2>2. QED
    BY <1>2, <1>8, <2>1 DEF ScanType
<1>11. ChainNodes(0) \subseteq Ahead(s) /\ Ahead(s) \subseteq ChainNodes(0)
  <2>1. ListOf(Len(node), KeyOf, Links(0), ChainNodes(0))
    BY <1>4 DEF Sorted
  <2>2. Reach(Links(0), Header) = {Header} \cup ChainNodes(0)
    BY <1>5, <2>1, ReachList DEF Before
  <2>3. Links(0)[Header] = next[Header][0] /\ Header \in Places
    BY <1>4, <1>5, LinksType
  <2>4. CASE next[Header][0] = Null
    <3>1. Null \notin Places
      BY BoundsAssumption DEF Null, Places, Header
    <3>2. Reach(Links(0), Header) = {Header}
      BY <2>3, <2>4, <3>1, ReachFacts
    <3>3. QED
      BY <1>5, <1>10, <2>2, <2>4, <3>2 DEF Ahead
  <2>5. CASE next[Header][0] \in ChainNodes(0)
    <3>1. s.cur \in Linked /\ s.cur \in Places /\ s.cur = Links(0)[Header]
      BY <1>5, <1>10, <2>3, <2>5
    <3>2. s.cur # Null
      BY <3>1, BoundsAssumption DEF Null, Places, Header
    <3>3. Reach(Links(0), Header) = {Header} \cup Reach(Links(0), s.cur)
      BY <2>3, <3>1, ReachFacts
    <3>4. Header \notin Reach(Links(0), s.cur)
      <4>1. Reach(Links(0), s.cur) \subseteq Linked
        BY <1>4, <3>1, AheadLinked
      <4>2. Header \notin Linked
        BY StateTypes, <1>4 DEF Linked, Header
      <4>3. QED
        BY <4>1, <4>2
    <3>5. Ahead(s) = Reach(Links(0), s.cur)
      BY <3>2 DEF Ahead
    <3>6. QED
      BY <1>5, <2>2, <3>3, <3>4, <3>5
  <2>6. QED
    BY <1>6, <2>4, <2>5
<1>12. Collected(s)
  BY <1>10 DEF Collected
<1>13. OutKeys(s) = {}
  BY <1>10 DEF OutKeys
<1>14. Standing(s)
  BY <1>5, <1>6, <1>10, <1>13 DEF Standing
<1>15. Covered(s)
  <2>1. \A n \in ChainNodes(0) : InRange(s, node[n].key) => Pair(n) \in s.ever
    BY <1>9, <1>10 DEF InRange
  <2>2. \A k \in s.always :
           /\ InRange(s, k) /\ k \in Present
           /\ \E n \in Ahead(s) \cap ChainNodes(0) : node[n].key = k
    BY <1>9, <1>10, <1>11 DEF InRange, Present
  <2>3. s.pc # "load"
    BY <1>10
  <2>4. QED
    BY <1>11, <2>1, <2>2, <2>3 DEF Covered
<1>16. ScanInv(s)
  BY <1>10, <1>12, <1>14, <1>15 DEF ScanInv
<1>17. QED
  BY <1>3, <1>10, <1>16, ReaderStep

\* What a scan that is under way knows of the node it stands on.
LEMMA StandsOn ==
    ASSUME IInv, NEW s \in ScanType, Standing(s), s.cur # Null
    PROVE  /\ s.cur \in Linked /\ s.cur \in 1 .. Len(node)
           /\ node[s.cur].key \in Keys /\ node[s.cur].key \in Int
           /\ node[s.cur].value \in Values \cup {Torn}
           /\ Ahead(s) = Reach(Links(0), s.cur) /\ s.cur \in Ahead(s)
           /\ Ahead(s) \subseteq Linked
           /\ \A m \in Ahead(s) : m = s.cur \/ node[s.cur].key < node[m].key
           /\ \A m \in Linked : node[m].key \in Int
<1>1. TypeOK /\ ListInv /\ Sorted
  BY DEF IInv, ListInv
<1>2. s.cur \in Linked
  BY DEF Standing
<1>3. Linked \subseteq 1 .. Len(node)
  BY <1>1, ChainLinked
<1>4. Ahead(s) = Reach(Links(0), s.cur)
  BY DEF Ahead
<1>5. /\ s.cur \in Ahead(s) /\ Ahead(s) \subseteq Linked
      /\ \A m \in Ahead(s) : m = s.cur \/ node[s.cur].key < node[m].key
  BY <1>1, <1>2, <1>4, AheadLinked
<1>6. QED
  BY <1>1, <1>2, <1>3, <1>4, <1>5, StateTypes

LEMMA VisitStep ==
    ASSUME IInv, NEW r \in Readers, Visit(r)
    PROVE  IInv'
<1>1. TypeOK /\ reader[r].pc = "visit" /\ UNCHANGED <<node, next, level_, size_, writer>>
  BY DEF IInv, Visit
<1>2. PICK s \in ScanType : s = reader[r]
  BY <1>1, ReaderTypes
<1>3. /\ s.pc = "visit" /\ s.lo \in Int /\ s.hi \in Int /\ s.out \in Seq(Pairs)
      /\ s.ever \subseteq Pairs
  BY <1>1, <1>2, ReaderTypes
<1>4. ScanInv(s) /\ Collected(s) /\ Standing(s) /\ Covered(s)
  BY <1>2, <1>3 DEF IInv, ReaderInv, ScanInv
<1>5. CASE Over(s)
  <2>1. PICK t : t = [s EXCEPT !.pc = "done"]
    OBVIOUS
  <2>2. /\ t \in ScanType /\ t.pc = "done"
        /\ t.out = s.out /\ t.ever = s.ever /\ t.always = s.always
    BY <2>1 DEF ScanType
  <2>3. reader' = [reader EXCEPT ![r] = t]
    BY <1>2, <1>5, <2>1 DEF Visit
  <2>4. ASSUME NEW k \in s.always
        PROVE  k \in OutKeys(s)
    <3>1. SUFFICES ASSUME k \notin OutKeys(s)
                   PROVE  FALSE
      OBVIOUS
    <3>2. PICK n \in Ahead(s) : node[n].key = k
      BY <1>4, <3>1 DEF Covered
    <3>3. s.cur # Null
      BY <3>2 DEF Ahead
    <3>4. /\ node[s.cur].key > s.hi /\ node[s.cur].key \in Int /\ node[n].key \in Int
          /\ n = s.cur \/ node[s.cur].key < node[n].key
      BY <1>4, <1>5, <3>2, <3>3, StandsOn DEF Over
    <3>5. k <= s.hi
      BY <1>4 DEF Covered, InRange
    <3>6. node[n].key > s.hi
      BY <1>3, <3>4
    <3>7. QED
      BY <1>3, <3>2, <3>4, <3>5, <3>6
  <2>5. Collected(t) /\ t.always \subseteq OutKeys(t)
    BY <1>4, <2>2, <2>4 DEF Collected, OutKeys
  <2>6. ScanInv(t)
    BY <2>2, <2>5 DEF ScanInv
  <2>7. QED
    BY <1>1, <2>2, <2>3, <2>6, ReaderStep
<1>6. CASE ~Over(s) /\ node[s.cur].key < s.lo
  <2>1. PICK t : t = [s EXCEPT !.pc = "load"]
    OBVIOUS
  <2>2. /\ t \in ScanType /\ t.pc = "load" /\ t.lo = s.lo /\ t.hi = s.hi /\ t.cur = s.cur
        /\ t.out = s.out /\ t.ever = s.ever /\ t.always = s.always
    BY <2>1 DEF ScanType
  <2>3. reader' = [reader EXCEPT ![r] = t]
    BY <1>2, <1>6, <2>1 DEF Visit
  <2>4. s.cur # Null /\ node[s.cur].key \in Int
    BY <1>4, <1>6, StandsOn DEF Over
  <2>5. OutKeys(t) = OutKeys(s) /\ Ahead(t) = Ahead(s) /\ \A k : InRange(t, k) <=> InRange(s, k)
    BY <2>2 DEF OutKeys, Ahead, InRange
  <2>6. Standing(t)
    BY <1>3, <1>4, <2>2, <2>4, <2>5 DEF Standing
  <2>7. ASSUME NEW n, InRange(s, node[n].key)
        PROVE  n # s.cur
    BY <1>3, <1>6, <2>4, <2>7 DEF InRange
  <2>8. Covered(t)
    BY <1>4, <2>2, <2>5, <2>7 DEF Covered
  <2>9. Collected(t)
    BY <1>4, <2>2 DEF Collected
  <2>10. ScanInv(t)
    BY <2>2, <2>6, <2>8, <2>9 DEF ScanInv
  <2>11. QED
    BY <1>1, <2>2, <2>3, <2>10, ReaderStep
<1>7. CASE ~Over(s) /\ ~(node[s.cur].key < s.lo)
  <2>1. /\ s.cur # Null /\ node[s.cur].key \in Int /\ s.cur \in Ahead(s)
        /\ node[s.cur].key \in Keys /\ node[s.cur].value \in Values \cup {Torn}
    BY <1>4, <1>7, StandsOn DEF Over
  <2>2. InRange(s, node[s.cur].key)
    BY <1>3, <1>7, <2>1 DEF Over, InRange
  <2>3. Pair(s.cur) \in s.ever /\ Pair(s.cur) \in Pairs
    BY <1>4, <2>1, <2>2 DEF Covered, Pair, Pairs
  <2>4. PICK out : out = Append(s.out, Pair(s.cur))
    OBVIOUS
  <2>5. /\ out \in Seq(Pairs) /\ Len(s.out) \in Nat /\ Len(out) = Len(s.out) + 1
        /\ out[Len(s.out) + 1] = Pair(s.cur)
        /\ \A j \in 1 .. Len(s.out) : out[j] = s.out[j]
    BY <1>3, <2>3, <2>4
  <2>6. PICK t : t = [s EXCEPT !.out = out, !.pc = "load"]
    OBVIOUS
  <2>7. /\ t \in ScanType /\ t.pc = "load" /\ t.lo = s.lo /\ t.hi = s.hi /\ t.cur = s.cur
        /\ t.out = out /\ t.ever = s.ever /\ t.always = s.always
    BY <2>5, <2>6 DEF ScanType
  <2>8. reader' = [reader EXCEPT ![r] = t]
    BY <1>2, <1>7, <2>4, <2>6 DEF Visit, Pair
  <2>9. Pair(s.cur)[1] = node[s.cur].key
    BY DEF Pair
  <2>10. OutKeys(t) = OutKeys(s) \cup {node[s.cur].key}
    <3>1. \A j \in 1 .. Len(out) : j \in 1 .. Len(s.out) \/ j = Len(s.out) + 1
      BY <2>5
    <3>2. 1 .. Len(s.out) \subseteq 1 .. Len(out) /\ Len(s.out) + 1 \in 1 .. Len(out)
      BY <2>5
    <3>3. OutKeys(t) = {out[j][1] : j \in 1 .. Len(out)}
      BY <2>7 DEF OutKeys
    <3>4. OutKeys(t) \subseteq OutKeys(s) \cup {node[s.cur].key}
      <4>1. ASSUME NEW j \in 1 .. Len(out)
            PROVE  out[j][1] \in OutKeys(s) \cup {node[s.cur].key}
        <5>1. CASE j \in 1 .. Len(s.out)
          BY <2>5, <5>1 DEF OutKeys
        <5>2. CASE j = Len(s.out) + 1
          BY <2>5, <2>9, <5>2
        <5>3. QED
          BY <3>1, <5>1, <5>2
      <4>2. QED
        BY <3>3, <4>1
    <3>5. OutKeys(s) \subseteq OutKeys(t)
      BY <2>5, <3>2, <3>3 DEF OutKeys
    <3>6. node[s.cur].key \in OutKeys(t)
      BY <2>5, <2>9, <3>2, <3>3
    <3>7. QED
      BY <3>4, <3>5, <3>6
  <2>11. \A k \in OutKeys(s) : k < node[s.cur].key
    BY <1>3, <1>4, <2>1 DEF Standing
  <2>12. Collected(t)
    <3>1. ASSUME NEW j \in 2 .. Len(out)
          PROVE  out[j - 1][1] < out[j][1]
      <4>1. CASE j <= Len(s.out)
        <5>1. j \in 2 .. Len(s.out) /\ j \in 1 .. Len(s.out) /\ j - 1 \in 1 .. Len(s.out)
          BY <2>5, <4>1
        <5>2. s.out[j - 1][1] < s.out[j][1]
          BY <1>4, <5>1 DEF Collected
        <5>3. QED
          BY <2>5, <5>1, <5>2
      <4>2. CASE j > Len(s.out)
        <5>1. j = Len(s.out) + 1 /\ j - 1 \in 1 .. Len(s.out)
          BY <2>5, <4>2
        <5>2. s.out[j - 1][1] \in OutKeys(s)
          BY <5>1 DEF OutKeys
        <5>3. QED
          BY <2>5, <2>9, <2>11, <5>1, <5>2
      <4>3. QED
        BY <2>5, <4>1, <4>2
    <3>2. ASSUME NEW j \in 1 .. Len(out)
          PROVE  out[j] \in s.ever
      <4>1. j \in 1 .. Len(s.out) \/ j = Len(s.out) + 1
        BY <2>5
      <4>2. QED
        BY <1>4, <2>3, <2>5, <4>1 DEF Collected
    <3>3. QED
      BY <2>7, <3>1, <3>2 DEF Collected
  <2>13. Standing(t)
    BY <1>4, <2>1, <2>7, <2>10, <2>11 DEF Standing
  <2>14. Ahead(t) = Ahead(s) /\ \A k : InRange(t, k) <=> InRange(s, k)
    BY <2>7 DEF Ahead, InRange
  <2>15. Covered(t)
    BY <1>4, <2>7, <2>10, <2>14 DEF Covered
  <2>16. ScanInv(t)
    BY <2>7, <2>12, <2>13, <2>15 DEF ScanInv
  <2>17. QED
    BY <1>1, <2>7, <2>8, <2>16, ReaderStep
<1>8. QED
  BY <1>5, <1>6, <1>7

LEMMA LoadStep ==
    ASSUME IInv, NEW r \in Readers, Load(r)
    PROVE  IInv'
<1>1. TypeOK /\ reader[r].pc = "load" /\ UNCHANGED <<node, next, level_, size_, writer>>
  BY DEF IInv, Load
<1>2. PICK s \in ScanType : s = reader[r]
  BY <1>1, ReaderTypes
<1>3. s.pc = "load" /\ s.cur # Null
  BY <1>1, <1>2 DEF IInv, ReaderInv, ScanInv, Standing
<1>4. ScanInv(s) /\ Collected(s) /\ Standing(s) /\ Covered(s)
  BY <1>2, <1>3 DEF IInv, ReaderInv, ScanInv
<1>5. PICK m : m = next[s.cur][0]
  OBVIOUS
<1>6. PICK t : t = [s EXCEPT !.cur = m, !.pc = "visit"]
  OBVIOUS
<1>7. /\ s.cur \in Linked /\ Linked \subseteq Places /\ s.cur \in Places
      /\ node[s.cur].key \in Int
      /\ Ahead(s) = Reach(Links(0), s.cur)
      /\ \A x \in Linked : node[x].key \in Int
  BY <1>1, <1>3, <1>4, StandsOn, ChainLinked DEF IInv, ListInv
<1>8. m = Null \/ (m \in Linked /\ node[s.cur].key < node[m].key)
  BY <1>5, <1>7 DEF IInv, ListInv, Ascending
<1>9. /\ t \in ScanType /\ t.pc = "visit" /\ t.lo = s.lo /\ t.hi = s.hi /\ t.cur = m
      /\ t.out = s.out /\ t.ever = s.ever /\ t.always = s.always
  <2>1. m \in Places \cup {Null}
    BY <1>7, <1>8
  <2>2. QED
    BY <1>6, <2>1 DEF ScanType
<1>10. reader' = [reader EXCEPT ![r] = t]
  BY <1>2, <1>5, <1>6 DEF Load
<1>11. OutKeys(t) = OutKeys(s) /\ \A k : InRange(t, k) <=> InRange(s, k)
  BY <1>9 DEF OutKeys, InRange
<1>12. Standing(t)
  <2>1. t.pc # "load"
    BY <1>9
  <2>2. ASSUME m # Null, NEW k \in OutKeys(s)
        PROVE  k < node[m].key
    <3>1. m \in Linked /\ node[s.cur].key < node[m].key /\ node[m].key \in Int
      BY <1>7, <1>8, <2>2
    <3>2. k < node[s.cur].key \/ k = node[s.cur].key
      BY <1>3, <1>4, <2>2 DEF Standing
    <3>3. k \in Int
      <4>1. s.out \in Seq(Pairs)
        BY DEF ScanType
      <4>2. PICK j \in 1 .. Len(s.out) : k = s.out[j][1]
        BY <2>2 DEF OutKeys
      <4>3. s.out[j] \in Pairs
        BY <4>1
      <4>4. QED
        BY <4>2, <4>3, KeysAssumption DEF Pairs
    <3>4. QED
      BY <1>7, <3>1, <3>2, <3>3
  <2>3. QED
    BY <1>8, <1>9, <1>11, <2>1, <2>2 DEF Standing
<1>13. Ahead(t) \subseteq Ahead(s) /\ Ahead(s) \subseteq Ahead(t) \cup {s.cur}
  <2>1. Links(0)[s.cur] = m
    BY <1>1, <1>5, <1>7, LinksType, LevelZero
  <2>2. CASE m = Null
    <3>1. Null \notin Places
      BY BoundsAssumption DEF Null, Places, Header
    <3>2. Reach(Links(0), s.cur) = {s.cur}
      BY <1>7, <2>1, <2>2, <3>1, ReachFacts
    <3>3. QED
      BY <1>7, <1>9, <2>2, <3>2 DEF Ahead
  <2>3. CASE m # Null
    <3>1. m \in Places
      BY <1>7, <1>8, <2>3
    <3>2. Reach(Links(0), s.cur) = {s.cur} \cup Reach(Links(0), m)
      BY <1>7, <2>1, <3>1, ReachFacts
    <3>3. QED
      BY <1>7, <1>9, <2>3, <3>2 DEF Ahead
  <2>4. QED
    BY <2>2, <2>3
<1>14. Covered(t)
  <2>1. \A n \in ChainNodes(0) : InRange(s, node[n].key) => Pair(n) \in s.ever
    BY <1>4 DEF Covered
  <2>2. \A n \in Ahead(t) : InRange(s, node[n].key) => Pair(n) \in s.ever
    BY <1>4, <1>13 DEF Covered
  <2>3. ASSUME NEW k \in s.always
        PROVE  /\ InRange(s, k) /\ k \in Present
               /\ \/ k \in OutKeys(s)
                  \/ \E n \in Ahead(t) \cap ChainNodes(0) : node[n].key = k
    BY <1>3, <1>4, <1>13 DEF Covered
  <2>4. t.pc # "load"
    BY <1>9
  <2>5. QED
    BY <1>9, <1>11, <2>1, <2>2, <2>3, <2>4 DEF Covered
<1>15. Collected(t)
  BY <1>4, <1>9 DEF Collected
<1>16. ScanInv(t)
  BY <1>9, <1>12, <1>14, <1>15 DEF ScanInv
<1>17. QED
  BY <1>1, <1>9, <1>10, <1>16, ReaderStep

LEMMA ReturnStep ==
    ASSUME IInv, NEW r \in Readers, Return(r)
    PROVE  IInv'
<1>1. ScanInv(Away)
  BY DEF ScanInv, Away
<1>2. QED
  BY <1>1, ReaderStep DEF Return

-----------------------------------------------------------------------------
(* put on a key that is there.                                             *)

\* A level that is a list after a step has its nodes as its chain then.
LEMMA ChainAfter ==
    ASSUME NEW i \in Levels, NEW N, NEW key, NEW L, ListOf(N, key, Links(i)', L)
    PROVE  ChainNodes(i)' = L
  BY WholeList DEF ChainNodes

\* The value of a node of the list is stored to.
LEMMA ValueStep ==
    ASSUME IInv, Agree, size_ = Cardinality(ChainNodes(0)),
           NEW at \in ChainNodes(0), NEW v \in Values \cup {Torn},
           node' = [node EXCEPT ![at].value = v],
           UNCHANGED <<next, level_, size_>>,
           reader' = Watch({<<node'[n].key, node'[n].value>> : n \in ChainNodes(0)}),
           \/ writer' = Idle
           \/ /\ writer' \in [op : {"overwrite"}, at : 1 .. Len(node), value : Values]
              /\ writer'.at = at
    PROVE  IInv' /\ Present' = Present
<1>1. TypeOK /\ ListInv /\ Sorted /\ ReaderInv /\ 0 \in Levels
  BY LevelZero DEF IInv, ListInv
<1>2. at \in 1 .. Len(node) /\ ChainNodes(0) \subseteq 1 .. Len(node)
  BY <1>1, ChainTypes
<1>3. PICK arena : arena = node'
  OBVIOUS
<1>4. /\ arena \in Seq(NodeType) /\ Len(arena) = Len(node)
      /\ \A n \in 1 .. Len(node) : /\ arena[n].key = node[n].key
                                   /\ arena[n].top_level = node[n].top_level
                                   /\ n # at => arena[n] = node[n]
      /\ \A n \in 1 .. Len(node) : arena[n] \in NodeType
  <2>1. node \in Seq(NodeType)
    BY <1>1 DEF TypeOK, NodeType
  <2>2. PICK rec : rec = [node[at] EXCEPT !.value = v]
    OBVIOUS
  <2>3. node[at] \in NodeType
    BY <1>2, <2>1
  <2>4. rec \in NodeType /\ rec.key = node[at].key /\ rec.top_level = node[at].top_level
    BY <2>2, <2>3 DEF NodeType
  <2>5. arena = [node EXCEPT ![at] = rec]
    BY <1>3, <2>2
  <2>6. arena \in Seq(NodeType) /\ Len(arena) = Len(node)
    BY <1>2, <2>1, <2>4, <2>5
  <2>7. \A n \in 1 .. Len(node) : arena[n] = IF n = at THEN rec ELSE node[n]
    BY <1>2, <2>1, <2>5
  <2>8. QED
    BY <2>4, <2>6, <2>7
<1>5. KeyOf' = KeyOf /\ Linked' = Linked /\ \A i : Links(i)' = Links(i)
  BY <1>3, <1>4 DEF KeyOf, Linked, Links
<1>6. \A i : ChainNodes(i)' = ChainNodes(i)
  BY <1>5 DEF ChainNodes
<1>7. \A i \in Levels : ChainNodes(i) \subseteq 1 .. Len(node)
  BY <1>1, ChainTypes
<1>8. Len(node') = Len(node) /\ level_' = level_ /\ next' = next /\ size_' = size_
  BY <1>3, <1>4
<1>9. Sorted'
  <2>1. ASSUME NEW i \in Levels
        PROVE  /\ ListOf(Len(node'), KeyOf', Links(i)', ChainNodes(i)')
               /\ \A n \in ChainNodes(i)' :
                     i <= node'[n].top_level /\ node'[n].top_level <= level_'
    <3>1. /\ ListOf(Len(node), KeyOf, Links(i), ChainNodes(i))
          /\ \A n \in ChainNodes(i) : i <= node[n].top_level /\ node[n].top_level <= level_
      BY <1>1 DEF Sorted
    <3>2. QED
      BY <1>3, <1>4, <1>5, <1>6, <1>7, <1>8, <3>1
  <2>2. QED
    BY <2>1 DEF Sorted
<1>10. Linked \subseteq 1 .. Len(node)
  BY <1>1, ChainLinked
<1>11. Ascending'
  BY <1>1, <1>3, <1>4, <1>5, <1>8, <1>10 DEF ListInv, Ascending
<1>12. Unused'
  BY <1>1, <1>8 DEF ListInv, Unused
<1>13. Agree'
  <2>1. \A i : Tall(ChainNodes(0), i)' = {n \in ChainNodes(0) : arena[n].top_level >= i}
    BY <1>3, <1>6 DEF Tall
  <2>2. \A i : Tall(ChainNodes(0), i)' = Tall(ChainNodes(0), i)
    BY <1>2, <1>4, <2>1 DEF Tall
  <2>3. QED
    BY <1>6, <2>2 DEF Agree
<1>14. WriterInv'
  <2>1. CASE writer' = Idle
    BY <1>6, <1>8, <1>13, <2>1 DEF WriterInv, Idle
  <2>2. CASE writer' \in [op : {"overwrite"}, at : 1 .. Len(node), value : Values]
             /\ writer'.at = at
    <3>1. writer'.op = "overwrite"
      BY <2>2
    <3>2. QED
      BY <1>6, <1>8, <1>13, <2>2, <3>1 DEF WriterInv
  <2>3. QED
    BY <2>1, <2>2
<1>15. Stored' = {<<node'[n].key, node'[n].value>> : n \in ChainNodes(0)}
  BY <1>6 DEF Stored
<1>16. Stored' \subseteq Pairs
  BY <1>2, <1>3, <1>4, <1>15 DEF Pairs, NodeType
<1>17. PICK stored \in SUBSET Pairs : stored = Stored'
  BY <1>16
<1>18. reader' = Watch(stored)
  BY <1>15, <1>17
<1>19. /\ reader' \in [Readers -> {Away} \cup ScanType]
       /\ \A r \in Readers : Follows(reader[r], reader'[r], stored)
  BY <1>1, <1>18, WatchFollows
<1>20. TypeOK'
  <2>1. node' \in Seq(NodeType) /\ Len(node') <= MaxNodes
    BY <1>1, <1>3, <1>4 DEF TypeOK
  <2>2. QED
    BY <1>1, <1>8, <1>19, <2>1 DEF TypeOK, NodeType, ScanType
<1>21. ListInv'
  BY <1>9, <1>11, <1>12 DEF ListInv
<1>22. ReaderInv'
  <2>1. ASSUME NEW n \in Linked
        PROVE  /\ n \in Linked' /\ node'[n].key = node[n].key
               /\ \A m \in Reach(Links(0)', n) :
                     m \in ChainNodes(0)' \/ (m \in Reach(Links(0), n) /\ node'[m] = node[m])
               /\ \A m \in Reach(Links(0), n) : m \in Reach(Links(0)', n)
    <3>1. Reach(Links(0), n) \subseteq 1 .. Len(node)
      BY <1>1, <1>10, AheadLinked
    <3>2. QED
      BY <1>3, <1>4, <1>5, <1>6, <1>10, <3>1
  <2>2. \A r \in Readers : Follows(reader[r], reader'[r], Stored')
    BY <1>17, <1>19
  <2>3. \A n \in ChainNodes(0), m \in ChainNodes(0)' :
           node[n].key = node'[m].key => n \in ChainNodes(0)'
    BY <1>6
  <2>4. QED
    BY <1>1, <1>20, <1>21, <2>1, <2>2, <2>3, ScansKept
<1>23. Present' = Present
  BY <1>2, <1>3, <1>4, <1>6 DEF Present
<1>24. QED
  BY <1>14, <1>20, <1>21, <1>22, <1>23 DEF IInv

LEMMA PutFoundStep ==
    ASSUME IInv, NEW key \in Keys, NEW value \in Values, PutFound(key, value)
    PROVE  IInv' /\ Present' = Present
<1>1. TypeOK /\ Sorted /\ Agree /\ size_ = Cardinality(ChainNodes(0)) /\ key \in Int
  BY KeysAssumption DEF IInv, ListInv, WriterInv, PutFound, Idle
<1>2. PICK found : found = next[Update(key)[0]][0]
  OBVIOUS
<1>3. /\ found # Null /\ node' = [node EXCEPT ![found].value = Torn]
      /\ writer' = [op |-> "overwrite", at |-> found, value |-> value]
      /\ reader' = Watch({<<node'[n].key, node'[n].value>> : n \in ChainNodes(0)})
      /\ UNCHANGED <<next, level_, size_>>
  BY <1>2 DEF PutFound
<1>4. found \in ChainNodes(0)
  BY <1>1, <1>2, <1>3, FoundIs
<1>5. found \in 1 .. Len(node)
  BY <1>1, <1>4, ChainTypes, LevelZero
<1>6. /\ writer' \in [op : {"overwrite"}, at : 1 .. Len(node), value : Values]
      /\ writer'.at = found
  BY <1>3, <1>5
<1>7. QED
  BY <1>1, <1>3, <1>4, <1>6, ValueStep

LEMMA OverwriteStep ==
    ASSUME IInv, Overwrite
    PROVE  IInv' /\ Present' = Present
<1>1. /\ Agree /\ size_ = Cardinality(ChainNodes(0))
      /\ writer.at \in ChainNodes(0)
  BY DEF IInv, WriterInv, Overwrite
<1>2. writer.value \in Values
  <2>1. \/ writer = Idle
        \/ writer \in [op : {"overwrite"}, at : 1..Len(node), value : Values]
        \/ writer.op \in {"install", "bypass"}
    BY DEF IInv, TypeOK
  <2>2. QED
    BY <2>1 DEF Overwrite, Idle
<1>3. PICK at \in ChainNodes(0), v \in Values : at = writer.at /\ v = writer.value
  BY <1>1, <1>2
<1>4. QED
  BY <1>1, <1>3, ValueStep DEF Overwrite

-----------------------------------------------------------------------------
(* put on a key that is not there.                                         *)

\* A node is allocated: it is in no list yet.
LEMMA PutNewStep ==
    ASSUME IInv, NEW key \in Keys, NEW value \in Values, NEW new_level \in Levels,
           PutNew(key, value, new_level)
    PROVE  IInv' /\ Present' = Present
<1>1. /\ TypeOK /\ ListInv /\ Sorted /\ Agree /\ ReaderInv /\ 0 \in Levels
      /\ size_ = Cardinality(ChainNodes(0)) /\ key \in Int
  BY KeysAssumption, LevelZero DEF IInv, ListInv, WriterInv, PutNew, Idle
<1>2. PICK update : update = Update(key)
  OBVIOUS
<1>3. PICK arena, top, new : arena = node' /\ top = level_' /\ new = Len(node) + 1
  OBVIOUS
<1> DEFINE rec == [key |-> key, value |-> value, top_level |-> new_level]
<1>4. /\ Len(node) < MaxNodes
      /\ arena = Append(node, rec)
      /\ top = IF new_level > level_ THEN new_level ELSE level_
      /\ writer' = [op |-> "install", new |-> Len(arena), i |-> 0, update |-> update]
      /\ next' = next /\ size_' = size_ /\ reader' = reader
  BY <1>2, <1>3 DEF PutNew
<1>5. /\ Len(node) \in Nat /\ node \in Seq(NodeType) /\ level_ \in Int
      /\ MaxNodes \in Nat /\ rec \in NodeType /\ new_level \in Int
      /\ \A n \in 1 .. Len(node) : node[n].top_level \in Int
  BY <1>1, StateTypes, BoundsAssumption, LevelZero DEF TypeOK, NodeType
<1>6. /\ arena \in Seq(NodeType) /\ Len(arena) = new /\ arena[new] = rec
      /\ \A n \in 1 .. Len(node) : arena[n] = node[n]
      /\ new \in 1 .. MaxNodes /\ new \notin 1 .. Len(node)
      /\ 1 .. Len(arena) = 1 .. Len(node) \cup {new}
  <2> HIDE DEF rec
  <2>1. /\ arena \in Seq(NodeType) /\ Len(arena) = new /\ arena[new] = rec
        /\ \A n \in 1 .. Len(node) : arena[n] = node[n]
    BY <1>3, <1>4, <1>5
  <2>2. QED
    BY <1>3, <1>4, <1>5, <2>1
<1>7. next[new][0] = Unset
  <2>1. new \in Places /\ new > Len(node)
    BY <1>3, <1>5, <1>6 DEF Places, Header
  <2>2. QED
    BY <1>1, <2>1 DEF ListInv, Unused
<1>8. /\ \A i : Links(i)' = Links(i)
      /\ \A i : ChainNodes(i)' = ChainNodes(i)
      /\ Linked' = Linked
  <2>1. \A i : Links(i)' = Links(i)
    BY <1>4 DEF Links
  <2>2. Linked' = {n \in 1 .. Len(arena) : next[n][0] # Unset}
    BY <1>3, <1>4 DEF Linked
  <2>3. QED
    BY <1>6, <1>7, <2>1, <2>2 DEF ChainNodes, Linked
<1>9. \A i \in Levels : ChainNodes(i) \subseteq 1 .. Len(node)
  BY <1>1, ChainTypes
<1>10. PICK keys : keys = KeyOf'
  OBVIOUS
<1>11. /\ keys \in KeyMaps(Len(node) + 1) /\ keys[new] = key
       /\ \A n \in 1 .. Len(node) : keys[n] = KeyOf[n]
  <2>1. keys = [n \in 1 .. Len(arena) |-> arena[n].key]
    BY <1>3, <1>10 DEF KeyOf
  <2>2. ASSUME NEW n \in 1 .. Len(arena)
        PROVE  arena[n].key \in Int
    <3>1. arena[n] \in NodeType
      BY <1>6
    <3>2. QED
      BY <3>1, KeysAssumption DEF NodeType
  <2>3. QED
    BY <1>3, <1>6, <2>1, <2>2, <1>1, KeyOfType DEF KeyMaps
<1>12. ASSUME NEW i \in Levels
       PROVE  /\ ListOf(Len(node) + 1, keys, Links(i), ChainNodes(i))
              /\ IsPred(keys, ChainNodes(i), key, update[i])
  <2>1. ListOf(Len(node), KeyOf, Links(i), ChainNodes(i))
    BY <1>1 DEF Sorted
  <2>2. IsPred(KeyOf, ChainNodes(i), key, update[i])
    BY <1>1, <1>2, UpdateIs
  <2>3. Len(node) + 1 <= MaxNodes
    BY <1>4, <1>5
  <2>4. QED
    BY <1>11, <2>1, <2>2, <2>3, ListGrows
<1>13. Sorted'
  <2>1. ASSUME NEW i \in Levels
        PROVE  /\ ListOf(Len(node'), KeyOf', Links(i)', ChainNodes(i)')
               /\ \A n \in ChainNodes(i)' :
                     i <= node'[n].top_level /\ node'[n].top_level <= level_'
    <3>1. ListOf(Len(node'), KeyOf', Links(i)', ChainNodes(i)')
      BY <1>3, <1>6, <1>8, <1>10, <1>12
    <3>2. \A n \in ChainNodes(i) : i <= node[n].top_level /\ node[n].top_level <= level_
      BY <1>1 DEF Sorted
    <3>3. level_ <= top /\ top \in Int
      BY <1>4, <1>5
    <3>4. ASSUME NEW n \in ChainNodes(i)
          PROVE  i <= arena[n].top_level /\ arena[n].top_level <= top
      BY <1>5, <1>6, <1>9, <3>2, <3>3
    <3>5. QED
      BY <1>3, <1>8, <3>1, <3>4
  <2>2. QED
    BY <2>1 DEF Sorted
<1>14. Linked \subseteq 1 .. Len(node)
  BY <1>1, ChainLinked
<1>15. Ascending'
  BY <1>1, <1>3, <1>4, <1>6, <1>8, <1>14 DEF ListInv, Ascending
<1>16. Unused'
  <2>1. \A n \in Places : n > Len(arena) => n > Len(node)
    BY <1>3, <1>5, <1>6 DEF Places, Header
  <2>2. QED
    BY <1>1, <1>3, <1>4, <2>1 DEF ListInv, Unused
<1>17. ListInv'
  BY <1>13, <1>15, <1>16 DEF ListInv
<1>18. \A i \in Levels : new \notin ChainNodes(i)
  BY <1>6, <1>9
<1>19. /\ writer'.op = "install" /\ writer'.new = new /\ writer'.i = 0
       /\ writer'.update = update
  BY <1>4, <1>6
<1>20. ASSUME NEW n \in ChainNodes(0)
       PROVE  node[n].key # key
  <2>1. /\ next[update[0]][0] = Null \/ next[update[0]][0] \in ChainNodes(0)
        /\ node[n].key = key => next[update[0]][0] = n
    BY <1>1, <1>2, FoundIs
  <2>2. ~(next[update[0]][0] # Null /\ node[next[update[0]][0]].key = key)
    BY <1>2 DEF PutNew
  <2>3. n # Null
    BY <1>9, <1>1, StateTypes DEF Null
  <2>4. QED
    BY <2>1, <2>2, <2>3
<1>21. InstallInv'
  <2>1. arena[new].top_level = new_level /\ arena[new].key = key
    BY <1>6
  <2>2. 0 <= new_level /\ new_level <= top
    BY <1>4, <1>5, LevelZero
  <2>3. \A j \in Levels : new \in ChainNodes(j) <=> j < 0
    BY <1>18, LevelZero
  <2>4. \A j \in Levels :
           ChainNodes(j) \ {new} = {n \in ChainNodes(0) \ {new} : arena[n].top_level >= j}
    <3>1. \A n \in ChainNodes(0) : arena[n] = node[n]
      BY <1>1, <1>6, <1>9
    <3>2. QED
      BY <1>1, <1>18, <3>1 DEF Agree, Tall
  <2>5. \A n \in ChainNodes(0) \ {new} : arena[n].key # arena[new].key
    BY <1>1, <1>6, <1>9, <1>20, <2>1
  <2>6. \A j \in Levels : j >= 0 => IsPred(keys, ChainNodes(j), arena[new].key, update[j])
    BY <1>12, <2>1
  <2>7. size_ = Cardinality(ChainNodes(0) \ {new})
    <3>1. ChainNodes(0) \ {new} = ChainNodes(0)
      BY <1>1, <1>18
    <3>2. QED
      BY <1>1, <3>1
  <2>8. /\ writer'.i <= node'[writer'.new].top_level
        /\ node'[writer'.new].top_level <= level_'
    BY <1>3, <1>19, <2>1, <2>2
  <2>9. /\ \A j \in Levels : writer'.new \in ChainNodes(j)' <=> j < writer'.i
        /\ \A n \in ChainNodes(0)' \ {writer'.new} :
              node'[n].key # node'[writer'.new].key
    BY <1>3, <1>8, <1>19, <2>3, <2>5
  <2>10. \A j \in Levels : ChainNodes(j)' \ {writer'.new} =
             {n \in ChainNodes(0)' \ {writer'.new} : node'[n].top_level >= j}
    BY <1>3, <1>8, <1>19, <2>4
  <2>11. \A j \in Levels : j >= writer'.i =>
             IsPred(KeyOf', ChainNodes(j)', node'[writer'.new].key, writer'.update[j])
    BY <1>3, <1>8, <1>10, <1>19, <2>6
  <2>12. /\ next'[writer'.new][0] = Unset
         /\ size_' = Cardinality(ChainNodes(0)' \ {writer'.new})
    BY <1>4, <1>7, <1>8, <1>19, <2>7
  <2>13. QED
    BY <2>8, <2>9, <2>10, <2>11, <2>12 DEF InstallInv, Tall
<1>22. WriterInv'
  BY <1>19, <1>21 DEF WriterInv
<1>23. TypeOK'
  <2>1. update \in [Levels -> Places]
    <3>1. update = [i \in Levels |-> update[i]]
      BY <1>2 DEF Update
    <3>2. ASSUME NEW i \in Levels
          PROVE  update[i] \in Places
      <4>1. update[i] \in ChainNodes(i) \cup {Header}
        BY <1>12 DEF IsPred
      <4>2. QED
        BY <1>1, <4>1, ChainTypes
    <3>3. QED
      BY <3>1, <3>2
  <2>2. writer' \in [op : {"install"}, new : 1 .. Len(arena), i : Levels,
                     update : [Levels -> Places]]
    BY <1>1, <1>4, <1>5, <1>6, <2>1
  <2>3. top \in Levels
    BY <1>1, <1>4, StateTypes
  <2>4. Len(arena) <= MaxNodes
    BY <1>6
  <2>5. QED
    BY <1>1, <1>3, <1>4, <1>6, <2>2, <2>3, <2>4 DEF TypeOK, NodeType
<1>24. /\ Stored' = Stored /\ Present' = Present
  <2>1. \A n \in ChainNodes(0) : arena[n] = node[n]
    BY <1>1, <1>6, <1>9
  <2>2. QED
    BY <1>3, <1>8, <2>1 DEF Stored, Present
<1>25. ReaderInv'
  <2>1. \A r \in Readers : Follows(reader[r], reader'[r], Stored')
    BY <1>1, <1>4, <1>24, SameFollows
  <2>2. ASSUME NEW n \in Linked
        PROVE  /\ n \in Linked' /\ node'[n].key = node[n].key
               /\ \A m \in Reach(Links(0)', n) : m \in Reach(Links(0), n) /\ node'[m] = node[m]
               /\ \A m \in Reach(Links(0), n) : m \in Reach(Links(0)', n)
    <3>1. Reach(Links(0), n) \subseteq 1 .. Len(node)
      BY <1>1, <1>14, AheadLinked
    <3>2. QED
      BY <1>3, <1>6, <1>8, <1>14, <3>1
  <2>3. \A n \in ChainNodes(0), m \in ChainNodes(0)' :
           node[n].key = node'[m].key => n \in ChainNodes(0)'
    BY <1>8
  <2>4. QED
    BY <1>1, <1>17, <1>23, <2>1, <2>2, <2>3, ScansKept
<1>26. QED
  BY <1>17, <1>22, <1>23, <1>24, <1>25 DEF IInv

\* A write shows as one step to readers.
OneWrite ==
    \/ Present' = Present
    \/ \E k \in Keys : k \notin Present /\ Present' = Present \cup {k}
    \/ \E range \in Ranges :
          Present' = {k \in Present : k < range[1] \/ k > range[2]}

\* One pointer of one level is stored to.
LEMMA OneStore ==
    ASSUME NEW links \in [Places -> [Levels -> Places \cup {Null, Unset}]],
           NEW b \in Places, NEW i \in Levels, NEW p \in Places \cup {Null, Unset}
    PROVE  /\ [links EXCEPT ![b][i] = p] \in [Places -> [Levels -> Places \cup {Null, Unset}]]
           /\ \A n \in Places, j \in Levels :
                [links EXCEPT ![b][i] = p][n][j]
                  = IF n = b /\ j = i THEN p ELSE links[n][j]
<1>1. links[b] \in [Levels -> Places \cup {Null, Unset}]
  OBVIOUS
<1>2. PICK row : row = [links[b] EXCEPT ![i] = p]
  OBVIOUS
<1>3. /\ row \in [Levels -> Places \cup {Null, Unset}]
      /\ \A j \in Levels : row[j] = IF j = i THEN p ELSE links[b][j]
  BY <1>1, <1>2
<1>4. [links EXCEPT ![b][i] = p] = [links EXCEPT ![b] = row]
  BY <1>2
<1>5. /\ [links EXCEPT ![b] = row] \in [Places -> [Levels -> Places \cup {Null, Unset}]]
      /\ \A n \in Places : [links EXCEPT ![b] = row][n] = IF n = b THEN row ELSE links[n]
  BY <1>3
<1>6. QED
  BY <1>3, <1>4, <1>5

\* Where the new node goes on level writer.i, and what the two stores make of
\* the pointers.
LEMMA InstallLinks ==
    ASSUME IInv, Install, NEW new, NEW i, NEW b,
           new = writer.new, i = writer.i, b = writer.update[i]
    PROVE  /\ new \in 1 .. Len(node) /\ new \in Places /\ new # Header /\ i \in Levels
           /\ b \in ChainNodes(i) \cup {Header} /\ b \in Places /\ b # new
           /\ new \notin ChainNodes(i)
           /\ IsPred(KeyOf, ChainNodes(i), KeyOf[new], b) /\ KeyOf[new] = node[new].key
           /\ \A n \in ChainNodes(i) : KeyOf[n] # KeyOf[new]
           /\ next' \in [Places -> [Levels -> Places \cup {Null, Unset}]]
           /\ \A n \in Places, j \in Levels :
                next'[n][j] = IF j = i /\ n = new THEN next[b][i]
                              ELSE IF j = i /\ n = b THEN new ELSE next[n][j]
<1>1. /\ TypeOK /\ Sorted /\ InstallInv /\ writer.op = "install"
  BY DEF IInv, ListInv, WriterInv, Install
<1>2. writer \in [op : {"install"}, new : 1..Len(node), i : Levels,
                  update : [Levels -> Places]]
  BY <1>1 DEF TypeOK, Idle
<1>3. /\ new \in 1 .. Len(node) /\ i \in Levels /\ b \in Places /\ i \in Int
  BY <1>2, LevelZero
<1>4. new \in Places /\ new # Header /\ KeyOf[new] = node[new].key
  BY <1>1, <1>3, StateTypes, KeyOfType DEF Header
<1>5. /\ new \notin ChainNodes(i)
      /\ IsPred(KeyOf, ChainNodes(i), KeyOf[new], b)
      /\ \A n \in ChainNodes(0) \ {new} : node[n].key # node[new].key
      /\ ChainNodes(i) \ {new} = Tall(ChainNodes(0) \ {new}, i)
  <2>1. new \notin ChainNodes(i)
    BY <1>1, <1>3 DEF InstallInv
  <2>2. i >= writer.i
    BY <1>3
  <2>3. IsPred(KeyOf, ChainNodes(i), node[new].key, b)
    BY <1>1, <1>3, <2>2 DEF InstallInv
  <2>4. /\ \A n \in ChainNodes(0) \ {new} : node[n].key # node[new].key
        /\ ChainNodes(i) \ {new} = Tall(ChainNodes(0) \ {new}, i)
    BY <1>1, <1>3 DEF InstallInv
  <2>5. QED
    BY <1>4, <2>1, <2>3, <2>4
<1>6. b \in ChainNodes(i) \cup {Header} /\ b # new
  BY <1>4, <1>5 DEF IsPred
<1>7. \A n \in ChainNodes(i) : KeyOf[n] # KeyOf[new]
  BY <1>1, <1>3, <1>4, <1>5, ChainTypes DEF Tall
<1>8. next \in [Places -> [Levels -> Places \cup {Null, Unset}]]
  BY <1>1 DEF TypeOK
<1>9. PICK p \in Places \cup {Null, Unset} : p = next[b][i]
  BY <1>3, <1>8
<1>10. PICK first : first = [next EXCEPT ![new][i] = p]
  OBVIOUS
<1>11. PICK links : links = [first EXCEPT ![b][i] = new]
  OBVIOUS
<1>12. next' = links
  BY <1>9, <1>10, <1>11 DEF Install
<1>13. /\ first \in [Places -> [Levels -> Places \cup {Null, Unset}]]
       /\ \A n \in Places, j \in Levels :
             first[n][j] = IF n = new /\ j = i THEN p ELSE next[n][j]
  BY <1>3, <1>4, <1>8, <1>10, OneStore
<1>14. new \in Places \cup {Null, Unset}
  BY <1>4
<1>15. /\ links \in [Places -> [Levels -> Places \cup {Null, Unset}]]
       /\ \A n \in Places, j \in Levels :
             links[n][j] = IF n = b /\ j = i THEN new ELSE first[n][j]
  BY <1>3, <1>11, <1>13, <1>14, OneStore
<1>16. \A n \in Places, j \in Levels :
          links[n][j] = IF j = i /\ n = new THEN next[b][i]
                        ELSE IF j = i /\ n = b THEN new ELSE next[n][j]
  BY <1>6, <1>9, <1>13, <1>15
<1>17. QED
  BY <1>3, <1>4, <1>5, <1>6, <1>7, <1>12, <1>15, <1>16

\* The chains after the stores.
LEMMA InstallChains ==
    ASSUME IInv, Install, NEW new, NEW i, new = writer.new, i = writer.i
    PROVE  /\ ListOf(Len(node), KeyOf, Links(i)', ChainNodes(i) \cup {new})
           /\ ChainNodes(i)' = ChainNodes(i) \cup {new}
           /\ \A j \in Levels : j # i => Links(j)' = Links(j) /\ ChainNodes(j)' = ChainNodes(j)
<1>1. TypeOK /\ Sorted
  BY DEF IInv, ListInv
<1>2. PICK b : b = writer.update[i]
  OBVIOUS
<1>3. /\ new \in 1 .. Len(node) /\ i \in Levels /\ b \in Places /\ b # new
      /\ new \in Places
      /\ IsPred(KeyOf, ChainNodes(i), KeyOf[new], b)
      /\ \A n \in ChainNodes(i) : KeyOf[n] # KeyOf[new]
      /\ next' \in [Places -> [Levels -> Places \cup {Null, Unset}]]
      /\ \A n \in Places, j \in Levels :
           next'[n][j] = IF j = i /\ n = new THEN next[b][i]
                         ELSE IF j = i /\ n = b THEN new ELSE next[n][j]
  BY <1>2, InstallLinks
<1>4. \A j : Links(j)' = [n \in Places |-> next'[n][j]]
  BY DEF Links
<1>5. PICK link2 : link2 = Links(i)'
  OBVIOUS
<1>6. /\ link2 \in LinkMaps
      /\ \A n \in Places : link2[n] = next'[n][i]
  BY <1>3, <1>4, <1>5 DEF LinkMaps
<1>7. \A n \in Places : Links(i)[n] = next[n][i]
  BY <1>1, <1>3, LinksType
<1>8. /\ link2[new] = Links(i)[b] /\ link2[b] = new
      /\ \A n \in Places \ {new, b} : link2[n] = Links(i)[n]
  BY <1>3, <1>6, <1>7
<1>9. ListOf(Len(node), KeyOf, Links(i), ChainNodes(i))
  BY <1>1, <1>3 DEF Sorted
<1>10. ListOf(Len(node), KeyOf, link2, ChainNodes(i) \cup {new})
  <2>1. /\ new \in 1 .. Len(node) /\ link2 \in LinkMaps
        /\ IsPred(KeyOf, ChainNodes(i), KeyOf[new], b)
        /\ \A n \in ChainNodes(i) : KeyOf[n] # KeyOf[new]
    BY <1>3, <1>6
  <2>2. PICK N, key, link, L :
              N = Len(node) /\ key = KeyOf /\ link = Links(i) /\ L = ChainNodes(i)
    OBVIOUS
  <2>3. /\ ListOf(N, key, link, L)
        /\ new \in 1 .. N
        /\ IsPred(key, L, key[new], b)
        /\ \A n \in L : key[n] # key[new]
        /\ link2[new] = link[b]
        /\ \A n \in Places \ {new, b} : link2[n] = link[n]
    BY <1>8, <1>9, <2>1, <2>2
  <2>4. link2 \in LinkMaps /\ link2[b] = new
    BY <1>8, <2>1
  <2>5. ListOf(N, key, link2, L \cup {new})
    BY <2>3, <2>4, InstalledList
  <2>6. QED
    BY <2>2, <2>5
<1>11. ChainNodes(i)' = ChainNodes(i) \cup {new}
  BY <1>3, <1>5, <1>10, ChainAfter
<1>12. ASSUME NEW j \in Levels, j # i
       PROVE  Links(j)' = Links(j) /\ ChainNodes(j)' = ChainNodes(j)
  <2>1. Links(j)' = Links(j)
    BY <1>3, <1>4, <1>12 DEF Links
  <2>2. QED
    BY <2>1 DEF ChainNodes
<1>13. QED
  BY <1>5, <1>10, <1>11, <1>12

\* A step that leaves level 0 alone leaves the scans alone.
LEMMA SameBottom ==
    ASSUME TypeOK, ListInv, node' = node, Links(0)' = Links(0)
    PROVE  /\ Linked' = Linked /\ Ascending' /\ Unused'
           /\ ChainNodes(0)' = ChainNodes(0) /\ Stored' = Stored /\ Present' = Present
<1>1. \A n \in Places : next'[n][0] = next[n][0]
  <2>1. [n \in Places |-> next'[n][0]] = [n \in Places |-> next[n][0]]
    BY DEF Links
  <2>2. ASSUME NEW n \in Places
        PROVE  next'[n][0] = next[n][0]
    <3>1. [m \in Places |-> next'[m][0]][n] = [m \in Places |-> next[m][0]][n]
      BY <2>1
    <3>2. QED
      BY <3>1
  <2>3. QED
    BY <2>2
<1>2. 1 .. Len(node) \subseteq Places
  BY StateTypes
<1>3. Linked' = Linked
  BY <1>1, <1>2 DEF Linked
<1>4. ChainNodes(0)' = ChainNodes(0)
  BY DEF ChainNodes
<1>5. Ascending'
  <2>1. Linked \subseteq Places
    BY <1>2 DEF Linked
  <2>2. QED
    BY <1>1, <1>3, <2>1 DEF ListInv, Ascending
<1>6. Unused'
  BY <1>1 DEF ListInv, Unused
<1>7. QED
  BY <1>3, <1>4, <1>5, <1>6 DEF Stored, Present

LEMMA SameScans ==
    ASSUME TypeOK, ListInv, ReaderInv, node' = node, Links(0)' = Links(0), reader' = reader,
           TypeOK', ListInv'
    PROVE  ReaderInv'
<1>1. Linked' = Linked /\ ChainNodes(0)' = ChainNodes(0) /\ Stored' = Stored
  BY SameBottom
<1>2. \A r \in Readers : Follows(reader[r], reader'[r], Stored')
  BY <1>1, SameFollows
<1>3. ASSUME NEW n \in Linked
      PROVE  /\ n \in Linked' /\ node'[n].key = node[n].key
             /\ \A m \in Reach(Links(0)', n) : m \in Reach(Links(0), n) /\ node'[m] = node[m]
             /\ \A m \in Reach(Links(0), n) : m \in Reach(Links(0)', n)
  BY <1>1
<1>4. \A n \in ChainNodes(0), m \in ChainNodes(0)' :
         node[n].key = node'[m].key => n \in ChainNodes(0)'
  BY <1>1
<1>5. QED
  BY <1>2, <1>3, <1>4, ScansKept

\* A store on level 0 that makes a list of it and links no other node.
LEMMA AscendingKept ==
    ASSUME TypeOK, ListInv, node' = node,
           NEW L, ListOf(Len(node), KeyOf, Links(0)', L), Linked' = Linked \cup L,
           \A n \in Linked' \ L : next'[n][0] = next[n][0]
    PROVE  Ascending'
<1> SUFFICES ASSUME NEW n \in Linked', next'[n][0] # Null
             PROVE  next'[n][0] \in Linked' /\ node[n].key < node[next'[n][0]].key
  BY DEF Ascending
<1>1. CASE n \in L
  <2>1. /\ Header \notin L /\ L \subseteq Places /\ L \subseteq 1 .. Len(node)
    BY ListTypes DEF ListOf
  <2>2. PICK l : l = next'[n][0]
    OBVIOUS
  <2>3. Links(0)'[n] = l
    BY <1>1, <2>1, <2>2 DEF Links
  <2>4. l \in L /\ Before(KeyOf, n, l)
    BY <1>1, <2>2, <2>3 DEF ListOf, IsList
  <2>5. KeyOf[n] < KeyOf[l]
    BY <1>1, <2>1, <2>4 DEF Before
  <2>6. KeyOf[n] = node[n].key /\ KeyOf[l] = node[l].key
    BY <1>1, <2>1, <2>4, KeyOfType
  <2>7. QED
    BY <2>2, <2>4, <2>5, <2>6
<1>2. CASE n \notin L
  <2>1. n \in Linked /\ next'[n][0] = next[n][0]
    BY <1>2
  <2>2. QED
    BY <2>1 DEF ListInv, Ascending
<1>3. QED
  BY <1>1, <1>2

\* The new node is linked on one more level.
LEMMA InstallStep ==
    ASSUME IInv, Install
    PROVE  IInv' /\ OneWrite
<1>1. /\ TypeOK /\ ListInv /\ Sorted /\ Ascending /\ Unused /\ ReaderInv /\ InstallInv
      /\ writer.op = "install" /\ 0 \in Levels
  BY LevelZero DEF IInv, ListInv, WriterInv, Install
<1>2. PICK new, i, b, top : new = writer.new /\ i = writer.i /\ b = writer.update[i]
                            /\ top = node[new].top_level
  OBVIOUS
<1>3. /\ new \in 1 .. Len(node) /\ new \in Places /\ new # Header /\ i \in Levels
      /\ b \in ChainNodes(i) \cup {Header} /\ b \in Places /\ b # new
      /\ new \notin ChainNodes(i)
      /\ KeyOf[new] = node[new].key
      /\ \A n \in ChainNodes(i) : KeyOf[n] # KeyOf[new]
      /\ next' \in [Places -> [Levels -> Places \cup {Null, Unset}]]
  BY <1>1, <1>2, InstallLinks
<1>4. \A n \in Places, j \in Levels :
         next'[n][j] = IF j = i /\ n = new THEN next[b][i]
                       ELSE IF j = i /\ n = b THEN new ELSE next[n][j]
  BY <1>1, <1>2, InstallLinks
<1>5. ListOf(Len(node), KeyOf, Links(i)', ChainNodes(i) \cup {new})
  BY <1>2, InstallChains
<1>6. ChainNodes(i)' = ChainNodes(i) \cup {new}
  BY <1>2, InstallChains
<1>7. \A j \in Levels : j # i => Links(j)' = Links(j) /\ ChainNodes(j)' = ChainNodes(j)
  BY <1>2, InstallChains
<1>8. node' = node /\ level_' = level_ /\ KeyOf' = KeyOf
  BY DEF Install, KeyOf
<1>9. /\ i <= top /\ top <= level_ /\ top \in Levels
      /\ i \in Int /\ top \in Int /\ 0 <= i
      /\ \A j \in Levels : j \in Int
      /\ \A n \in ChainNodes(0) : node[n].top_level \in Int
  BY <1>1, <1>2, <1>3, StateTypes, LevelZero, ChainTypes DEF InstallInv
<1>10. \A j \in Levels : new \in ChainNodes(j) <=> j < i
  BY <1>1, <1>2 DEF InstallInv
<1>11. Sorted'
  <2>1. ASSUME NEW j \in Levels
        PROVE  /\ ListOf(Len(node), KeyOf, Links(j)', ChainNodes(j)')
               /\ \A n \in ChainNodes(j)' : j <= node[n].top_level /\ node[n].top_level <= level_
    <3>1. /\ ListOf(Len(node), KeyOf, Links(j), ChainNodes(j))
          /\ \A n \in ChainNodes(j) : j <= node[n].top_level /\ node[n].top_level <= level_
      BY <1>1 DEF Sorted
    <3>2. CASE j = i
      BY <1>2, <1>5, <1>6, <1>9, <3>1, <3>2
    <3>3. CASE j # i
      BY <1>7, <3>1, <3>3
    <3>4. QED
      BY <3>2, <3>3
  <2>2. QED
    BY <1>8, <2>1 DEF Sorted
<1>12. \A j \in Levels : ChainNodes(j)' \ {new} = ChainNodes(j) \ {new}
  BY <1>6, <1>7
<1>13. \A j \in Levels : new \in ChainNodes(j)' <=> j <= i
  <2>1. ASSUME NEW j \in Levels
        PROVE  new \in ChainNodes(j)' <=> j <= i
    <3>1. CASE j = i
      BY <1>6, <1>9, <3>1
    <3>2. CASE j # i
      BY <1>7, <1>9, <1>10, <3>2
    <3>3. QED
      BY <3>1, <3>2
  <2>2. QED
    BY <2>1
<1>14. /\ \A j \in Levels : ChainNodes(j)' \ {new} = Tall(ChainNodes(0)' \ {new}, j)
       /\ \A n \in ChainNodes(0)' \ {new} : node[n].key # node[new].key
       /\ size_ = Cardinality(ChainNodes(0)' \ {new})
  BY <1>1, <1>2, <1>12 DEF InstallInv
<1>15. ChainNodes(0)' \subseteq 1 .. Len(node) /\ IsFiniteSet(ChainNodes(0)')
       /\ Cardinality(ChainNodes(0)') \in 0 .. MaxNodes
  <2>1. ChainNodes(0)' \in SUBSET (1 .. Len(node))
    BY <1>1, <1>3, <1>6, <1>7, ChainTypes
  <2>2. PICK S \in SUBSET (1 .. Len(node)) : S = ChainNodes(0)'
    BY <2>1
  <2>3. QED
    BY <1>1, <2>2, StateTypes, NodeSets
<1>16. WriterInv' /\ size_' \in 0 .. MaxNodes
       /\ (writer' = Idle \/ writer' \in [op : {"install"}, new : 1..Len(node), i : Levels,
                                          update : [Levels -> Places]])
  <2>1. writer \in [op : {"install"}, new : 1..Len(node), i : Levels,
                    update : [Levels -> Places]]
    BY <1>1 DEF TypeOK, Idle
  <2>2. CASE i < top
    <3>1. writer' = [writer EXCEPT !.i = i + 1] /\ size_' = size_
      BY <1>2, <2>2 DEF Install
    <3>2. i + 1 \in Levels /\ i + 1 <= top
      BY <1>9, <2>2, BoundsAssumption DEF Levels
    <3>3. PICK w : w = writer'
      OBVIOUS
    <3>4. /\ w \in [op : {"install"}, new : 1..Len(node), i : Levels,
                    update : [Levels -> Places]]
          /\ w.op = "install" /\ w.new = new /\ w.i = i + 1 /\ w.update = writer.update
      BY <1>2, <2>1, <3>1, <3>2, <3>3
    <3>5. \A j \in Levels : new \in ChainNodes(j)' <=> j < w.i
      BY <1>9, <1>13, <3>4
    <3>6. ASSUME NEW j \in Levels, j >= w.i
          PROVE  IsPred(KeyOf, ChainNodes(j)', node[new].key, w.update[j])
      <4>1. j >= i /\ j # i
        BY <1>9, <3>4, <3>6
      <4>2. IsPred(KeyOf, ChainNodes(j), node[new].key, writer.update[j])
        BY <1>1, <1>2, <4>1 DEF InstallInv
      <4>3. QED
        BY <1>7, <3>4, <4>1, <4>2
    <3>7. ~(w.i = 0) /\ w.i <= top
      BY <1>9, <3>2, <3>4
    <3>8. InstallInv'
      <4>1. /\ writer'.i <= node'[writer'.new].top_level
            /\ node'[writer'.new].top_level <= level_'
        BY <1>2, <1>8, <1>9, <3>3, <3>4, <3>7
      <4>2. \A j \in Levels : writer'.new \in ChainNodes(j)' <=> j < writer'.i
        BY <3>3, <3>4, <3>5
      <4>3. \A j \in Levels : ChainNodes(j)' \ {writer'.new} =
                {n \in ChainNodes(0)' \ {writer'.new} : node'[n].top_level >= j}
        BY <1>8, <1>14, <3>3, <3>4 DEF Tall
      <4>4. \A n \in ChainNodes(0)' \ {writer'.new} : node'[n].key # node'[writer'.new].key
        BY <1>8, <1>14, <3>3, <3>4
      <4>5. \A j \in Levels : j >= writer'.i =>
               IsPred(KeyOf', ChainNodes(j)', node'[writer'.new].key, writer'.update[j])
        BY <1>8, <3>3, <3>4, <3>6
      <4>6. /\ ~(writer'.i = 0)
            /\ size_' = Cardinality(ChainNodes(0)' \ {writer'.new})
        BY <1>14, <3>1, <3>3, <3>4, <3>7
      <4>7. QED
        BY <4>1, <4>2, <4>3, <4>4, <4>5, <4>6 DEF InstallInv, Tall
    <3>9. WriterInv'
      BY <3>3, <3>4, <3>8 DEF WriterInv
    <3>10. QED
      BY <1>1, <3>1, <3>3, <3>4, <3>9 DEF TypeOK
  <2>3. CASE ~(i < top)
    <3>1. writer' = Idle /\ size_' = size_ + 1
      BY <1>2, <2>3 DEF Install
    <3>2. i = top
      BY <1>9, <2>3
    <3>3. new \in ChainNodes(0)'
      BY <1>1, <1>9, <1>13
    <3>4. ASSUME NEW j \in Levels
          PROVE  ChainNodes(j)' = {n \in ChainNodes(0)' : node[n].top_level >= j}
      <4>1. ChainNodes(j)' \ {new} = {n \in ChainNodes(0)' \ {new} : node[n].top_level >= j}
        BY <1>14 DEF Tall
      <4>2. new \in ChainNodes(j)' <=> node[new].top_level >= j
        BY <1>2, <1>9, <1>13, <3>2
      <4>3. QED
        BY <3>3, <4>1, <4>2
    <3>5. Agree'
      BY <1>8, <3>4 DEF Agree, Tall
    <3>6. size_' = Cardinality(ChainNodes(0)')
      <4>1. PICK S : S = ChainNodes(0)'
        OBVIOUS
      <4>2. IsFiniteSet(S) /\ Cardinality(S) \in Nat /\ new \in S
        BY <1>15, <3>3, <4>1
      <4>3. Cardinality(S \ {new}) = Cardinality(S) - 1
        BY <4>2, FS_RemoveElement
      <4>4. QED
        BY <1>14, <3>1, <4>1, <4>2, <4>3
    <3>7. WriterInv'
      BY <3>1, <3>5, <3>6 DEF WriterInv, Idle
    <3>8. QED
      BY <1>15, <3>1, <3>6, <3>7
  <2>4. QED
    BY <2>2, <2>3
<1>17. CASE i # 0
  <2>1. Links(0)' = Links(0)
    BY <1>1, <1>7, <1>17
  <2>2. reader' = reader
    BY <1>2, <1>17 DEF Install
  <2>3. Linked' = Linked /\ Ascending' /\ Unused' /\ Present' = Present
    BY <1>1, <1>8, <2>1, SameBottom
  <2>4. ListInv'
    BY <1>11, <2>3 DEF ListInv
  <2>5. TypeOK'
    BY <1>1, <1>3, <1>8, <1>16, <2>2 DEF TypeOK
  <2>6. ReaderInv'
    BY <1>1, <1>8, <2>1, <2>2, <2>4, <2>5, SameScans
  <2>7. QED
    BY <1>16, <2>3, <2>4, <2>5, <2>6 DEF IInv, OneWrite
<1>18. CASE i = 0
  <2>1. next[new][0] = Unset
    BY <1>1, <1>2, <1>18 DEF InstallInv
  <2>2. Null \notin Places /\ Unset \notin Places /\ Null # Unset
    BY <1>5, ListTypes
  <2>3. /\ ChainNodes(0) \subseteq Linked /\ Linked \subseteq Places
        /\ Linked \subseteq 1 .. Len(node)
        /\ \A m, n \in ChainNodes(0) : node[m].key = node[n].key => m = n
        /\ Header \notin ChainNodes(0)
        /\ next[Header][0] = Null \/ next[Header][0] \in ChainNodes(0)
    BY <1>1, ChainLinked, ChainTypes
  <2>4. new \notin Linked
    BY <2>1 DEF Linked
  <2>5. next[b][0] = Null \/ next[b][0] \in ChainNodes(0)
    <3>1. Links(0)[b] = next[b][0]
      BY <1>1, <1>3, LinksType
    <3>2. ListOf(Len(node), KeyOf, Links(0), ChainNodes(0))
      BY <1>1 DEF Sorted
    <3>3. QED
      BY <1>3, <1>18, <3>1, <3>2 DEF ListOf, IsList
  <2>6. \A n \in Places : next'[n][0] = IF n = new THEN next[b][0]
                                        ELSE IF n = b THEN new ELSE next[n][0]
    BY <1>1, <1>4, <1>18
  <2>7. Linked' = Linked \cup {new}
    <3>1. Linked' = {n \in 1 .. Len(node) : next'[n][0] # Unset}
      BY <1>8 DEF Linked
    <3>2. ASSUME NEW n \in 1 .. Len(node)
          PROVE  next'[n][0] # Unset <=> n \in Linked \cup {new}
      <4>1. n \in Places /\ n # Header
        BY <1>1, StateTypes DEF Header
      <4>2. CASE n = new
        BY <2>2, <2>3, <2>5, <2>6, <4>1, <4>2
      <4>3. CASE n = b /\ n # new
        <5>1. n \in Linked
          BY <1>3, <1>18, <2>3, <4>1, <4>3
        <5>2. QED
          BY <1>3, <2>2, <2>6, <4>1, <4>3, <5>1
      <4>4. CASE n # b /\ n # new
        BY <2>6, <4>1, <4>4 DEF Linked
      <4>5. QED
        BY <4>2, <4>3, <4>4
    <3>3. Linked \cup {new} \subseteq 1 .. Len(node)
      BY <1>3, <2>3
    <3>4. QED
      BY <3>1, <3>2, <3>3
  <2>8. ChainNodes(0)' = ChainNodes(0) \cup {new}
    BY <1>6, <1>18
  <2>9. Ascending'
    <3>1. PICK L : L = ChainNodes(0) \cup {new}
      OBVIOUS
    <3>2. ListOf(Len(node), KeyOf, Links(0)', L)
      BY <1>5, <1>18, <3>1
    <3>3. Linked' = Linked \cup L
      BY <2>3, <2>7, <3>1
    <3>4. ASSUME NEW n \in Linked' \ L
          PROVE  next'[n][0] = next[n][0]
      <4>1. n \in Linked /\ n \in Places /\ n # new
        BY <2>3, <2>7, <3>1, <3>4
      <4>2. n # b
        BY <1>1, <1>3, <1>18, <2>3, <3>1, <3>4, <4>1 DEF Header
      <4>3. QED
        BY <2>6, <4>1, <4>2
    <3>5. QED
      BY <1>1, <1>8, <3>2, <3>3, <3>4, AscendingKept
  <2>10. Unused'
    <3>1. ASSUME NEW n \in Places, n > Len(node)
          PROVE  next'[n][0] = Unset
      <4>1. n \notin 1 .. Len(node) /\ Len(node) \in Nat /\ n # 0
        BY <1>1, <3>1, StateTypes
      <4>2. n # new /\ n # b
        BY <1>3, <1>18, <2>3, <4>1 DEF Header
      <4>3. QED
        BY <1>1, <2>6, <3>1, <4>2 DEF Unused
    <3>2. QED
      BY <1>8, <3>1 DEF Unused
  <2>11. ListInv'
    BY <1>11, <2>9, <2>10 DEF ListInv
  <2>12. PICK stored : stored = Stored \cup {<<node[new].key, node[new].value>>}
    OBVIOUS
  <2>13. Stored' = stored /\ reader' = Watch(stored)
    <3>1. Stored' = {<<node[n].key, node[n].value>> : n \in ChainNodes(0) \cup {new}}
      BY <1>8, <2>8 DEF Stored
    <3>2. Stored' = stored
      BY <2>12, <3>1 DEF Stored
    <3>3. reader' = Watch(stored)
      BY <1>2, <1>18, <2>12 DEF Install
    <3>4. QED
      BY <3>2, <3>3
  <2>14. stored \in SUBSET Pairs
    <3>1. \A n \in ChainNodes(0) \cup {new} : n \in 1 .. Len(node)
      BY <1>3, <2>3
    <3>2. \A n \in ChainNodes(0) \cup {new} : <<node[n].key, node[n].value>> \in Pairs
      BY <1>1, <3>1, StateTypes DEF Pairs
    <3>3. QED
      BY <2>12, <3>2 DEF Stored
  <2>15. /\ reader' \in [Readers -> {Away} \cup ScanType]
         /\ \A r \in Readers : Follows(reader[r], reader'[r], stored)
    BY <1>1, <2>13, <2>14, WatchFollows
  <2>16. TypeOK'
    BY <1>1, <1>3, <1>8, <1>16, <2>15 DEF TypeOK, ScanType
  <2>17. ASSUME NEW n \in Linked
         PROVE  /\ n \in Linked' /\ node'[n].key = node[n].key
                /\ \A m \in Reach(Links(0)', n) :
                      m \in ChainNodes(0)' \/ (m \in Reach(Links(0), n) /\ node'[m] = node[m])
                /\ \A m \in Reach(Links(0), n) : m \in Reach(Links(0)', n)
    <3>1. PICK link, link2 : link = Links(0) /\ link2 = Links(0)'
      OBVIOUS
    <3>2. /\ link \in LinkMaps /\ link2 \in LinkMaps
          /\ \A x \in Places : link[x] = next[x][0] /\ link2[x] = next'[x][0]
      <4>1. link \in LinkMaps /\ \A x \in Places : link[x] = next[x][0]
        BY <1>1, <3>1, LinksType
      <4>2. link2 = [x \in Places |-> next'[x][0]]
        BY <3>1 DEF Links
      <4>3. QED
        BY <1>1, <1>3, <4>1, <4>2 DEF LinkMaps
    <3>3. \A x \in Places : link[x] # new
      <4>1. ASSUME NEW x \in Places
            PROVE  next[x][0] # new
        <5>1. CASE x = Header
          BY <1>3, <2>2, <2>3, <2>4, <5>1
        <5>2. CASE x \in Linked
          BY <1>1, <1>3, <2>2, <2>4, <5>2 DEF Ascending
        <5>3. CASE x \notin Linked /\ x # Header
          <6>1. x \in 1 .. Len(node) \/ x > Len(node)
            BY <1>1, <5>3, StateTypes, BoundsAssumption DEF Places, Header
          <6>2. next[x][0] = Unset
            BY <1>1, <5>3, <6>1 DEF Linked, Unused
          <6>3. QED
            BY <1>3, <2>2, <6>2
        <5>4. QED
          BY <5>1, <5>2, <5>3
      <4>2. QED
        BY <3>2, <4>1
    <3>4. /\ link2[new] = link[b] /\ link2[b] = new
          /\ \A x \in Places \ {new, b} : link2[x] = link[x]
      BY <1>3, <2>6, <3>2
    <3>5. n \in Places /\ n # new
      BY <2>3, <2>4
    <3>6. /\ Reach(link2, n) \subseteq Reach(link, n) \cup {new}
          /\ Reach(link, n) \subseteq Reach(link2, n)
      BY <1>3, <3>2, <3>3, <3>4, <3>5, ReachInstalled
    <3>7. QED
      BY <1>8, <2>7, <2>8, <3>1, <3>6
  <2>18. \A n \in ChainNodes(0), m \in ChainNodes(0)' :
            node[n].key = node'[m].key => n \in ChainNodes(0)'
    BY <2>8
  <2>19. ReaderInv'
    <3>1. \A r \in Readers : Follows(reader[r], reader'[r], Stored')
      BY <2>13, <2>15
    <3>2. QED
      BY <1>1, <2>11, <2>16, <2>17, <2>18, <3>1, ScansKept
  <2>20. node[new].key \in Keys /\ node[new].key \notin Present
    BY <1>1, <1>3, <1>18, StateTypes, ChainTypes DEF Present
  <2>21. Present' = Present \cup {node[new].key}
    BY <1>8, <2>8 DEF Present
  <2>22. OneWrite
    BY <2>20, <2>21 DEF OneWrite
  <2>23. QED
    BY <1>16, <2>11, <2>16, <2>19, <2>22 DEF IInv
<1>19. QED
  BY <1>17, <1>18

-----------------------------------------------------------------------------
(* erase_range.                                                            *)

\* The range is counted; nothing is unlinked yet.
LEMMA EraseRangeStep ==
    ASSUME IInv, NEW range \in Ranges, EraseRange(range[1], range[2])
    PROVE  IInv' /\ Present' = Present
<1>1. /\ TypeOK /\ ListInv /\ Sorted /\ Agree /\ ReaderInv /\ 0 \in Levels
      /\ size_ = Cardinality(ChainNodes(0))
  BY LevelZero DEF IInv, ListInv, WriterInv, EraseRange, Idle
<1>2. PICK lo \in Keys, hi \in Keys : lo = range[1] /\ hi = range[2] /\ lo <= hi
                                      /\ <<lo, hi>> \in Ranges
  <2>1. range \in Keys \X Keys /\ range[1] <= range[2]
    BY KeysAssumption
  <2>2. PICK lo \in Keys, hi \in Keys : range = <<lo, hi>>
    BY <2>1
  <2>3. lo = range[1] /\ hi = range[2] /\ lo <= hi
    BY <2>1, <2>2
  <2>4. QED
    BY <2>2, <2>3
<1>3. lo \in Int /\ hi \in Int
  BY <1>2, KeysAssumption
<1>4. PICK update, gone : update = Update(lo) /\ gone = Erased(update[0], hi)
  OBVIOUS
<1>5. /\ writer' = [op |-> "bypass", lo |-> lo, hi |-> hi, i |-> 0, cur_level |-> level_,
                    erased |-> Cardinality(gone), update |-> update]
      /\ node' = node /\ next' = next /\ level_' = level_ /\ size_' = size_
      /\ reader' = reader
  BY <1>2, <1>4 DEF EraseRange
<1>6. \A j \in Levels : IsPred(KeyOf, ChainNodes(j), lo, update[j])
  BY <1>1, <1>3, <1>4, UpdateIs
<1>7. gone = {n \in ChainNodes(0) : lo <= node[n].key /\ node[n].key <= hi}
  BY <1>1, <1>2, <1>3, <1>4, <1>6, ErasedIs
<1>8. /\ KeyOf' = KeyOf /\ Links(0)' = Links(0) /\ \A j : Links(j)' = Links(j)
      /\ \A j : ChainNodes(j)' = ChainNodes(j)
  BY <1>5 DEF KeyOf, Links, ChainNodes
<1>9. /\ ChainNodes(0) \subseteq 1 .. Len(node) /\ IsFiniteSet(ChainNodes(0))
      /\ \A n \in ChainNodes(0) : KeyOf[n] = node[n].key /\ node[n].key \in Int
      /\ \A n \in ChainNodes(0) : node[n].top_level \in Int
  BY <1>1, ChainTypes
<1> DEFINE Kept(S) == Outside(KeyOf, S, lo, hi)
<1>10. Kept(ChainNodes(0)) = ChainNodes(0) \ gone /\ gone \subseteq ChainNodes(0)
  BY <1>3, <1>7, <1>9 DEF Outside
<1>11. /\ IsFiniteSet(gone) /\ Cardinality(gone) \in 0 .. MaxNodes
       /\ Cardinality(ChainNodes(0)) = Cardinality(Kept(ChainNodes(0))) + Cardinality(gone)
  <2>1. PICK C, K : C = ChainNodes(0) /\ K = Kept(C)
    OBVIOUS
  <2>2. IsFiniteSet(C) /\ C \subseteq 1 .. Len(node) /\ K = C \ gone /\ gone \subseteq C
    BY <1>9, <1>10, <2>1
  <2>3. IsFiniteSet(gone) /\ Cardinality(gone) \in 0 .. MaxNodes
    BY <1>1, <2>2, StateTypes, NodeSets
  <2>4. C \cap gone = gone
    BY <2>2
  <2>5. Cardinality(K) = Cardinality(C) - Cardinality(gone)
    <3>1. Cardinality(C \ gone) = Cardinality(C) - Cardinality(C \cap gone)
      BY <2>2, FS_Difference
    <3>2. QED
      BY <2>2, <2>4, <3>1
  <2>6. Cardinality(C) \in Nat /\ Cardinality(gone) \in Nat
    BY <2>2, <2>3, FS_CardinalityType
  <2>7. Cardinality(C) = Cardinality(K) + Cardinality(gone)
    BY <2>5, <2>6
  <2>8. QED
    BY <2>1, <2>3, <2>7
<1>12. ASSUME NEW j \in Levels
       PROVE  Kept(ChainNodes(j)) = {n \in Kept(ChainNodes(0)) : node[n].top_level >= j}
  BY <1>1 DEF Agree, Tall, Outside
<1> HIDE DEF Kept
<1>13. /\ writer'.op = "bypass" /\ writer'.lo = lo /\ writer'.hi = hi /\ writer'.i = 0
       /\ writer'.cur_level = level_ /\ writer'.erased = Cardinality(gone)
       /\ writer'.update = update
  BY <1>5
<1>14. \A S : Outside(KeyOf', S, writer'.lo, writer'.hi) = Kept(S)
  BY <1>8, <1>13 DEF Kept
<1>15. BypassInv'
  <2>1. /\ <<writer'.lo, writer'.hi>> \in Ranges
        /\ writer'.cur_level = level_'
    BY <1>2, <1>5, <1>13
  <2>2. \A j \in Levels : ~(j < writer'.i)
    BY <1>13, LevelZero
  <2>3. \A j \in Levels : Kept(ChainNodes(j)') =
                            {n \in Kept(ChainNodes(0)') : node'[n].top_level >= j}
    BY <1>5, <1>8, <1>12
  <2>4. \A j \in Levels : j >= writer'.i =>
           IsPred(KeyOf', ChainNodes(j)', writer'.lo, writer'.update[j])
    BY <1>6, <1>8, <1>13
  <2>5. size_' = Cardinality(Kept(ChainNodes(0)')) + writer'.erased
    BY <1>1, <1>5, <1>8, <1>11, <1>13
  <2>6. QED
    BY <1>14, <2>1, <2>2, <2>3, <2>4, <2>5 DEF BypassInv, Outer, Tall
<1>16. WriterInv'
  BY <1>13, <1>15 DEF WriterInv
<1>17. TypeOK'
  <2>1. update \in [Levels -> Places]
    <3>1. update = [i \in Levels |-> update[i]]
      BY <1>4 DEF Update
    <3>2. ASSUME NEW i \in Levels
          PROVE  update[i] \in Places
      <4>1. update[i] \in ChainNodes(i) \cup {Header}
        BY <1>6 DEF IsPred
      <4>2. QED
        BY <1>1, <4>1, ChainTypes
    <3>3. QED
      BY <3>1, <3>2
  <2>2. level_ \in Levels /\ 0 \in 0 .. MaxLevel + 1
    BY <1>1, StateTypes, BoundsAssumption
  <2>3. writer' \in [op : {"bypass"}, lo : Keys, hi : Keys, i : 0..MaxLevel + 1,
                     cur_level : Levels, erased : 0..MaxNodes,
                     update : [Levels -> Places]]
    BY <1>2, <1>5, <1>11, <2>1, <2>2
  <2>4. QED
    BY <1>1, <1>5, <2>3 DEF TypeOK
<1>18. Linked' = Linked /\ Ascending' /\ Unused' /\ Present' = Present
  BY <1>1, <1>5, <1>8, SameBottom
<1>19. ListInv'
  <2>1. Sorted'
    BY <1>1, <1>5, <1>8 DEF Sorted
  <2>2. QED
    BY <1>18, <2>1 DEF ListInv
<1>20. ReaderInv'
  BY <1>1, <1>5, <1>8, <1>17, <1>19, SameScans
<1>21. QED
  BY <1>16, <1>17, <1>18, <1>19, <1>20 DEF IInv

\* Every level is rid of the range.
LEMMA EraseDoneStep ==
    ASSUME IInv, EraseDone
    PROVE  IInv' /\ Present' = Present
<1>1. /\ TypeOK /\ ListInv /\ Sorted /\ BypassInv /\ ReaderInv /\ 0 \in Levels
      /\ writer.op = "bypass" /\ writer.i > writer.cur_level
  BY LevelZero DEF IInv, ListInv, WriterInv, EraseDone
<1>2. /\ writer' = Idle /\ size_' = size_ - writer.erased
      /\ node' = node /\ next' = next /\ level_' = level_ /\ reader' = reader
  BY DEF EraseDone
<1>3. writer \in [op : {"bypass"}, lo : Keys, hi : Keys, i : 0..MaxLevel + 1,
                  cur_level : Levels, erased : 0..MaxNodes, update : [Levels -> Places]]
  BY <1>1 DEF TypeOK, Idle
<1>4. /\ writer.i \in Int /\ writer.erased \in Nat /\ level_ \in Int /\ level_ \in Levels
      /\ \A j \in Levels : j \in Int /\ j >= 0
  BY <1>1, <1>3, StateTypes, LevelZero, BoundsAssumption
<1>5. ASSUME NEW j \in Levels
      PROVE  Outer(ChainNodes(j)) = ChainNodes(j)
  <2>1. CASE j <= level_
    <3>1. j < writer.i
      BY <1>1, <1>4, <2>1 DEF BypassInv
    <3>2. QED
      BY <1>1, <3>1 DEF BypassInv
  <2>2. CASE j > level_
    <3>1. ChainNodes(j) = {}
      BY <1>1, <2>2, EmptyAbove
    <3>2. QED
      BY <3>1 DEF Outer, Outside
  <2>3. QED
    BY <1>4, <2>1, <2>2
<1>6. /\ KeyOf' = KeyOf /\ Links(0)' = Links(0) /\ \A j : Links(j)' = Links(j)
      /\ \A j : ChainNodes(j)' = ChainNodes(j)
  BY <1>2 DEF KeyOf, Links, ChainNodes
<1>7. \A j \in Levels : ChainNodes(j) = Tall(ChainNodes(0), j)
  <2>1. ASSUME NEW j \in Levels
        PROVE  ChainNodes(j) = Tall(ChainNodes(0), j)
    <3>1. Outer(ChainNodes(j)) = Tall(Outer(ChainNodes(0)), j)
      BY <1>1 DEF BypassInv
    <3>2. QED
      BY <1>1, <1>5, <3>1
  <2>2. QED
    BY <2>1
<1>8. Agree'
  BY <1>2, <1>6, <1>7 DEF Agree, Tall
<1>9. Cardinality(ChainNodes(0)) \in 0 .. MaxNodes
  BY <1>1, ChainTypes
<1>10. size_' = Cardinality(ChainNodes(0))
  <2>1. size_ = Cardinality(Outer(ChainNodes(0))) + writer.erased
    BY <1>1 DEF BypassInv
  <2>2. size_ = Cardinality(ChainNodes(0)) + writer.erased
    BY <1>1, <1>5, <2>1
  <2>3. Cardinality(ChainNodes(0)) \in Int
    BY <1>9
  <2>4. QED
    BY <1>2, <1>4, <2>2, <2>3
<1>11. WriterInv'
  BY <1>2, <1>6, <1>8, <1>10 DEF WriterInv, Idle
<1>12. TypeOK'
  BY <1>1, <1>2, <1>9, <1>10 DEF TypeOK
<1>13. Linked' = Linked /\ Ascending' /\ Unused' /\ Present' = Present
  BY <1>1, <1>2, <1>6, SameBottom
<1>14. ListInv'
  <2>1. Sorted'
    BY <1>1, <1>2, <1>6 DEF Sorted
  <2>2. QED
    BY <1>13, <2>1 DEF ListInv
<1>15. ReaderInv'
  BY <1>1, <1>2, <1>6, <1>12, <1>14, SameScans
<1>16. QED
  BY <1>11, <1>12, <1>13, <1>14, <1>15 DEF IInv

\* Where a level is linked past the range, and what the store makes of it.
LEMMA BypassLinks ==
    ASSUME IInv, Bypass, NEW i, NEW lo, NEW hi, NEW b, NEW past,
           i = writer.i, lo = writer.lo, hi = writer.hi, b = writer.update[i],
           past = Beyond(b, i, hi)
    PROVE  /\ i \in Levels /\ lo \in Int /\ hi \in Int /\ lo <= hi
           /\ b \in ChainNodes(i) \cup {Header} /\ b \in Places
           /\ IsPred(KeyOf, ChainNodes(i), lo, b)
           /\ past = Null \/ (past \in ChainNodes(i) /\ hi + 1 <= KeyOf[past])
           /\ \E e \in ChainNodes(i) \cup {Header} :
                 IsPred(KeyOf, ChainNodes(i), hi + 1, e) /\ past = Links(i)[e]
           /\ next' = [next EXCEPT ![b][i] = past]
           /\ next' \in [Places -> [Levels -> Places \cup {Null, Unset}]]
           /\ \A n \in Places, j \in Levels :
                next'[n][j] = IF n = b /\ j = i THEN past ELSE next[n][j]
<1>1. /\ TypeOK /\ Sorted /\ BypassInv /\ writer.op = "bypass" /\ i <= writer.cur_level
  BY DEF IInv, ListInv, WriterInv, Bypass
<1>2. writer \in [op : {"bypass"}, lo : Keys, hi : Keys, i : 0..MaxLevel + 1,
                  cur_level : Levels, erased : 0..MaxNodes, update : [Levels -> Places]]
  BY <1>1 DEF TypeOK, Idle
<1>3. lo \in Int /\ hi \in Int /\ lo <= hi
  <2>1. lo \in Keys /\ hi \in Keys /\ <<lo, hi>> \in Ranges
    BY <1>1, <1>2 DEF BypassInv
  <2>2. lo \in Int /\ hi \in Int
    BY <2>1, KeysAssumption
  <2>3. <<lo, hi>>[1] <= <<lo, hi>>[2]
    BY <2>1, KeysAssumption
  <2>4. QED
    BY <2>2, <2>3
<1>4. i \in Levels
  <2>1. i \in 0 .. MaxLevel + 1 /\ writer.cur_level \in 0 .. MaxLevel
    BY <1>2 DEF Levels
  <2>2. QED
    BY <1>1, <2>1, BoundsAssumption DEF Levels
<1>5. b \in Places
  BY <1>2, <1>4
<1>6. IsPred(KeyOf, ChainNodes(i), lo, b)
  <2>1. i >= writer.i
    BY <1>4, LevelZero
  <2>2. QED
    BY <1>1, <1>4, <2>1 DEF BypassInv
<1>7. b \in ChainNodes(i) \cup {Header}
  BY <1>6 DEF IsPred
<1>8. PICK e \in ChainNodes(i) \cup {Header} :
              IsPred(KeyOf, ChainNodes(i), hi + 1, e) /\ past = Links(i)[e]
  BY <1>1, <1>3, <1>4, <1>6, BeyondIs
<1>9. past = Null \/ (past \in ChainNodes(i) /\ hi + 1 <= KeyOf[past])
  <2>1. ListOf(Len(node), KeyOf, Links(i), ChainNodes(i))
    BY <1>1, <1>4 DEF Sorted
  <2>2. hi + 1 \in Int
    BY <1>3
  <2>3. QED
    BY <1>8, <2>1, <2>2, SearchFinds
<1>10. past \in Places \cup {Null, Unset}
  BY <1>1, <1>4, <1>9, ChainTypes
<1>11. next \in [Places -> [Levels -> Places \cup {Null, Unset}]]
  BY <1>1 DEF TypeOK
<1>12. next' = [next EXCEPT ![b][i] = past]
  BY DEF Bypass
<1>13. PICK links : links = [next EXCEPT ![b][i] = past]
  OBVIOUS
<1>14. /\ links \in [Places -> [Levels -> Places \cup {Null, Unset}]]
       /\ \A n \in Places, j \in Levels :
             links[n][j] = IF n = b /\ j = i THEN past ELSE next[n][j]
  BY <1>4, <1>5, <1>10, <1>11, <1>13, OneStore
<1>15. QED
  BY <1>3, <1>4, <1>5, <1>6, <1>7, <1>8, <1>9, <1>12, <1>13, <1>14

LEMMA BypassChains ==
    ASSUME IInv, Bypass, NEW i, NEW lo, NEW hi, NEW b, NEW past,
           i = writer.i, lo = writer.lo, hi = writer.hi, b = writer.update[i],
           past = Beyond(b, i, hi)
    PROVE  /\ Links(i)' = [Links(i) EXCEPT ![b] = past]
           /\ ListOf(Len(node), KeyOf, Links(i)', Outside(KeyOf, ChainNodes(i), lo, hi))
           /\ ChainNodes(i)' = Outside(KeyOf, ChainNodes(i), lo, hi)
           /\ \A j \in Levels : j # i => Links(j)' = Links(j) /\ ChainNodes(j)' = ChainNodes(j)
<1>1. TypeOK /\ Sorted
  BY DEF IInv, ListInv
<1>2. /\ i \in Levels /\ lo \in Int /\ hi \in Int /\ lo <= hi /\ b \in Places
      /\ IsPred(KeyOf, ChainNodes(i), lo, b)
  BY BypassLinks
<1>3. PICK e \in ChainNodes(i) \cup {Header} :
              IsPred(KeyOf, ChainNodes(i), hi + 1, e) /\ past = Links(i)[e]
  BY BypassLinks
<1>4. \A n \in Places, j \in Levels :
         next'[n][j] = IF n = b /\ j = i THEN past ELSE next[n][j]
  BY BypassLinks
<1>5. \A j : Links(j)' = [n \in Places |-> next'[n][j]]
  BY DEF Links
<1>6. Links(i)' = [Links(i) EXCEPT ![b] = past]
  <2>1. PICK link, link2 : link = Links(i) /\ link2 = Links(i)'
    OBVIOUS
  <2>2. link \in LinkMaps /\ \A n \in Places : link[n] = next[n][i]
    BY <1>1, <1>2, <2>1, LinksType
  <2>3. link2 = [n \in Places |-> next'[n][i]]
    BY <1>5, <2>1
  <2>4. link2 = [n \in Places |-> IF n = b THEN past ELSE link[n]]
    BY <1>2, <1>4, <2>2, <2>3
  <2>5. link2 = [link EXCEPT ![b] = past]
    BY <1>2, <2>2, <2>4 DEF LinkMaps
  <2>6. QED
    BY <2>1, <2>5
<1>7. ListOf(Len(node), KeyOf, Links(i)', Outside(KeyOf, ChainNodes(i), lo, hi))
  <2>1. ListOf(Len(node), KeyOf, Links(i), ChainNodes(i))
    BY <1>1, <1>2 DEF Sorted
  <2>2. PICK N, key, link, L :
              N = Len(node) /\ key = KeyOf /\ link = Links(i) /\ L = ChainNodes(i)
    OBVIOUS
  <2>3. /\ ListOf(N, key, link, L)
        /\ IsPred(key, L, lo, b) /\ IsPred(key, L, hi + 1, e) /\ past = link[e]
    BY <1>2, <1>3, <2>1, <2>2
  <2>4. ListOf(N, key, [link EXCEPT ![b] = link[e]], Outside(key, L, lo, hi))
    BY <1>2, <2>3, BypassedList
  <2>5. Links(i)' = [link EXCEPT ![b] = link[e]]
    BY <1>6, <2>2, <2>3
  <2>6. QED
    BY <2>2, <2>4, <2>5
<1>8. ChainNodes(i)' = Outside(KeyOf, ChainNodes(i), lo, hi)
  BY <1>2, <1>7, ChainAfter
<1>9. ASSUME NEW j \in Levels, j # i
      PROVE  Links(j)' = Links(j) /\ ChainNodes(j)' = ChainNodes(j)
  <2>1. Links(j)' = Links(j)
    BY <1>2, <1>4, <1>5, <1>9 DEF Links
  <2>2. QED
    BY <2>1 DEF ChainNodes
<1>10. QED
  BY <1>6, <1>7, <1>8, <1>9

\* The range is taken out of one more level.
LEMMA BypassStep ==
    ASSUME IInv, Bypass
    PROVE  IInv' /\ OneWrite
<1>1. /\ TypeOK /\ ListInv /\ Sorted /\ Ascending /\ Unused /\ ReaderInv /\ BypassInv
      /\ writer.op = "bypass" /\ 0 \in Levels
  BY LevelZero DEF IInv, ListInv, WriterInv, Bypass
<1>2. PICK i, lo, hi, b : i = writer.i /\ lo = writer.lo /\ hi = writer.hi
                          /\ b = writer.update[i]
  OBVIOUS
<1>3. PICK past : past = Beyond(b, i, hi)
  OBVIOUS
<1>4. /\ i \in Levels /\ lo \in Int /\ hi \in Int /\ lo <= hi
      /\ b \in ChainNodes(i) \cup {Header} /\ b \in Places
      /\ IsPred(KeyOf, ChainNodes(i), lo, b)
      /\ past = Null \/ (past \in ChainNodes(i) /\ hi + 1 <= KeyOf[past])
      /\ next' \in [Places -> [Levels -> Places \cup {Null, Unset}]]
  BY <1>2, <1>3, BypassLinks
<1>5. \A n \in Places, j \in Levels :
         next'[n][j] = IF n = b /\ j = i THEN past ELSE next[n][j]
  BY <1>2, <1>3, BypassLinks
<1> DEFINE Kept(S) == Outside(KeyOf, S, lo, hi)
<1>6. /\ Links(i)' = [Links(i) EXCEPT ![b] = past]
      /\ ListOf(Len(node), KeyOf, Links(i)', Kept(ChainNodes(i)))
      /\ ChainNodes(i)' = Kept(ChainNodes(i))
  BY <1>2, <1>3, BypassChains
<1>7. \A j \in Levels : j # i => Links(j)' = Links(j) /\ ChainNodes(j)' = ChainNodes(j)
  BY <1>2, <1>3, BypassChains
<1>8. /\ node' = node /\ level_' = level_ /\ size_' = size_ /\ KeyOf' = KeyOf
      /\ writer' = [writer EXCEPT !.i = i + 1]
  BY <1>2 DEF Bypass, KeyOf
<1>9. writer \in [op : {"bypass"}, lo : Keys, hi : Keys, i : 0..MaxLevel + 1,
                  cur_level : Levels, erased : 0..MaxNodes, update : [Levels -> Places]]
  BY <1>1 DEF TypeOK, Idle
<1>10. PICK w : w = writer'
  OBVIOUS
<1>11. /\ w \in [op : {"bypass"}, lo : Keys, hi : Keys, i : 0..MaxLevel + 1,
                 cur_level : Levels, erased : 0..MaxNodes, update : [Levels -> Places]]
       /\ w.op = "bypass" /\ w.i = i + 1 /\ w.lo = lo /\ w.hi = hi
       /\ w.cur_level = writer.cur_level /\ w.erased = writer.erased
       /\ w.update = writer.update
  <2>1. i + 1 \in 0 .. MaxLevel + 1
    BY <1>4, BoundsAssumption DEF Levels
  <2>2. QED
    BY <1>2, <1>8, <1>9, <1>10, <2>1
<1>12. \A S : Kept(Kept(S)) = Kept(S)
  BY DEF Outside
<1>13. \A S : Outer(S) = Kept(S)
  BY <1>2 DEF Outer
<1>14. \A j \in Levels : Kept(ChainNodes(j)') = Kept(ChainNodes(j))
  BY <1>6, <1>7, <1>12
<1>15. \A j \in Levels : ChainNodes(j)' \subseteq ChainNodes(j)
  BY <1>6, <1>7 DEF Outside
<1> HIDE DEF Kept
<1>16. \A S : Outside(KeyOf', S, writer'.lo, writer'.hi) = Kept(S)
  BY <1>8, <1>10, <1>11 DEF Kept
<1>17. BypassInv'
  <2>1. <<writer'.lo, writer'.hi>> \in Ranges /\ writer'.cur_level = level_'
    BY <1>1, <1>2, <1>8, <1>10, <1>11 DEF BypassInv
  <2>2. ASSUME NEW j \in Levels, j < writer'.i
        PROVE  Kept(ChainNodes(j)') = ChainNodes(j)'
    <3>1. j \in Int /\ i \in Int /\ j < i + 1
      BY <1>4, <1>10, <1>11, <2>2, LevelZero
    <3>2. CASE j = i
      BY <1>6, <1>12, <3>2
    <3>3. CASE j < i
      <4>1. Kept(ChainNodes(j)) = ChainNodes(j)
        BY <1>1, <1>2, <1>13, <3>3 DEF BypassInv
      <4>2. QED
        BY <1>7, <3>1, <3>3, <4>1
    <3>4. QED
      BY <3>1, <3>2, <3>3
  <2>3. ASSUME NEW j \in Levels
        PROVE  Kept(ChainNodes(j)') = {n \in Kept(ChainNodes(0)') : node'[n].top_level >= j}
    <3>1. Kept(ChainNodes(j)) = {n \in Kept(ChainNodes(0)) : node[n].top_level >= j}
      BY <1>1, <1>13 DEF BypassInv, Tall
    <3>2. QED
      BY <1>1, <1>8, <1>14, <3>1
  <2>4. ASSUME NEW j \in Levels, j >= writer'.i
        PROVE  IsPred(KeyOf', ChainNodes(j)', writer'.lo, writer'.update[j])
    <3>1. j >= i /\ j # i
      BY <1>4, <1>10, <1>11, <2>4, LevelZero
    <3>2. IsPred(KeyOf, ChainNodes(j), lo, writer.update[j])
      BY <1>1, <1>2, <3>1 DEF BypassInv
    <3>3. QED
      BY <1>7, <1>8, <1>10, <1>11, <3>1, <3>2
  <2>5. size_' = Cardinality(Kept(ChainNodes(0)')) + writer'.erased
    <3>1. size_ = Cardinality(Kept(ChainNodes(0))) + writer.erased
      BY <1>1, <1>13 DEF BypassInv
    <3>2. QED
      BY <1>1, <1>8, <1>10, <1>11, <1>14, <3>1
  <2>6. QED
    BY <1>16, <2>1, <2>2, <2>3, <2>4, <2>5 DEF BypassInv, Outer, Tall
<1>18. WriterInv'
  BY <1>10, <1>11, <1>17 DEF WriterInv
<1>19. Sorted'
  <2>1. ASSUME NEW j \in Levels
        PROVE  /\ ListOf(Len(node), KeyOf, Links(j)', ChainNodes(j)')
               /\ \A n \in ChainNodes(j)' : j <= node[n].top_level /\ node[n].top_level <= level_
    <3>1. /\ ListOf(Len(node), KeyOf, Links(j), ChainNodes(j))
          /\ \A n \in ChainNodes(j) : j <= node[n].top_level /\ node[n].top_level <= level_
      BY <1>1 DEF Sorted
    <3>2. ListOf(Len(node), KeyOf, Links(j)', ChainNodes(j)')
      BY <1>6, <1>7, <3>1
    <3>3. QED
      BY <1>15, <3>1, <3>2
  <2>2. QED
    BY <1>8, <2>1 DEF Sorted
<1>20. CASE i # 0
  <2>1. Links(0)' = Links(0)
    BY <1>1, <1>7, <1>20
  <2>2. reader' = reader
    BY <1>2, <1>20 DEF Bypass
  <2>3. Linked' = Linked /\ Ascending' /\ Unused' /\ Present' = Present
    BY <1>1, <1>8, <2>1, SameBottom
  <2>4. ListInv'
    BY <1>19, <2>3 DEF ListInv
  <2>5. TypeOK'
    BY <1>1, <1>4, <1>8, <1>10, <1>11, <2>2 DEF TypeOK
  <2>6. ReaderInv'
    BY <1>1, <1>8, <2>1, <2>2, <2>4, <2>5, SameScans
  <2>7. QED
    BY <1>18, <2>3, <2>4, <2>5, <2>6 DEF IInv, OneWrite
<1>21. CASE i = 0
  <2>1. Null \notin Places /\ Unset \notin Places /\ Null # Unset
    BY <1>6, ListTypes
  <2>2. /\ ChainNodes(0) \subseteq Linked /\ Linked \subseteq Places
        /\ Linked \subseteq 1 .. Len(node)
        /\ \A m, n \in ChainNodes(0) : node[m].key = node[n].key => m = n
        /\ Header \notin ChainNodes(0) /\ ChainNodes(0) \subseteq Places
        /\ \A n \in ChainNodes(0) : KeyOf[n] = node[n].key /\ node[n].key \in Int
    BY <1>1, ChainLinked, ChainTypes
  <2>3. \A n \in Places : next'[n][0] = IF n = b THEN past ELSE next[n][0]
    BY <1>1, <1>5, <1>21
  <2>4. ChainNodes(0)' = Kept(ChainNodes(0)) /\ Kept(ChainNodes(0)) \subseteq ChainNodes(0)
    BY <1>1, <1>6, <1>15, <1>21
  <2>5. past # Unset
    BY <1>4, <1>21, <2>1, <2>2
  <2>6. Linked' = Linked
    <3>1. Linked' = {n \in 1 .. Len(node) : next'[n][0] # Unset}
      BY <1>8 DEF Linked
    <3>2. ASSUME NEW n \in 1 .. Len(node)
          PROVE  next'[n][0] # Unset <=> n \in Linked
      <4>1. n \in Places /\ n # Header
        BY <1>1, StateTypes DEF Header
      <4>2. CASE n = b
        BY <1>4, <1>21, <2>2, <2>3, <2>5, <4>1, <4>2
      <4>3. CASE n # b
        BY <2>3, <4>1, <4>3 DEF Linked
      <4>4. QED
        BY <4>2, <4>3
    <3>3. QED
      BY <2>2, <3>1, <3>2
  <2>7. b # Header => b \in Kept(ChainNodes(0))
    BY <1>4, <1>21 DEF IsPred, Kept, Outside
  <2>8. Ascending'
    <3>1. PICK L : L = Kept(ChainNodes(0))
      OBVIOUS
    <3>2. ListOf(Len(node), KeyOf, Links(0)', L)
      BY <1>6, <1>21, <3>1
    <3>3. Linked' = Linked \cup L
      BY <2>2, <2>4, <2>6, <3>1
    <3>4. ASSUME NEW n \in Linked' \ L
          PROVE  next'[n][0] = next[n][0]
      <4>1. n \in Places /\ n # Header
        BY <2>2, <2>6, <3>4 DEF Header
      <4>2. n # b
        BY <2>7, <3>1, <3>4, <4>1
      <4>3. QED
        BY <2>3, <4>1, <4>2
    <3>5. QED
      BY <1>1, <1>8, <3>2, <3>3, <3>4, AscendingKept
  <2>9. Unused'
    <3>1. ASSUME NEW n \in Places, n > Len(node)
          PROVE  next'[n][0] = Unset
      <4>1. n \notin 1 .. Len(node) /\ Len(node) \in Nat /\ n # 0
        BY <1>1, <3>1, StateTypes
      <4>2. n # b
        BY <1>4, <1>21, <2>2, <4>1 DEF Header
      <4>3. QED
        BY <1>1, <2>3, <3>1, <4>2 DEF Unused
    <3>2. QED
      BY <1>8, <3>1 DEF Unused
  <2>10. ListInv'
    BY <1>19, <2>8, <2>9 DEF ListInv
  <2>11. PICK gone : gone = Erased(b, hi)
    OBVIOUS
  <2>12. gone = {n \in ChainNodes(0) : lo <= node[n].key /\ node[n].key <= hi}
    BY <1>1, <1>4, <1>21, <2>11, ErasedIs
  <2>13. gone = ChainNodes(0) \ Kept(ChainNodes(0)) /\ gone \subseteq Places
    BY <1>4, <2>2, <2>12 DEF Kept, Outside
  <2>14. PICK stored : stored = {p \in Stored : ~ \E n \in gone : node[n].key = p[1]}
    OBVIOUS
  <2>15. Stored' = stored
    <3>1. Stored' = {<<node[n].key, node[n].value>> : n \in Kept(ChainNodes(0))}
      BY <1>8, <2>4 DEF Stored
    <3>2. ASSUME NEW n \in ChainNodes(0)
          PROVE  n \in Kept(ChainNodes(0)) <=> ~ \E m \in gone : node[m].key = node[n].key
      BY <2>2, <2>13
    <3>3. ASSUME NEW p \in Stored'
          PROVE  p \in stored
      <4>1. PICK n \in Kept(ChainNodes(0)) : p = <<node[n].key, node[n].value>>
        BY <3>1
      <4>2. n \in ChainNodes(0) /\ p[1] = node[n].key
        BY <2>4, <4>1
      <4>3. p \in Stored
        BY <4>1, <4>2 DEF Stored
      <4>4. QED
        BY <2>14, <3>2, <4>1, <4>2, <4>3
    <3>4. ASSUME NEW p \in stored
          PROVE  p \in Stored'
      <4>1. PICK n \in ChainNodes(0) : p = <<node[n].key, node[n].value>>
        BY <2>14 DEF Stored
      <4>2. p[1] = node[n].key
        BY <4>1
      <4>3. n \in Kept(ChainNodes(0))
        BY <2>14, <3>2, <4>2
      <4>4. QED
        BY <3>1, <4>1, <4>3
    <3>5. QED
      BY <3>3, <3>4
  <2>16. stored \in SUBSET Pairs
    <3>1. \A n \in ChainNodes(0) : <<node[n].key, node[n].value>> \in Pairs
      BY <1>1, <2>2, StateTypes DEF Pairs
    <3>2. QED
      BY <2>14, <3>1 DEF Stored
  <2>17. reader' = Watch(stored)
    BY <1>2, <1>21, <2>11, <2>14 DEF Bypass
  <2>18. /\ reader' \in [Readers -> {Away} \cup ScanType]
         /\ \A r \in Readers : Follows(reader[r], reader'[r], stored)
    BY <1>1, <2>16, <2>17, WatchFollows
  <2>19. TypeOK'
    BY <1>1, <1>4, <1>8, <1>10, <1>11, <2>18 DEF TypeOK, ScanType
  <2>20. PICK link, link2, L : link = Links(0) /\ link2 = Links(0)' /\ L = ChainNodes(0)
    OBVIOUS
  <2>21. /\ link \in LinkMaps /\ link2 = [link EXCEPT ![b] = past]
         /\ ListOf(Len(node), KeyOf, link, L)
    BY <1>1, <1>6, <1>21, <2>20, LinksType DEF Sorted
  <2>22. past \in Places \cup {Null} /\ (past \in Places => past \in Reach(link, b))
    <3>1. past \in Places \cup {Null}
      BY <1>4, <1>21, <2>2
    <3>2. ASSUME past \in Places
          PROVE  past \in Reach(link, b)
      <4>1. past \in L /\ hi + 1 <= KeyOf[past] /\ KeyOf[past] \in Int
        BY <1>4, <1>21, <2>1, <2>2, <2>20, <3>2
      <4>2. b \in L \cup {Header} /\ (b # Header => KeyOf[b] < lo /\ KeyOf[b] \in Int)
        BY <1>4, <1>21, <2>2, <2>20 DEF IsPred
      <4>3. Before(KeyOf, b, past)
        BY <1>4, <4>1, <4>2 DEF Before
      <4>4. Reach(link, b) = {b} \cup {m \in L : Before(KeyOf, b, m)}
        BY <2>21, <4>2, ReachList
      <4>5. QED
        BY <4>1, <4>3, <4>4
    <3>3. QED
      BY <3>1, <3>2
  <2>23. \A x \in gone \cup {b} : link[x] \in gone \cup {past}
    <3>1. PICK e : IsPred(KeyOf, L, hi + 1, e) /\ past = link[e]
      <4>1. \E e \in ChainNodes(i) \cup {Header} :
               IsPred(KeyOf, ChainNodes(i), hi + 1, e) /\ past = Links(i)[e]
        BY <1>2, <1>3, BypassLinks
      <4>2. QED
        BY <1>21, <2>20, <4>1
    <3>2. gone = L \ Outside(KeyOf, L, lo, hi)
      BY <2>13, <2>20 DEF Kept
    <3>3. IsPred(KeyOf, L, lo, b)
      BY <1>4, <1>21, <2>20
    <3>4. PICK N, key : N = Len(node) /\ key = KeyOf
      OBVIOUS
    <3>5. /\ ListOf(N, key, link, L) /\ IsPred(key, L, lo, b)
          /\ IsPred(key, L, hi + 1, e) /\ gone = L \ Outside(key, L, lo, hi)
      BY <2>21, <3>1, <3>2, <3>3, <3>4
    <3>6. lo \in Int /\ hi \in Int /\ lo <= hi
      BY <1>4
    <3>7. \A x \in (L \ Outside(key, L, lo, hi)) \cup {b} :
             link[x] \in (L \ Outside(key, L, lo, hi)) \cup {link[e]}
      BY <3>5, <3>6, RangeLinks
    <3>8. QED
      BY <3>1, <3>5, <3>7
  <2>24. ASSUME NEW n \in Linked
         PROVE  /\ n \in Linked' /\ node'[n].key = node[n].key
                /\ \A m \in Reach(Links(0)', n) : m \in Reach(Links(0), n) /\ node'[m] = node[m]
                /\ \A m \in Reach(Links(0), n) \cap ChainNodes(0) :
                      m \in ChainNodes(0)' => m \in Reach(Links(0)', n)
    <3>1. n \in Places
      BY <2>2
    <3>2. Reach(link2, n) \subseteq Reach(link, n)
      BY <1>4, <2>21, <2>22, <3>1, ReachShrinks
    <3>3. Reach(link, n) \ gone \subseteq Reach(link2, n)
      <4>1. /\ link[b] \in gone \cup {past}
            /\ \A x \in gone : link[x] \in gone \cup {past}
            /\ gone \in SUBSET Places
        BY <2>13, <2>23
      <4>2. QED
        BY <1>4, <2>21, <2>22, <3>1, <4>1, ReachKept
    <3>4. \A m \in ChainNodes(0)' : m \notin gone
      BY <2>4, <2>13
    <3>5. QED
      BY <1>8, <2>6, <2>20, <3>2, <3>3, <3>4
  <2>25. \A n \in ChainNodes(0), m \in ChainNodes(0)' :
            node[n].key = node'[m].key => n \in ChainNodes(0)'
    BY <1>8, <2>2, <2>4
  <2>26. ReaderInv'
    <3>1. \A r \in Readers : Follows(reader[r], reader'[r], Stored')
      BY <2>15, <2>18
    <3>2. QED
      BY <1>1, <2>10, <2>19, <2>24, <2>25, <3>1, ScansKept
  <2>27. Present' = {k \in Present : k < lo \/ k > hi}
    <3>1. Present' = {node[n].key : n \in Kept(ChainNodes(0))}
      BY <1>8, <2>4 DEF Present
    <3>2. \A n \in ChainNodes(0) : n \in Kept(ChainNodes(0)) <=> node[n].key < lo \/ node[n].key > hi
      BY <2>2 DEF Kept, Outside
    <3>3. QED
      BY <2>4, <3>1, <3>2 DEF Present
  <2>28. OneWrite
    <3>1. <<lo, hi>> \in Ranges /\ <<lo, hi>>[1] = lo /\ <<lo, hi>>[2] = hi
      BY <1>1, <1>2 DEF BypassInv
    <3>2. PICK range \in Ranges : range[1] = lo /\ range[2] = hi
      BY <3>1
    <3>3. Present' = {k \in Present : k < range[1] \/ k > range[2]}
      BY <2>27, <3>2
    <3>4. QED
      BY <3>3 DEF OneWrite
  <2>29. QED
    BY <1>18, <2>10, <2>19, <2>26, <2>28 DEF IInv
<1>22. QED
  BY <1>20, <1>21

-----------------------------------------------------------------------------
(* The theorems.                                                           *)

LEMMA InitHolds == Init => IInv
<1> SUFFICES ASSUME Init PROVE IInv
  OBVIOUS
<1>1. /\ node = <<>> /\ level_ = 0 /\ size_ = 0 /\ writer = Idle
      /\ next = [n \in Places |-> [i \in Levels |-> IF n = Header THEN Null ELSE Unset]]
      /\ reader = [r \in Readers |-> Away]
  BY DEF Init
<1>2. /\ 0 \in Levels /\ Header \in Places /\ MaxNodes \in Nat /\ Len(node) = 0
      /\ \A n \in 1 .. Len(node) : FALSE
  BY <1>1, BoundsAssumption DEF Levels, Places, Header
<1>3. TypeOK
  <2>1. /\ node \in Seq([key : Keys, value : Values \cup {Torn}, top_level : Levels])
        /\ Len(node) <= MaxNodes
    BY <1>1, <1>2
  <2>2. next \in [Places -> [Levels -> Places \cup {Null, Unset}]]
    BY <1>1
  <2>3. QED
    BY <1>1, <1>2, <2>1, <2>2 DEF TypeOK
<1>4. ASSUME NEW i \in Levels
      PROVE  ListOf(Len(node), KeyOf, Links(i), {})
  <2>1. KeyOf \in KeyMaps(Len(node)) /\ Links(i) \in LinkMaps
    BY <1>3, KeyOfType, LinksType
  <2>2. Links(i)[Header] = Null
    BY <1>1, <1>2 DEF Links
  <2>3. IsList(KeyOf, Links(i), {})
    BY <2>2 DEF IsList
  <2>4. QED
    BY <1>2, <2>1, <2>3 DEF ListOf
<1>5. \A i \in Levels : ChainNodes(i) = {}
  BY <1>4, ChainIs
<1>6. Sorted
  BY <1>4, <1>5 DEF Sorted
<1>7. Ascending
  BY <1>2 DEF Ascending, Linked
<1>8. Unused
  BY <1>1, <1>2 DEF Unused, Header
<1>9. WriterInv
  <2>1. Agree
    BY <1>2, <1>5 DEF Agree, Tall
  <2>2. Cardinality(ChainNodes(0)) = 0
    BY <1>2, <1>5, FS_EmptySet
  <2>3. QED
    BY <1>1, <2>1, <2>2 DEF WriterInv, Idle
<1>10. ReaderInv
  BY <1>1 DEF ReaderInv, ScanInv, Away
<1>11. QED
  BY <1>3, <1>6, <1>7, <1>8, <1>9, <1>10 DEF IInv, ListInv

LEMMA StutterHolds ==
    ASSUME IInv, UNCHANGED vars
    PROVE  IInv' /\ Present' = Present
<1>1. UNCHANGED <<node, next, level_, size_, writer>> /\ reader' = reader
  BY DEF vars
<1>2. ListInv' /\ WriterInv'
  BY <1>1, ListFrame DEF IInv
<1>3. TypeOK'
  BY <1>1 DEF IInv, TypeOK
<1>4. Links(0)' = Links(0)
  BY <1>1 DEF Links
<1>5. ReaderInv' /\ Present' = Present
  BY <1>1, <1>2, <1>3, <1>4, SameScans, SameBottom DEF IInv
<1>6. QED
  BY <1>2, <1>3, <1>5 DEF IInv

\* Every step keeps the invariant and shows as one write at most.
LEMMA NextHolds ==
    ASSUME IInv, [Next]_vars
    PROVE  IInv' /\ OneWrite
<1>1. ASSUME NEW key \in Keys, NEW value \in Values, PutFound(key, value)
      PROVE  IInv' /\ OneWrite
  BY <1>1, PutFoundStep DEF OneWrite
<1>2. ASSUME NEW key \in Keys, NEW value \in Values, NEW new_level \in Levels,
             PutNew(key, value, new_level)
      PROVE  IInv' /\ OneWrite
  BY <1>2, PutNewStep DEF OneWrite
<1>3. ASSUME NEW range \in Ranges, EraseRange(range[1], range[2])
      PROVE  IInv' /\ OneWrite
  BY <1>3, EraseRangeStep DEF OneWrite
<1>4. CASE Overwrite
  BY <1>4, OverwriteStep DEF OneWrite
<1>5. CASE Install
  BY <1>5, InstallStep
<1>6. CASE Bypass
  BY <1>6, BypassStep
<1>7. CASE EraseDone
  BY <1>7, EraseDoneStep DEF OneWrite
<1>8. ASSUME UNCHANGED <<node, next>>
      PROVE  OneWrite
  BY <1>8 DEF OneWrite, Present, ChainNodes, Links
<1>9. ASSUME NEW r \in Readers, NEW range \in Ranges, Call(r, range[1], range[2])
      PROVE  IInv' /\ OneWrite
  <2>1. UNCHANGED <<node, next>>
    BY <1>9 DEF Call
  <2>2. QED
    BY <1>8, <1>9, <2>1, CallStep
<1>10. ASSUME NEW r \in Readers, Read(r)
       PROVE  IInv' /\ OneWrite
  <2>1. UNCHANGED <<node, next>>
    BY <1>10 DEF Read, Visit, Load, Return
  <2>2. QED
    BY <1>8, <1>10, <2>1, VisitStep, LoadStep, ReturnStep DEF Read
<1>11. CASE UNCHANGED vars
  BY <1>11, StutterHolds DEF OneWrite
<1>12. QED
  BY <1>1, <1>2, <1>3, <1>4, <1>5, <1>6, <1>7, <1>9, <1>10, <1>11 DEF Next, Write

\* The invariant holds in every state, whatever writers and readers do.
THEOREM Inductive == Spec => []IInv
<1>1. IInv /\ [Next]_vars => IInv'
  BY NextHolds
<1>2. QED
  BY <1>1, InitHolds, PTL DEF Spec

\* Every variable stays in its type; in particular the arena never outgrows its
\* bound, size_ never goes below zero, and no reader follows a pointer that has
\* not been stored to.
THEOREM TypeCorrect == Spec => []TypeOK
<1>1. IInv => TypeOK
  BY DEF IInv
<1>2. QED
  BY <1>1, Inductive, PTL

\* Between writes the levels of the skip list agree: level i links exactly the
\* listed nodes tall enough for it, and size_ counts the list (put and
\* erase_range, skiplist.h).
THEOREM LevelsCorrect == Spec => []LevelsAgree
<1>1. IInv => LevelsAgree
  <2> SUFFICES ASSUME IInv, writer = Idle PROVE LevelsAgree
    BY DEF LevelsAgree
  <2>1. Agree /\ size_ = Cardinality(ChainNodes(0))
    BY DEF IInv, WriterInv, Idle
  <2>2. \A n \in ChainNodes(0) : node[n].top_level <= level_
    BY LevelZero DEF IInv, ListInv, Sorted
  <2>3. QED
    BY <2>1, <2>2 DEF LevelsAgree, Agree, Tall
<1>2. QED
  BY <1>1, Inductive, PTL

\* What range, get_exact and all return is regular whatever the writers do
\* meanwhile: ascending, complete for the keys that stay in the list, and made
\* of pairs that were in it at some moment of the scan.
THEOREM ScansRegular == Spec => []ScanRegular
<1>1. IInv => ScanRegular
  <2> DEFINE Regular(s) ==
               /\ \A j \in 2..Len(s.out) : s.out[j - 1][1] < s.out[j][1]
               /\ \A j \in DOMAIN s.out : s.out[j] \in s.ever
               /\ \A k \in s.always : \E j \in DOMAIN s.out : s.out[j][1] = k
  <2>1. ASSUME IInv, NEW r \in Readers, reader[r].pc = "done"
        PROVE  Regular(reader[r])
    <3>1. PICK s : s = reader[r]
      OBVIOUS
    <3>2. ScanInv(s) /\ s.pc = "done"
      BY <2>1, <3>1 DEF IInv, ReaderInv
    <3>3. Collected(s) /\ s.always \subseteq OutKeys(s)
      BY <3>2 DEF ScanInv
    <3>4. s.out \in Seq(Pairs)
      BY <2>1, <3>1, <3>2, ReaderTypes DEF IInv
    <3>5. DOMAIN s.out = 1 .. Len(s.out)
      BY <3>4
    <3>6. Regular(s)
      BY <3>3, <3>5 DEF Collected, OutKeys
    <3> HIDE DEF Regular
    <3>7. QED
      BY <3>1, <3>6
  <2>2. QED
    BY <2>1, Zenon DEF ScanRegular
<1>2. QED
  BY <1>1, Inductive, PTL

\* Readers see put and erase_range as single steps: the store that links or
\* unlinks on level 0 is the one moment the set of keys changes.
THEOREM WritesOneStep == Spec => WritesAtomic
<1>1. IInv /\ [Next]_vars => [OneWrite]_vars
  BY NextHolds
<1>2. QED
  BY <1>1, Inductive, PTL DEF Spec, WritesAtomic, OneWrite
=============================================================================
