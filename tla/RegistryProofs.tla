--------------------------- MODULE RegistryProofs ---------------------------
(***************************************************************************)
(* Theorems about the tree of nodes (Mib), that it stays a finite tree,    *)
(* that lookup finds the longest path, and that next_match, which descends *)
(* and climbs by calling itself, returns what SearchFindsFirst says; and   *)
(* about the registry of providers (Registry): what registration leaves on *)
(* the tree, and which node a GetNext is put to.                           *)
(***************************************************************************)
EXTENDS Registry, OidProofs

----------------------------------------------------------------------------
(* Adding an address to a tree, with its ancestors, leaves a tree.         *)
LEMMA AddKeepsTree ==
  ASSUME NEW T \in SUBSET OID, Root \in T, \A n \in T : Prefixes(n) \subseteq T,
         NEW A \in SUBSET OID,
         NEW U, U = T \cup UNION { Prefixes(a) : a \in A }
  PROVE  U \subseteq OID /\ Root \in U /\ \A n \in U : Prefixes(n) \subseteq U
<1>1. \A a \in A : Prefixes(a) \subseteq OID /\ Prefixes(a) \subseteq U
  BY PrefixesProperties
<1>2. ASSUME NEW n \in U PROVE Prefixes(n) \subseteq U
  <2>1. CASE n \in T
    BY <2>1
  <2>2. CASE n \in UNION { Prefixes(a) : a \in A }
    <3>1. PICK a \in A : n \in Prefixes(a)
      BY <2>2
    <3>2. Prefixes(n) \subseteq Prefixes(a)
      BY <3>1, PrefixesProperties
    <3>3. QED
      BY <3>2, <1>1
  <2>3. QED
    BY <2>1, <2>2
<1>3. U \subseteq OID
  BY <1>1
<1>4. QED
  BY <1>2, <1>3

(* A new MIB has its root.                                                 *)
LEMMA MibInitTypeOK == MibInit => MibTypeOK
<1> SUFFICES ASSUME MibInit PROVE MibTypeOK
  OBVIOUS
<1>1. Prefixes(Root) = {Root} /\ Root \in OID
  <2>1. Root \in OID
    BY DEF Root, OID
  <2>2. SubSeq(Root, 1, 0) = Root
    BY SubSeqFull, <2>1 DEF Root, OID
  <2>3. Len(Root) = 0 /\ 0..0 = {0}
    BY DEF Root
  <2>4. Prefixes(Root) = {Root}
    BY <2>2, <2>3, Zenon DEF Prefixes
  <2>5. QED
    BY <2>1, <2>4
<1>2. QED
  BY <1>1 DEF MibInit, MibTypeOK

(***************************************************************************)
(* lookup always finds a node, on the path to what it is asked for, and    *)
(* none on that path is longer.                                            *)
(***************************************************************************)
LEMMA LookupFinds ==
  ASSUME MibTypeOK, NEW oid \in OID
  PROVE  /\ Lookup(oid) \in nodes \cap Prefixes(oid)
         /\ \A m \in nodes \cap Prefixes(oid) : Len(m) <= Len(Lookup(oid))
<1> DEFINE S == nodes \cap Prefixes(oid)
           L == { Len(n) : n \in S }
<1>1. Root \in S /\ \A n \in S : Len(n) \in Nat /\ Len(n) <= Len(oid)
  BY PrefixesProperties DEF MibTypeOK, OID
<1>2. PICK l \in L : \A k \in L : k <= l
  <2>1. L \in SUBSET Nat /\ L # {} /\ \A k \in L : k <= Len(oid)
    BY <1>1
  <2>2. Len(oid) \in Nat
    BY DEF OID
  <2> HIDE DEF L
  <2>3. QED
    BY <2>1, <2>2, NatMax
<1>3. \E n \in S : \A m \in S : Len(m) <= Len(n)
  BY <1>2
<1>4. QED
  BY <1>3, Zenon DEF Lookup

----------------------------------------------------------------------------
(* A tree of nodes that have been added one by one is finite.              *)
Tree == MibTypeOK /\ IsFiniteSet(nodes)

LEMMA TreeNodes ==
  ASSUME MibTypeOK, NEW n \in nodes
  PROVE  /\ n \in OID /\ Prefixes(n) \subseteq nodes /\ n # NoNode
         /\ \A p \in OID : IsPrefix(p, n) => p \in nodes
<1>1. n \in OID /\ Prefixes(n) \subseteq nodes
  BY DEF MibTypeOK
<1>2. QED
  BY <1>1, PrefixesAre, NoNodeAssumption

(* The arcs that listChildren returns.                                     *)
LEMMA ChildrenAre ==
  ASSUME MibTypeOK, NEW n \in nodes, NEW s \in Nat
  PROVE  ListChildren(n, s) = { a \in Nat : s <= a /\ Append(n, a) \in nodes }
<1>1. ASSUME NEW a \in ListChildren(n, s) PROVE a \in Nat /\ s <= a /\ Append(n, a) \in nodes
  <2>1. PICK c \in nodes : c # Root /\ Front(c) = n /\ Last(c) >= s /\ a = c[Len(c)]
    BY DEF ListChildren
  <2>2. a = Last(c) /\ Last(c) \in Nat /\ Append(Front(c), Last(c)) = c
    BY <2>1, TreeNodes, FrontAt DEF Last
  <2>3. QED
    BY <2>1, <2>2
<1>2. ASSUME NEW a \in Nat, s <= a, Append(n, a) \in nodes PROVE a \in ListChildren(n, s)
  <2> DEFINE c == Append(n, a)
  <2>1. n \in OID /\ c \in OID /\ c # Root /\ Len(c) = Len(n) + 1 /\ Len(n) \in Nat
    BY TreeNodes, AppendAt, AtType
  <2>2. Last(c) = a /\ c[Len(c)] = a /\ Front(c) = n
    BY <2>1, FrontOfAppend DEF Last
  <2>3. QED
    BY <1>2, <2>1, <2>2 DEF ListChildren
<1>3. QED
  BY <1>1, <1>2

LEMMA LowestIs ==
  ASSUME NEW arcs \in SUBSET Nat, arcs # {}
  PROVE  Lowest(arcs) \in arcs /\ \A b \in arcs : Lowest(arcs) <= b
BY NatMin, Zenon DEF Lowest

----------------------------------------------------------------------------
(***************************************************************************)
(* What the search finds, without recursion.  From a node and a start, it  *)
(* reaches the node itself and what is below it from the start-th child    *)
(* on; then the same for each node above, from the child after the one it  *)
(* comes from.  The lowest level that reaches a match decides, and there   *)
(* the first match does.                                                   *)
(***************************************************************************)
Reach(M, p, s) == { m \in M : m = p \/ Below(p, s, m) }

StartAt(n, s, k) == IF k = Len(n) THEN s ELSE At(n, k + 1) + 1
Level(M, n, s, k) == Reach(M, Upto(n, k), StartAt(n, s, k))
Levels(M, n, s) == { k \in 0..Len(n) : Level(M, n, s, k) # {} }

FoundAt(M, n, s, k) ==
  /\ k \in Levels(M, n, s)
  /\ \A j \in Levels(M, n, s) : j <= k

Found(M, n, s) ==
  IF Levels(M, n, s) = {} THEN NoNode
  ELSE LexFirst(Level(M, n, s, CHOOSE k \in 0..Len(n) : FoundAt(M, n, s, k)), NoNode)

(* The first of what a level reaches, if it reaches anything.              *)
LEMMA ReachFirst ==
  ASSUME Tree, NEW M \in SUBSET nodes, NEW p, NEW s, Reach(M, p, s) # {}
  PROVE  /\ LexFirst(Reach(M, p, s), NoNode) \in Reach(M, p, s)
         /\ \A b \in Reach(M, p, s) : LexLeq(LexFirst(Reach(M, p, s), NoNode), b)
<1>1. Reach(M, p, s) \subseteq nodes /\ nodes \subseteq OID /\ IsFiniteSet(nodes)
  BY DEF Tree, MibTypeOK, Reach
<1>2. IsFiniteSet(Reach(M, p, s)) /\ Reach(M, p, s) \in SUBSET OID
  BY <1>1, FS_Subset
<1>3. QED
  BY <1>2, LexFirstExists

LEMMA FoundNone ==
  ASSUME Tree, NEW M \in SUBSET nodes, NEW n \in nodes, NEW s \in Nat
  PROVE  \/ Levels(M, n, s) = {} /\ Found(M, n, s) = NoNode
         \/ \E k \in 0..Len(n) : /\ FoundAt(M, n, s, k)
                                 /\ Found(M, n, s) = LexFirst(Level(M, n, s, k), NoNode)
                                 /\ Found(M, n, s) \in Level(M, n, s, k)
                                 /\ Found(M, n, s) # NoNode
<1>1. CASE Levels(M, n, s) = {}
  BY <1>1 DEF Found
<1>2. CASE Levels(M, n, s) # {}
  <2> DEFINE k == CHOOSE k \in 0..Len(n) : FoundAt(M, n, s, k)
  <2>1. Len(n) \in Nat
    BY TreeNodes, AtType DEF Tree
  <2>2. \E i \in Levels(M, n, s) : \A j \in Levels(M, n, s) : j <= i
    <3>1. Levels(M, n, s) \in SUBSET Nat /\ \A j \in Levels(M, n, s) : j <= Len(n)
      BY <2>1 DEF Levels
    <3>2. QED
      BY <1>2, <2>1, <3>1, NatMax
  <2>3. \E i \in 0..Len(n) : FoundAt(M, n, s, i)
    BY <2>2 DEF FoundAt, Levels
  <2>4. k \in 0..Len(n) /\ FoundAt(M, n, s, k)
    BY <2>3, Zenon
  <2>5. Found(M, n, s) = LexFirst(Level(M, n, s, k), NoNode)
    BY <1>2, Zenon DEF Found
  <2> HIDE DEF k
  <2>6. Level(M, n, s, k) # {}
    BY <2>4 DEF FoundAt, Levels
  <2>7. Found(M, n, s) \in Level(M, n, s, k)
    BY <2>5, <2>6, ReachFirst DEF Level
  <2>8. Found(M, n, s) \in nodes
    BY <2>7 DEF Level, Reach
  <2>9. QED
    BY <2>4, <2>5, <2>7, <2>8, TreeNodes DEF Tree
<1>3. QED
  BY <1>1, <1>2

(* Two searches that reach the same on the same levels find the same.      *)
LEMMA SameLevels ==
  ASSUME Tree, NEW M \in SUBSET nodes, NEW n \in nodes, NEW s \in Nat,
         NEW o \in nodes, NEW t \in Nat, Levels(M, n, s) = Levels(M, o, t),
         \A k \in Levels(M, n, s) : Level(M, n, s, k) = Level(M, o, t, k)
  PROVE  Found(M, n, s) = Found(M, o, t)
<1>1. Len(n) \in Nat /\ Len(o) \in Nat
  BY TreeNodes, AtType DEF Tree
<1>2. CASE Levels(M, n, s) = {}
  BY <1>2 DEF Found
<1>3. CASE Levels(M, n, s) # {}
  <2>1. PICK k \in 0..Len(n) : /\ FoundAt(M, n, s, k)
                               /\ Found(M, n, s) = LexFirst(Level(M, n, s, k), NoNode)
    BY <1>3, FoundNone
  <2>2. PICK j \in 0..Len(o) : /\ FoundAt(M, o, t, j)
                               /\ Found(M, o, t) = LexFirst(Level(M, o, t, j), NoNode)
    BY <1>3, FoundNone
  <2>3. k \in Levels(M, n, s) /\ j \in Levels(M, n, s) /\ k <= j /\ j <= k
    BY <2>1, <2>2 DEF FoundAt
  <2>4. k = j
    BY <1>1, <2>3
  <2>5. QED
    BY <2>1, <2>2, <2>3, <2>4
<1>4. QED
  BY <1>2, <1>3

(* A whole identifier is its own last prefix, and a shorter one of its     *)
(* prefixes is one of its parent's.                                        *)
LEMMA UptoWhole ==
  ASSUME NEW n \in OID
  PROVE  /\ Upto(n, Len(n)) = n
         /\ n # Root => \A k \in 0..(Len(n) - 1) : Upto(Front(n), k) = Upto(n, k)
<1>1. Len(n) \in Nat
  BY AtType
<1>2. Upto(n, Len(n)) = n
  <2>1. \A k \in Pos : At(Upto(n, Len(n)), k) = At(n, k)
    BY <1>1, UptoAt, AtType DEF Pos
  <2>2. QED
    BY <1>1, <2>1, UptoAt, AtEqual
<1>3. ASSUME n # Root, NEW k \in 0..(Len(n) - 1) PROVE Upto(Front(n), k) = Upto(n, k)
  <2>1. /\ Front(n) \in OID /\ Len(Front(n)) = Len(n) - 1
        /\ \A j \in Pos : At(Front(n), j) = IF j < Len(n) THEN At(n, j) ELSE -1
    BY <1>3, FrontAt
  <2>2. k \in 0..Len(n) /\ k \in 0..Len(Front(n))
    BY <1>1, <1>3, <2>1
  <2>3. \A j \in Pos : At(Upto(Front(n), k), j) = At(Upto(n, k), j)
    BY <1>1, <2>1, <2>2, UptoAt DEF Pos
  <2>4. QED
    BY <2>1, <2>2, <2>3, UptoAt, AtEqual
<1>4. QED
  BY <1>2, <1>3

LEMMA FrontInTree ==
  ASSUME MibTypeOK, NEW n \in nodes, n # Root
  PROVE  Front(n) \in nodes /\ Last(n) \in Nat /\ Last(n) + 1 \in Nat
BY TreeNodes, FrontAt

(* A match at or below the node itself, from the start on, decides.        *)
LEMMA FoundHere ==
  ASSUME Tree, NEW M \in SUBSET nodes, NEW n \in nodes, NEW s \in Nat,
         Reach(M, n, s) # {}
  PROVE  Found(M, n, s) = LexFirst(Reach(M, n, s), NoNode)
<1>1. Len(n) \in Nat /\ Upto(n, Len(n)) = n
  BY TreeNodes, AtType, UptoWhole DEF Tree
<1>2. Level(M, n, s, Len(n)) = Reach(M, n, s)
  BY <1>1 DEF Level, StartAt
<1>3. Len(n) \in Levels(M, n, s)
  BY <1>1, <1>2 DEF Levels
<1>4. PICK k \in 0..Len(n) : /\ FoundAt(M, n, s, k)
                             /\ Found(M, n, s) = LexFirst(Level(M, n, s, k), NoNode)
  BY <1>3, FoundNone
<1>5. k = Len(n)
  BY <1>1, <1>3, <1>4 DEF FoundAt
<1>6. QED
  BY <1>2, <1>4, <1>5

(* Without one, the search goes on above it, after it.                     *)
LEMMA FoundAbove ==
  ASSUME Tree, NEW M \in SUBSET nodes, NEW n \in nodes, NEW s \in Nat,
         Reach(M, n, s) = {}
  PROVE  /\ n = Root => Found(M, n, s) = NoNode
         /\ n # Root => Found(M, n, s) = Found(M, Front(n), Last(n) + 1)
<1>1. Len(n) \in Nat /\ Upto(n, Len(n)) = n /\ n \in OID
  BY TreeNodes, AtType, UptoWhole DEF Tree
<1>2. Level(M, n, s, Len(n)) = {}
  BY <1>1 DEF Level, StartAt
<1>3. ASSUME n = Root PROVE Found(M, n, s) = NoNode
  <2>1. 0..Len(n) = {0} /\ Len(n) = 0
    BY <1>3 DEF Root
  <2>2. Levels(M, n, s) = {}
    BY <1>2, <2>1 DEF Levels
  <2>3. QED
    BY <2>2 DEF Found
<1>4. ASSUME n # Root PROVE Found(M, n, s) = Found(M, Front(n), Last(n) + 1)
  <2> DEFINE f == Front(n)
             t == Last(n) + 1
  <2>1. f \in nodes /\ t \in Nat
    BY <1>4, FrontInTree DEF Tree
  <2>2. /\ Len(f) = Len(n) - 1 /\ Last(n) = At(n, Len(n)) /\ Len(n) > 0
        /\ \A k \in Pos : At(f, k) = IF k < Len(n) THEN At(n, k) ELSE -1
    BY <1>1, <1>4, FrontAt
  <2>3. ASSUME NEW k \in 0..Len(f) PROVE Level(M, n, s, k) = Level(M, f, t, k)
    <3>1. Upto(f, k) = Upto(n, k)
      BY <1>1, <1>4, <2>2, UptoWhole
    <3>2. StartAt(n, s, k) = StartAt(f, t, k)
      BY <1>1, <2>2 DEF StartAt, Pos
    <3>3. QED
      BY <3>1, <3>2 DEF Level
  <2>4. Levels(M, n, s) = Levels(M, f, t)
    <3>1. 0..Len(n) = (0..Len(f)) \cup {Len(n)}
      BY <1>1, <2>2
    <3>2. QED
      BY <1>2, <2>3, <3>1 DEF Levels
  <2>5. \A k \in Levels(M, n, s) : Level(M, n, s, k) = Level(M, f, t, k)
    BY <2>3, <2>4 DEF Levels
  <2> HIDE DEF f, t
  <2>6. Found(M, n, s) = Found(M, f, t)
    BY <2>1, <2>4, <2>5, SameLevels
  <2>7. QED
    BY <2>6 DEF f, t
<1>5. QED
  BY <1>3, <1>4

(* Where nothing matches, it does not matter from where the search began.  *)
LEMMA FoundAnyStart ==
  ASSUME Tree, NEW M \in SUBSET nodes, NEW n \in nodes, NEW s \in Nat, NEW t \in Nat,
         Reach(M, n, s) = {}, Reach(M, n, t) = {}
  PROVE  Found(M, n, s) = Found(M, n, t)
<1>1. CASE n = Root
  BY <1>1, FoundAbove
<1>2. CASE n # Root
  BY <1>2, FoundAbove
<1>3. QED
  BY <1>1, <1>2

(* Below, position by position.                                            *)
LEMMA BelowAt ==
  ASSUME NEW p \in OID, NEW s \in Nat, NEW m \in OID
  PROVE  Below(p, s, m) <=> /\ \A j \in 1..Len(p) : At(m, j) = At(p, j)
                            /\ At(m, Len(p) + 1) >= s
BY PrefixAt DEF Below

(* The children of a node share out what lies below it.                    *)
LEMMA ChildReach ==
  ASSUME MibTypeOK, NEW M \in SUBSET nodes, NEW n \in nodes, n \notin M, NEW s \in Nat
  PROVE  /\ \A a \in ListChildren(n, s) :
              /\ Append(n, a) \in nodes /\ a \in Nat /\ a >= s
              /\ \A m : m \in Reach(M, Append(n, a), 0) <=> m \in Reach(M, n, s) /\ At(m, Len(n) + 1) = a
         /\ \A m \in Reach(M, n, s) : /\ At(m, Len(n) + 1) \in ListChildren(n, s)
                                      /\ m \in OID
         /\ \A t \in Nat : t >= s =>
              \A m : m \in Reach(M, n, t) <=> m \in Reach(M, n, s) /\ At(m, Len(n) + 1) >= t
<1>1. n \in OID /\ Len(n) \in Nat /\ M \subseteq OID
  BY TreeNodes, AtType DEF MibTypeOK
<1>2. Len(n) + 1 \in Pos
  BY <1>1 DEF Pos
<1>3. \A t \in Nat, m \in M : m \in Reach(M, n, t) <=> /\ \A j \in 1..Len(n) : At(m, j) = At(n, j)
                                                       /\ At(m, Len(n) + 1) >= t
  BY <1>1, BelowAt DEF Reach
<1>4. ASSUME NEW a \in ListChildren(n, s)
      PROVE  /\ Append(n, a) \in nodes /\ a \in Nat /\ a >= s
             /\ \A m : m \in Reach(M, Append(n, a), 0) <=> m \in Reach(M, n, s) /\ At(m, Len(n) + 1) = a
  <2> DEFINE c == Append(n, a)
  <2>1. c \in nodes /\ a \in Nat /\ s <= a
    BY <1>4, ChildrenAre
  <2>2. /\ c \in OID /\ Len(c) = Len(n) + 1
        /\ \A k \in Pos : At(c, k) = IF k <= Len(n) THEN At(n, k)
                                     ELSE IF k = Len(n) + 1 THEN a ELSE -1
    BY <1>1, <2>1, AppendAt
  <2> HIDE DEF c
  <2>3. ASSUME NEW m \in M
        PROVE  m \in Reach(M, c, 0) <=> m \in Reach(M, n, s) /\ At(m, Len(n) + 1) = a
    <3>1. m \in OID /\ \A k \in Pos : At(m, k) \in Int /\ At(m, k) >= -1
      BY <1>1, AtType DEF Pos, At, OID
    <3>2. (\A j \in 1..Len(c) : At(m, j) = At(c, j))
             <=> (\A j \in 1..Len(n) : At(m, j) = At(n, j)) /\ At(m, Len(n) + 1) = a
      BY <1>1, <2>2 DEF Pos
    <3>3. ASSUME m \in Reach(M, c, 0)
          PROVE  m \in Reach(M, n, s) /\ At(m, Len(n) + 1) = a
      <4>1. \A j \in 1..Len(c) : At(m, j) = At(c, j)
        BY <2>2, <3>1, <3>3, BelowAt DEF Reach
      <4>2. QED
        BY <1>3, <2>1, <3>2, <4>1
    <3>4. ASSUME m \in Reach(M, n, s), At(m, Len(n) + 1) = a
          PROVE  m \in Reach(M, c, 0)
      <4>1. \A j \in 1..Len(c) : At(m, j) = At(c, j)
        BY <1>3, <3>2, <3>4
      <4>2. CASE At(m, Len(c) + 1) >= 0
        BY <2>2, <3>1, <4>1, <4>2, BelowAt DEF Reach
      <4>3. CASE At(m, Len(c) + 1) < 0
        <5>1. Len(m) \in Nat /\ ~ (Len(c) + 1 <= Len(m))
          BY <1>1, <2>2, <3>1, <4>3, AtType DEF Pos
        <5>2. IsPrefix(c, m) /\ Len(c) <= Len(m)
          BY <2>2, <3>1, <4>1, PrefixAt
        <5>3. c = m
          BY <1>1, <2>2, <3>1, <5>1, <5>2, PrefixAt
        <5>4. QED
          BY <5>3 DEF Reach
      <4>4. QED
        BY <1>1, <2>2, <3>1, <4>2, <4>3 DEF Pos
    <3>5. QED
      BY <3>3, <3>4
  <2>4. Reach(M, c, 0) \subseteq M /\ Reach(M, n, s) \subseteq M
    BY DEF Reach
  <2>5. \A m : m \in Reach(M, c, 0) <=> m \in Reach(M, n, s) /\ At(m, Len(n) + 1) = a
    BY <2>3, <2>4
  <2>6. QED
    BY <2>1, <2>5 DEF c
<1>5. ASSUME NEW m \in Reach(M, n, s) PROVE At(m, Len(n) + 1) \in ListChildren(n, s) /\ m \in OID
  <2> DEFINE a == At(m, Len(n) + 1)
             c == Append(n, a)
  <2>1. m \in M /\ m \in nodes /\ m \in OID
    BY <1>1 DEF Reach
  <2>2. (\A j \in 1..Len(n) : At(m, j) = At(n, j)) /\ a >= s /\ a \in Int
    BY <1>2, <1>3, <2>1, AtType
  <2>3. a \in Nat
    BY <2>2
  <2> HIDE DEF a
  <2>4. /\ c \in OID /\ Len(c) = Len(n) + 1
        /\ \A k \in Pos : At(c, k) = IF k <= Len(n) THEN At(n, k)
                                     ELSE IF k = Len(n) + 1 THEN a ELSE -1
    BY <1>1, <2>3, AppendAt
  <2>5. \A j \in 1..Len(c) : At(m, j) = At(c, j)
    <3> HIDE DEF c
    <3>1. QED
      BY <1>1, <2>2, <2>4 DEF Pos, a
  <2>6. IsPrefix(c, m)
    BY <2>1, <2>4, <2>5, PrefixAt
  <2>7. c \in nodes
    BY <2>1, <2>4, <2>6, TreeNodes
  <2>8. a \in ListChildren(n, s)
    BY <2>2, <2>3, <2>7, ChildrenAre
  <2>9. QED
    BY <2>1, <2>8 DEF a
<1>6. ASSUME NEW t \in Nat, t >= s
      PROVE  \A m : m \in Reach(M, n, t) <=> m \in Reach(M, n, s) /\ At(m, Len(n) + 1) >= t
  <2>1. \A m \in M : At(m, Len(n) + 1) \in Int
    BY <1>1, <1>2, AtType
  <2>2. \A m \in M : m \in Reach(M, n, t) <=> m \in Reach(M, n, s) /\ At(m, Len(n) + 1) >= t
    BY <1>3, <1>6, <2>1
  <2>3. Reach(M, n, t) \subseteq M /\ Reach(M, n, s) \subseteq M
    BY DEF Reach
  <2>4. QED
    BY <2>2, <2>3
<1>7. QED
  BY <1>4, <1>5, <1>6

(***************************************************************************)
(* A child's search: what is in its subtree, or else whatever the search   *)
(* from the next child on would find, here or above.                       *)
(***************************************************************************)
LEMMA ChildFound ==
  ASSUME Tree, NEW M \in SUBSET nodes, NEW n \in nodes, n \notin M, NEW s \in Nat,
         NEW a \in ListChildren(n, s)
  PROVE  IF Reach(M, Append(n, a), 0) # {}
           THEN Found(M, Append(n, a), 0) = LexFirst(Reach(M, Append(n, a), 0), NoNode)
           ELSE Found(M, Append(n, a), 0) = Found(M, n, a + 1)
<1> DEFINE c == Append(n, a)
<1>1. c \in nodes /\ a \in Nat /\ n \in OID
  BY ChildReach, TreeNodes DEF Tree
<1>2. c # Root /\ Front(c) = n /\ Last(c) = a
  BY <1>1, AppendAt, FrontOfAppend
<1> HIDE DEF c
<1>3. CASE Reach(M, c, 0) # {}
  BY <1>1, <1>3, FoundHere DEF c
<1>4. CASE Reach(M, c, 0) = {}
  <2>1. Found(M, c, 0) = Found(M, Front(c), Last(c) + 1)
    BY <1>1, <1>2, <1>4, FoundAbove
  <2>2. QED
    BY <1>2, <1>4, <2>1 DEF c
<1>5. QED
  BY <1>3, <1>4

(* The first of a set of identifiers is the first of a part that holds it. *)
LEMMA FirstOfPart ==
  ASSUME NEW S \in SUBSET OID, NEW P \in SUBSET S, NEW none, NEW m \in P,
         \A b \in S : LexLeq(m, b)
  PROVE  LexFirst(P, none) = m
BY LexFirstIs

(* Of two identifiers below the same node, the first has the smaller arc.  *)
LEMMA FirstArc ==
  ASSUME Tree, NEW M \in SUBSET nodes, NEW n \in nodes, n \notin M, NEW s \in Nat,
         NEW m \in Reach(M, n, s), NEW b \in Reach(M, n, s), LexLeq(m, b)
  PROVE  At(m, Len(n) + 1) <= At(b, Len(n) + 1)
<1>1. n \in OID /\ Len(n) \in Nat /\ M \subseteq OID
  BY TreeNodes, AtType DEF MibTypeOK, Tree
<1>2. m \in OID /\ b \in OID /\ Len(n) + 1 \in Pos
  BY <1>1 DEF Reach, Pos
<1>3. \A j \in 1..Len(n) : At(m, j) = At(n, j) /\ At(b, j) = At(n, j)
  BY <1>1, <1>2, BelowAt DEF Reach
<1>4. \A j \in Pos : At(m, j) \in Int /\ At(b, j) \in Int
  BY <1>2, AtType
<1>5. CASE m = b
  BY <1>2, <1>4, <1>5
<1>6. CASE LexLess(m, b)
  <2>1. PICK k \in Pos : (\A j \in 1..(k - 1) : At(m, j) = At(b, j)) /\ At(m, k) < At(b, k)
    BY <1>2, <1>6, LexAt
  <2>2. k >= Len(n) + 1
    BY <1>1, <1>3, <1>4, <2>1 DEF Pos
  <2>3. QED
    BY <1>1, <1>2, <1>4, <2>1, <2>2 DEF Pos
<1>7. QED
  BY <1>5, <1>6 DEF LexLeq

(***************************************************************************)
(* What the search finds satisfies the equation of one call.               *)
(***************************************************************************)
FoundFunction(M) == [at \in nodes \X Nat |-> Found(M, at[1], at[2])]

LEMMA FoundEquation ==
  ASSUME Tree, NEW M \in SUBSET nodes, NEW n \in nodes, NEW s \in Nat
  PROVE  Found(M, n, s) = SearchStep(M, FoundFunction(M), n, s)
<1> DEFINE F == FoundFunction(M)
           found == { a \in ListChildren(n, s) : F[<<Append(n, a), 0>>] # NoNode }
<1>1. n \in OID /\ Len(n) \in Nat /\ MibTypeOK
  BY TreeNodes, AtType DEF Tree
<1>2. \A o \in nodes, t \in Nat : F[<<o, t>>] = Found(M, o, t)
  BY DEF FoundFunction
<1> HIDE DEF F
<1>3. CASE n \in M
  <2>1. n \in Reach(M, n, s) /\ Reach(M, n, s) \in SUBSET OID
    BY <1>1, <1>3 DEF Reach, MibTypeOK
  <2>2. \A b \in Reach(M, n, s) : LexLeq(n, b)
    BY <1>1 DEF Reach, Below, LexLeq, LexLess, IsStrictPrefix
  <2>3. LexFirst(Reach(M, n, s), NoNode) = n
    BY <2>1, <2>2, LexFirstIs
  <2>4. QED
    BY <1>3, <2>1, <2>3, FoundHere DEF SearchStep
<1>4. CASE n \notin M
  <2>1. \A a \in ListChildren(n, s) :
           /\ Append(n, a) \in nodes /\ a \in Nat /\ a >= s
           /\ \A m : m \in Reach(M, Append(n, a), 0) <=> m \in Reach(M, n, s) /\ At(m, Len(n) + 1) = a
           /\ F[<<Append(n, a), 0>>] = Found(M, Append(n, a), 0)
    <3>1. \A a \in ListChildren(n, s) :
             /\ Append(n, a) \in nodes /\ a \in Nat /\ a >= s
             /\ \A m : m \in Reach(M, Append(n, a), 0) <=> m \in Reach(M, n, s) /\ At(m, Len(n) + 1) = a
      BY <1>1, <1>4, ChildReach
    <3>2. QED
      BY <1>2, <3>1
  <2>2. found \in SUBSET Nat
    BY <2>1
  <2>3. \A a \in ListChildren(n, s) : a \in Nat /\ a >= s
    BY <2>1
  <2>4. found # {} => /\ Lowest(found) \in found
                      /\ \A b \in found : Lowest(found) <= b
    <3> HIDE DEF found
    <3>1. QED
      BY <2>2, LowestIs
  <2>5. CASE Reach(M, n, s) # {}
    <3> DEFINE m == LexFirst(Reach(M, n, s), NoNode)
               arc == At(m, Len(n) + 1)
    <3>1. /\ m \in Reach(M, n, s) /\ \A b \in Reach(M, n, s) : LexLeq(m, b)
          /\ Found(M, n, s) = m
      BY <2>5, ReachFirst, FoundHere
    <3> HIDE DEF m
    <3>2. Reach(M, n, s) \in SUBSET OID /\ m # NoNode
      BY <1>1, <3>1, TreeNodes DEF Reach, MibTypeOK
    <3>3. arc \in ListChildren(n, s)
      BY <1>1, <1>4, <3>1, ChildReach
    <3>4. ASSUME NEW a \in ListChildren(n, s), a <= arc PROVE F[<<Append(n, a), 0>>] = m
      <4>1. CASE a = arc
        <5>1. /\ Reach(M, Append(n, a), 0) \in SUBSET Reach(M, n, s)
              /\ m \in Reach(M, Append(n, a), 0)
          BY <2>1, <3>1, <3>4, <4>1
        <5>2. LexFirst(Reach(M, Append(n, a), 0), NoNode) = m
          BY <3>1, <3>2, <5>1, FirstOfPart
        <5>3. QED
          BY <1>4, <2>1, <3>4, <5>1, <5>2, ChildFound
      <4>2. CASE a # arc
        <5>1. Reach(M, Append(n, a), 0) = {}
          <6> SUFFICES ASSUME NEW b \in Reach(M, Append(n, a), 0) PROVE FALSE
            OBVIOUS
          <6>1. b \in Reach(M, n, s) /\ At(b, Len(n) + 1) = a
            BY <2>1, <3>4
          <6>2. arc <= a
            BY <1>4, <3>1, <6>1, FirstArc
          <6>3. QED
            <7>1. a \in Nat /\ arc \in Nat
              BY <2>3, <3>3, <3>4
            <7> HIDE DEF arc
            <7>2. QED
              BY <3>4, <4>2, <6>2, <7>1
        <5>2. F[<<Append(n, a), 0>>] = Found(M, n, a + 1)
          BY <1>4, <2>1, <3>4, <5>1, ChildFound
        <5>3. a \in Nat /\ arc \in Nat /\ a + 1 <= arc /\ a + 1 >= s /\ a + 1 \in Nat
          <6>1. a \in Nat /\ arc \in Nat /\ a >= s
            BY <2>3, <3>3, <3>4
          <6> HIDE DEF arc
          <6>2. QED
            BY <3>4, <4>2, <6>1
        <5>4. \A b : b \in Reach(M, n, a + 1) <=> b \in Reach(M, n, s) /\ At(b, Len(n) + 1) >= a + 1
          <6> DEFINE t == a + 1
          <6>1. t \in Nat /\ t >= s
            BY <5>3
          <6> HIDE DEF t
          <6>2. \A b : b \in Reach(M, n, t) <=> b \in Reach(M, n, s) /\ At(b, Len(n) + 1) >= t
            BY <1>1, <1>4, <6>1, ChildReach
          <6>3. QED
            BY <6>2 DEF t
        <5>5. m \in Reach(M, n, a + 1) /\ Reach(M, n, a + 1) \in SUBSET Reach(M, n, s)
          BY <3>1, <5>3, <5>4
        <5>6. Found(M, n, a + 1) = m
          <6>1. LexFirst(Reach(M, n, a + 1), NoNode) = m
            BY <3>1, <3>2, <5>5, FirstOfPart
          <6>2. QED
            BY <5>3, <5>5, <6>1, FoundHere
        <5>7. QED
          BY <5>2, <5>6
      <4>3. QED
        BY <4>1, <4>2
    <3>5. arc \in found /\ Lowest(found) <= arc /\ Lowest(found) \in ListChildren(n, s)
      <4>1. arc <= arc
        <5>1. arc \in Nat
          BY <2>3, <3>3
        <5> HIDE DEF arc
        <5>2. QED
          BY <5>1
      <4>2. arc \in found
        BY <3>2, <3>3, <3>4, <4>1
      <4>3. QED
        BY <2>4, <4>2
    <3>6. F[<<Append(n, Lowest(found)), 0>>] = m
      <4> HIDE DEF found
      <4>1. QED
        BY <3>4, <3>5
    <3>7. QED
      BY <1>4, <3>1, <3>5, <3>6 DEF SearchStep, F
  <2>6. CASE Reach(M, n, s) = {}
    <3>1. ASSUME NEW a \in ListChildren(n, s)
          PROVE  F[<<Append(n, a), 0>>] = Found(M, n, s)
      <4>1. Reach(M, Append(n, a), 0) = {}
        BY <2>1, <2>6
      <4>2. a + 1 \in Nat /\ a + 1 >= s
        BY <2>3
      <4>3. Reach(M, n, a + 1) = {}
        BY <1>1, <1>4, <2>6, <4>2, ChildReach
      <4>4. Found(M, n, a + 1) = Found(M, n, s)
        BY <2>6, <4>2, <4>3, FoundAnyStart
      <4>5. QED
        BY <1>4, <2>1, <4>1, <4>4, ChildFound
    <3>2. CASE found # {}
      <4>1. F[<<Append(n, Lowest(found)), 0>>] = Found(M, n, s)
        BY <2>4, <3>1, <3>2
      <4>2. QED
        BY <1>4, <3>2, <4>1 DEF SearchStep, F
    <3>3. CASE found = {}
      <4>1. n = Root => Found(M, n, s) = NoNode
        BY <2>6, FoundAbove
      <4>2. n # Root => Found(M, n, s) = F[<<Front(n), Last(n) + 1>>]
        BY <1>1, <1>2, <2>6, FoundAbove, FrontInTree
      <4>3. QED
        BY <1>4, <3>3, <4>1, <4>2 DEF SearchStep, F
    <3>4. QED
      BY <3>2, <3>3
  <2>7. QED
    BY <2>5, <2>6
<1>5. QED
  BY <1>3, <1>4

(***************************************************************************)
(* One call depends only on what its own calls return.                     *)
(***************************************************************************)
LEMMA SameCalls ==
  ASSUME MibTypeOK, NEW M, NEW n \in nodes, NEW s \in Nat, NEW g, NEW h,
         \A a \in ListChildren(n, s) : g[<<Append(n, a), 0>>] = h[<<Append(n, a), 0>>],
         n # Root => g[<<Front(n), Last(n) + 1>>] = h[<<Front(n), Last(n) + 1>>]
  PROVE  SearchStep(M, g, n, s) = SearchStep(M, h, n, s)
<1> DEFINE found == { a \in ListChildren(n, s) : g[<<Append(n, a), 0>>] # NoNode }
<1>1. found = { a \in ListChildren(n, s) : h[<<Append(n, a), 0>>] # NoNode }
  OBVIOUS
<1>2. CASE found = {}
  BY <1>1, <1>2 DEF SearchStep
<1>3. CASE found # {}
  <2>1. found \in SUBSET Nat
    BY ChildrenAre
  <2>2. Lowest(found) \in found
    <3> HIDE DEF found
    <3>1. QED
      BY <1>3, <2>1, LowestIs
  <2>3. g[<<Append(n, Lowest(found)), 0>>] = h[<<Append(n, Lowest(found)), 0>>]
    BY <2>2
  <2>4. QED
    BY <1>1, <1>3, <2>3 DEF SearchStep
<1>4. QED
  BY <1>2, <1>3

(***************************************************************************)
(* What is left to search from the start-th child of a node on, and that   *)
(* every call leaves less of it, or as much from a shorter address.        *)
(***************************************************************************)
Left(n, s) == { x \in nodes : LexLeq(Append(n, s), x) }

LEMMA LeqTransitive ==
  ASSUME NEW a \in OID, NEW b \in OID, NEW c \in OID, LexLeq(a, b), LexLeq(b, c)
  PROVE  LexLeq(a, c)
BY LexTransitive DEF LexLeq

LEMMA LeftShrinks ==
  ASSUME Tree, NEW n \in nodes, NEW s \in Nat
  PROVE  /\ Cardinality(Left(n, s)) \in Nat
         /\ \A a \in ListChildren(n, s) :
              Cardinality(Left(Append(n, a), 0)) < Cardinality(Left(n, s))
         /\ n # Root => Cardinality(Left(Front(n), Last(n) + 1)) <= Cardinality(Left(n, s))
<1>1. /\ n \in OID /\ Len(n) \in Nat /\ MibTypeOK /\ nodes \subseteq OID
      /\ Append(n, s) \in OID
  BY TreeNodes, AtType, AppendAt DEF Tree, MibTypeOK
<1>2. IsFiniteSet(Left(n, s)) /\ Cardinality(Left(n, s)) \in Nat
  BY FS_Subset, FS_CardinalityType DEF Left, Tree
<1>3. ASSUME NEW o \in OID, LexLess(Append(n, s), o),
             NEW S, S = { x \in nodes : LexLeq(o, x) }
      PROVE  S \subseteq Left(n, s)
  BY <1>1, <1>3, LeqTransitive DEF Left, LexLeq
<1>4. ASSUME NEW a \in ListChildren(n, s)
      PROVE  Cardinality(Left(Append(n, a), 0)) < Cardinality(Left(n, s))
  <2> DEFINE c == Append(n, a)
             d == Append(c, 0)
  <2>1. a \in Nat /\ a >= s /\ c \in nodes /\ c \in OID
    BY <1>1, ChildrenAre DEF Tree
  <2>2. LexLeq(Append(n, s), c)
    <3>1. \A j \in 1..Len(n) : At(c, j) = At(n, j)
      BY <1>1, <2>1, AppendAt DEF Pos
    <3>2. At(c, Len(n) + 1) >= s
      BY <1>1, <2>1, AppendAt DEF Pos
    <3>3. Below(n, s, c)
      BY <1>1, <2>1, <3>1, <3>2, BelowAt
    <3>4. QED
      BY <1>1, <2>1, <3>3, FromChildOn
  <2> HIDE DEF c
  <2>3. d \in OID /\ LexLess(c, d)
    <3>1. d \in OID /\ Len(c) \in Nat /\ Len(d) = Len(c) + 1
          /\ \A k \in Pos : At(d, k) = IF k <= Len(c) THEN At(c, k)
                                       ELSE IF k = Len(c) + 1 THEN 0 ELSE -1
      BY <2>1, AppendAt, AtType
    <3>2. Len(c) + 1 \in Pos /\ At(c, Len(c) + 1) = -1
      BY <2>1, <3>1, AtType DEF Pos
    <3> HIDE DEF d
    <3>3. /\ \A j \in 1..((Len(c) + 1) - 1) : At(c, j) = At(d, j)
          /\ At(c, Len(c) + 1) < At(d, Len(c) + 1)
      BY <3>1, <3>2 DEF Pos
    <3>4. QED
      BY <2>1, <3>1, <3>2, <3>3, LexAt
  <2>4. Left(c, 0) = { x \in nodes : LexLeq(d, x) }
    BY DEF Left
  <2> HIDE DEF d
  <2>5. LexLess(Append(n, s), d)
    BY <1>1, <2>1, <2>2, <2>3, LexTransitive DEF LexLeq
  <2>6. Left(c, 0) \subseteq Left(n, s)
    BY <1>3, <2>3, <2>4, <2>5
  <2>7. c \in Left(n, s)
    BY <2>1, <2>2 DEF Left
  <2>8. c \notin Left(c, 0)
    BY <2>1, <2>3, <2>4, LexTransitive, LexIrreflexive DEF LexLeq
  <2>9. Cardinality(Left(c, 0)) < Cardinality(Left(n, s))
    <3>1. /\ Cardinality(Left(c, 0)) <= Cardinality(Left(n, s))
          /\ Cardinality(Left(c, 0)) # Cardinality(Left(n, s))
      BY <1>2, <2>6, <2>7, <2>8, FS_Subset
    <3>2. Cardinality(Left(c, 0)) \in Nat
      BY <1>2, <2>6, FS_Subset, FS_CardinalityType
    <3>3. QED
      BY <1>2, <3>1, <3>2
  <2>10. QED
    BY <2>9 DEF c
<1>5. ASSUME n # Root
      PROVE  Cardinality(Left(Front(n), Last(n) + 1)) <= Cardinality(Left(n, s))
  <2> DEFINE f == Front(n)
             t == Last(n) + 1
             o == Append(f, t)
             b == Append(n, s)
  <2>1. /\ f \in OID /\ Len(f) = Len(n) - 1 /\ t \in Nat /\ Len(n) > 0
        /\ t = At(n, Len(n)) + 1 /\ At(n, Len(n)) \in Int
        /\ \A k \in Pos : At(f, k) = IF k < Len(n) THEN At(n, k) ELSE -1
    BY <1>1, <1>5, FrontAt
  <2> HIDE DEF f, t
  <2>2. /\ o \in OID
        /\ \A k \in Pos : At(o, k) = IF k <= Len(f) THEN At(f, k)
                                     ELSE IF k = Len(f) + 1 THEN t ELSE -1
        /\ b \in OID
        /\ \A k \in Pos : At(b, k) = IF k <= Len(n) THEN At(n, k)
                                     ELSE IF k = Len(n) + 1 THEN s ELSE -1
    BY <1>1, <2>1, AppendAt
  <2>3. Left(f, t) = { x \in nodes : LexLeq(o, x) }
    BY DEF Left
  <2> HIDE DEF o, b
  <2>4. LexLess(b, o)
    <3>1. Len(n) \in Pos /\ Len(f) + 1 = Len(n)
      BY <1>1, <2>1 DEF Pos
    <3>2. ASSUME NEW j \in 1..(Len(n) - 1) PROVE At(b, j) = At(o, j)
      <4>1. j \in Pos /\ j < Len(n) /\ j <= Len(f)
        BY <1>1, <2>1 DEF Pos
      <4>2. QED
        BY <1>1, <2>1, <2>2, <4>1
    <3>3. At(b, Len(n)) = At(n, Len(n)) /\ At(o, Len(n)) = t
      BY <1>1, <2>1, <2>2, <3>1
    <3>4. At(b, Len(n)) < At(o, Len(n))
      BY <2>1, <3>3
    <3>5. QED
      BY <2>2, <3>1, <3>2, <3>4, LexAt
  <2>5. Left(f, t) \subseteq Left(n, s)
    BY <1>3, <2>2, <2>3, <2>4 DEF b
  <2>6. Cardinality(Left(f, t)) <= Cardinality(Left(n, s))
    BY <1>2, <2>5, FS_Subset
  <2>7. QED
    BY <2>6 DEF f, t
<1>6. QED
  BY <1>2, <1>4, <1>5

(* A call whose own calls return what Found says returns it too.           *)
LEMMA CallReturnsFound ==
  ASSUME Tree, NEW M \in SUBSET nodes, NEW n \in nodes, NEW s \in Nat, NEW g,
         \A a \in ListChildren(n, s) : g[<<Append(n, a), 0>>] = Found(M, Append(n, a), 0),
         n # Root => g[<<Front(n), Last(n) + 1>>] = Found(M, Front(n), Last(n) + 1)
  PROVE  SearchStep(M, g, n, s) = Found(M, n, s)
<1> DEFINE F == FoundFunction(M)
<1>1. \A o \in nodes, t \in Nat : F[<<o, t>>] = Found(M, o, t)
  BY DEF FoundFunction
<1>2. MibTypeOK
  BY DEF Tree
<1> HIDE DEF F
<1>3. \A a \in ListChildren(n, s) : g[<<Append(n, a), 0>>] = F[<<Append(n, a), 0>>]
  BY <1>1, <1>2, ChildrenAre
<1>4. n # Root => g[<<Front(n), Last(n) + 1>>] = F[<<Front(n), Last(n) + 1>>]
  BY <1>1, <1>2, FrontInTree
<1>5. SearchStep(M, g, n, s) = SearchStep(M, F, n, s)
  BY <1>2, <1>3, <1>4, SameCalls
<1>6. QED
  BY <1>5, FoundEquation DEF F

(***************************************************************************)
(* No other function satisfies the equation of a call: a call where it     *)
(* returned something else, with the least left to search and the shortest *)
(* address among those, would contradict the calls it makes itself.        *)
(***************************************************************************)
LEMMA SearchReturnsFound ==
  ASSUME Tree, NEW M \in SUBSET nodes, NEW g,
         \A n \in nodes, s \in Nat : g[<<n, s>>] = SearchStep(M, g, n, s),
         NEW node \in nodes, NEW start \in Nat
  PROVE  g[<<node, start>>] = Found(M, node, start)
<1> DEFINE Wrong(n, s) == g[<<n, s>>] # Found(M, n, s)
           Size(n, s) == Cardinality(Left(n, s))
           Sizes == { c \in Nat : \E n \in nodes, s \in Nat : Wrong(n, s) /\ Size(n, s) = c }
<1> SUFFICES ASSUME Wrong(node, start) PROVE FALSE
  OBVIOUS
<1>1. \A n \in nodes, s \in Nat : Size(n, s) \in Nat
  BY LeftShrinks
<1>2. \A n \in nodes : Len(n) \in Nat
  BY TreeNodes, AtType DEF Tree
<1>3. PICK c \in Sizes : \A d \in Sizes : c <= d
  <2>1. Sizes \in SUBSET Nat /\ Sizes # {}
    BY <1>1
  <2> HIDE DEF Sizes
  <2>2. QED
    BY <2>1, NatMin
<1> DEFINE Lens == { l \in Nat : \E n \in nodes, s \in Nat :
                                    Wrong(n, s) /\ Size(n, s) = c /\ Len(n) = l }
<1>4. PICK l \in Lens : \A d \in Lens : l <= d
  <2>1. Lens \in SUBSET Nat /\ Lens # {}
    BY <1>2, <1>3
  <2> HIDE DEF Lens
  <2>2. QED
    BY <2>1, NatMin
<1>5. PICK n \in nodes, s \in Nat : Wrong(n, s) /\ Size(n, s) = c /\ Len(n) = l
  BY <1>4
<1>6. \A o \in nodes, t \in Nat :
         Size(o, t) < c \/ (Size(o, t) <= c /\ Len(o) < l) => ~ Wrong(o, t)
  <2> SUFFICES ASSUME NEW o \in nodes, NEW t \in Nat, Wrong(o, t),
                      Size(o, t) < c \/ (Size(o, t) <= c /\ Len(o) < l)
               PROVE  FALSE
    OBVIOUS
  <2>1. Size(o, t) \in Sizes /\ Size(o, t) \in Nat /\ Len(o) \in Nat
    BY <1>1, <1>2
  <2>2. c <= Size(o, t) /\ c \in Nat /\ l \in Nat
    BY <1>3, <1>4, <2>1
  <2>3. Size(o, t) = c => Len(o) \in Lens
    BY <2>1
  <2>4. Size(o, t) = c => l <= Len(o)
    BY <1>4, <2>3
  <2> HIDE DEF Sizes, Lens, Size, Wrong
  <2>5. QED
    BY <2>1, <2>2, <2>4
<1>7. \A a \in ListChildren(n, s) : g[<<Append(n, a), 0>>] = Found(M, Append(n, a), 0)
  <2> SUFFICES ASSUME NEW a \in ListChildren(n, s)
               PROVE  g[<<Append(n, a), 0>>] = Found(M, Append(n, a), 0)
    OBVIOUS
  <2>1. Append(n, a) \in nodes /\ Size(Append(n, a), 0) < c
    BY <1>5, ChildrenAre, LeftShrinks DEF Tree
  <2>2. ~ Wrong(Append(n, a), 0)
    <3> HIDE DEF Size, Wrong
    <3>1. QED
      BY <1>6, <2>1
  <2>3. QED
    BY <2>2
<1>8. n # Root => g[<<Front(n), Last(n) + 1>>] = Found(M, Front(n), Last(n) + 1)
  <2> SUFFICES ASSUME n # Root
               PROVE  g[<<Front(n), Last(n) + 1>>] = Found(M, Front(n), Last(n) + 1)
    OBVIOUS
  <2>1. Front(n) \in nodes /\ Last(n) + 1 \in Nat
    BY FrontInTree DEF Tree
  <2>2. Size(Front(n), Last(n) + 1) <= c
    BY <1>5, LeftShrinks
  <2>3. Len(Front(n)) < l
    <3>1. n \in OID /\ Len(Front(n)) = Len(n) - 1 /\ Len(n) \in Nat
      BY TreeNodes, FrontAt, AtType DEF Tree
    <3>2. QED
      BY <1>5, <3>1
  <2>4. ~ Wrong(Front(n), Last(n) + 1)
    <3> HIDE DEF Size, Wrong
    <3>1. QED
      BY <1>6, <2>1, <2>2, <2>3
  <2>5. QED
    BY <2>4
<1>9. SearchStep(M, g, n, s) = Found(M, n, s)
  BY <1>7, <1>8, CallReturnsFound
<1>10. g[<<n, s>>] = Found(M, n, s)
  BY <1>9
<1>11. QED
  BY <1>5, <1>10

(***************************************************************************)
(* next_match: a function satisfying the equation exists, so the recursive *)
(* definition is one, and every such function returns what Found says.     *)
(***************************************************************************)
LEMMA NextMatchIs ==
  ASSUME Tree, NEW M \in SUBSET nodes, NEW node \in nodes, NEW start \in Nat
  PROVE  NextMatch(M, node, start) = Found(M, node, start)
<1> DEFINE Def(f) == f = [at \in nodes \X Nat |-> SearchStep(M, f, at[1], at[2])]
           search == CHOOSE f : Def(f)
<1>1. Def(FoundFunction(M))
  <2>1. \A at \in nodes \X Nat :
           Found(M, at[1], at[2]) = SearchStep(M, FoundFunction(M), at[1], at[2])
    BY FoundEquation
  <2>2. FoundFunction(M) = [at \in nodes \X Nat |-> Found(M, at[1], at[2])]
    BY DEF FoundFunction
  <2>3. QED
    BY <2>1, <2>2
<1>2. Def(search)
  <2> HIDE DEF Def
  <2>1. QED
    BY <1>1, Zenon
<1> HIDE DEF search
<1>3. \A n \in nodes, s \in Nat : search[<<n, s>>] = SearchStep(M, search, n, s)
  BY <1>2
<1>4. search[<<node, start>>] = Found(M, node, start)
  <2> HIDE DEF Def
  <2>1. QED
    BY <1>3, SearchReturnsFound
<1>5. NextMatch(M, node, start) = search[<<node, start>>]
  BY Zenon DEF NextMatch, search, Def
<1>6. QED
  BY <1>4, <1>5

----------------------------------------------------------------------------
(***************************************************************************)
(* The levels of a search follow one another in the order of the tree: all *)
(* that is reached on one comes before all that is reached higher up.      *)
(***************************************************************************)
LEMMA LevelAt ==
  ASSUME MibTypeOK, NEW M \in SUBSET nodes, NEW n \in nodes, NEW s \in Nat,
         NEW k \in 0..Len(n), NEW m \in M
  PROVE  /\ m \in Level(M, n, s, k) <=> \/ m = Upto(n, k)
                                       \/ /\ \A j \in 1..k : At(m, j) = At(n, j)
                                          /\ At(m, k + 1) >= StartAt(n, s, k)
         /\ k < Len(n) /\ m = Upto(n, k) => IsStrictPrefix(m, n)
<1>1. n \in OID /\ Len(n) \in Nat /\ m \in OID
  BY TreeNodes, AtType DEF MibTypeOK
<1>2. /\ Upto(n, k) \in OID /\ Upto(n, k) \in Prefixes(n) /\ Len(Upto(n, k)) = k
      /\ \A j \in 1..k : At(Upto(n, k), j) = At(n, j)
  BY <1>1, UptoAt DEF Pos
<1>3. Below(Upto(n, k), StartAt(n, s, k), m) <=> /\ \A j \in 1..k : At(m, j) = At(n, j)
                                                /\ At(m, k + 1) >= StartAt(n, s, k)
  <2>1. IsPrefix(Upto(n, k), m) <=> \A j \in 1..k : At(m, j) = At(n, j)
    BY <1>1, <1>2, PrefixAt
  <2>2. QED
    BY <1>2, <2>1 DEF Below
<1>4. k < Len(n) /\ m = Upto(n, k) => IsStrictPrefix(m, n)
  BY <1>1, <1>2, PrefixesAre DEF IsStrictPrefix
<1>5. QED
  BY <1>3, <1>4 DEF Level, Reach

(* What is after a node, or in it from the start on, is on some level.     *)
LEMMA OnSomeLevel ==
  ASSUME MibTypeOK, NEW M \in SUBSET nodes, NEW n \in nodes, NEW s \in Nat,
         NEW m \in M, m = n \/ LexLeq(Append(n, s), m)
  PROVE  \E k \in 0..Len(n) : m \in Level(M, n, s, k)
<1>1. n \in OID /\ Len(n) \in Nat /\ m \in OID /\ Upto(n, Len(n)) = n
  BY TreeNodes, AtType, UptoWhole DEF MibTypeOK
<1>2. CASE m = n \/ Below(n, s, m)
  <2>1. m \in Level(M, n, s, Len(n))
    BY <1>1, <1>2 DEF Level, StartAt, Reach
  <2>2. QED
    BY <1>1, <2>1
<1>3. CASE After(n, m)
  <2>1. PICK k \in 1..Len(n) : /\ \A j \in 1..(k - 1) : At(m, j) = At(n, j)
                               /\ At(n, k) < At(m, k)
    BY <1>3 DEF After
  <2>2. At(n, k) \in Int /\ At(m, k) \in Int
    BY <1>1, AtType DEF Pos
  <2>3. k - 1 \in 0..Len(n) /\ StartAt(n, s, k - 1) = At(n, k) + 1 /\ (k - 1) + 1 = k
    BY <1>1 DEF StartAt
  <2>4. At(m, (k - 1) + 1) >= StartAt(n, s, k - 1)
    BY <2>1, <2>2, <2>3
  <2>5. m \in Level(M, n, s, k - 1)
    BY <2>1, <2>3, <2>4, LevelAt
  <2>6. QED
    BY <2>3, <2>5
<1>4. QED
  BY <1>1, <1>2, <1>3, FromChildOn

(* And whatever is on a level, unless it is above the node, is after it.   *)
LEMMA LevelsAfter ==
  ASSUME MibTypeOK, NEW M \in SUBSET nodes, NEW n \in nodes, NEW s \in Nat,
         NEW k \in 0..Len(n), NEW m \in Level(M, n, s, k)
  PROVE  \/ k < Len(n) /\ m = Upto(n, k) /\ IsStrictPrefix(m, n)
         \/ k < Len(n) /\ After(n, m) /\ \A j \in 1..k : At(m, j) = At(n, j)
         \/ k = Len(n) /\ (m = n \/ Below(n, s, m))
<1>1. n \in OID /\ Len(n) \in Nat /\ m \in M /\ m \in OID /\ Upto(n, Len(n)) = n
  BY TreeNodes, AtType, UptoWhole DEF MibTypeOK, Level, Reach
<1>2. CASE k = Len(n)
  BY <1>1, <1>2 DEF Level, StartAt, Reach
<1>3. CASE k < Len(n) /\ m # Upto(n, k)
  <2>1. /\ \A j \in 1..k : At(m, j) = At(n, j)
        /\ At(m, k + 1) >= At(n, k + 1) + 1
    BY <1>1, <1>3, LevelAt DEF StartAt
  <2>2. k + 1 \in 1..Len(n) /\ (k + 1) - 1 = k /\ At(m, k + 1) \in Int /\ At(n, k + 1) \in Int
    BY <1>1, <1>3, AtType DEF Pos
  <2>3. At(n, k + 1) < At(m, k + 1)
    BY <2>1, <2>2
  <2>4. After(n, m)
    BY <2>1, <2>2, <2>3 DEF After
  <2>5. QED
    BY <1>3, <2>1, <2>4
<1>4. CASE k < Len(n) /\ m = Upto(n, k)
  BY <1>1, <1>4, LevelAt
<1>5. QED
  BY <1>1, <1>2, <1>3, <1>4

LEMMA HigherIsLater ==
  ASSUME MibTypeOK, NEW M \in SUBSET nodes, NEW n \in nodes, NEW s \in Nat,
         NEW k \in 0..Len(n), NEW j \in 0..Len(n), j < k,
         NEW m \in Level(M, n, s, k), NEW b \in Level(M, n, s, j), ~ IsStrictPrefix(b, n)
  PROVE  LexLess(m, b)
<1>1. n \in OID /\ Len(n) \in Nat /\ m \in M /\ m \in OID /\ b \in M /\ b \in OID
  BY TreeNodes, AtType DEF MibTypeOK, Level, Reach
<1>2. \A i \in 1..k : At(m, i) = At(n, i)
  <2>1. \A i \in 1..k : At(Upto(n, k), i) = At(n, i)
    BY <1>1, UptoAt DEF Pos
  <2>2. QED
    BY <2>1, LevelAt, <1>1
<1>3. /\ \A i \in 1..j : At(b, i) = At(n, i)
      /\ At(b, j + 1) >= At(n, j + 1) + 1
  <2>1. j < Len(n) /\ b # Upto(n, j)
    <3>1. j < Len(n)
      BY <1>1
    <3>2. QED
      BY <1>1, <3>1, LevelAt
  <2>2. QED
    BY <1>1, <2>1, LevelAt DEF StartAt
<1>4. /\ j + 1 \in Pos /\ j + 1 \in 1..k /\ (j + 1) - 1 = j
      /\ At(m, j + 1) \in Int /\ At(b, j + 1) \in Int /\ At(n, j + 1) \in Int
  BY <1>1, AtType DEF Pos
<1>5. At(m, j + 1) < At(b, j + 1) /\ \A i \in 1..j : At(m, i) = At(b, i)
  BY <1>1, <1>2, <1>3, <1>4
<1>6. QED
  BY <1>1, <1>4, <1>5, LexAt

(***************************************************************************)
(* next_match finds the first match, in the order of the tree, for every   *)
(* set of matching nodes of which none is above the node it starts from.   *)
(***************************************************************************)
LEMMA NextMatchFinds ==
  ASSUME Tree, NEW M \in SUBSET nodes, NEW n \in nodes, NEW s \in Nat,
         \A m \in M : ~ IsStrictPrefix(m, n)
  PROVE  /\ NextMatch(M, n, s) = FirstMatch(M, n, s)
         /\ FirstMatch(M, n, s) # NoNode =>
              /\ FirstMatch(M, n, s) \in M
              /\ FirstMatch(M, n, s) = n \/ LexLeq(Append(n, s), FirstMatch(M, n, s))
<1> DEFINE S == { m \in M : m = n \/ LexLeq(Append(n, s), m) }
<1>1. MibTypeOK /\ n \in OID /\ Len(n) \in Nat /\ S \in SUBSET OID /\ M \in SUBSET OID
  BY TreeNodes, AtType DEF Tree, MibTypeOK
<1>2. NextMatch(M, n, s) = Found(M, n, s)
  BY NextMatchIs
<1>3. FirstMatch(M, n, s) = LexFirst(S, NoNode)
  BY DEF FirstMatch
<1> HIDE DEF S
<1>4. \A m \in S : m \in M /\ \E k \in 0..Len(n) : m \in Level(M, n, s, k)
  BY <1>1, OnSomeLevel DEF S
<1>5. CASE Levels(M, n, s) = {}
  <2>1. S = {}
    BY <1>4, <1>5 DEF Levels
  <2>2. Found(M, n, s) = NoNode
    BY <1>5 DEF Found
  <2>3. LexFirst(S, NoNode) = NoNode
    BY <2>1 DEF LexFirst
  <2>4. QED
    BY <1>2, <1>3, <2>2, <2>3
<1>6. CASE Levels(M, n, s) # {}
  <2>1. PICK k \in 0..Len(n) : /\ FoundAt(M, n, s, k)
                               /\ Found(M, n, s) = LexFirst(Level(M, n, s, k), NoNode)
                               /\ Found(M, n, s) \in Level(M, n, s, k)
    BY <1>6, FoundNone
  <2> DEFINE m == Found(M, n, s)
  <2>2. m \in Level(M, n, s, k) /\ \A b \in Level(M, n, s, k) : LexLeq(m, b)
    BY <2>1, ReachFirst DEF Level
  <2> HIDE DEF m
  <2>3. m \in M /\ m \in OID
    BY <1>1, <2>2 DEF Level, Reach
  <2>4. m \in S
    <3>1. After(n, m) \/ m = n \/ Below(n, s, m)
      BY <1>1, <2>2, <2>3, LevelsAfter
    <3>2. QED
      BY <1>1, <2>3, <3>1, FromChildOn DEF S
  <2>5. ASSUME NEW b \in S PROVE LexLeq(m, b)
    <3>1. PICK j \in 0..Len(n) : b \in Level(M, n, s, j)
      BY <1>4
    <3>2. j <= k
      BY <2>1, <3>1 DEF FoundAt, Levels
    <3>3. CASE j = k
      BY <2>2, <3>1, <3>3
    <3>4. CASE j < k
      BY <1>1, <1>4, <2>2, <3>1, <3>4, HigherIsLater DEF LexLeq
    <3>5. QED
      BY <1>1, <3>2, <3>3, <3>4
  <2>6. LexFirst(S, NoNode) = m
    BY <1>1, <2>4, <2>5, LexFirstIs
  <2>7. QED
    BY <1>2, <1>3, <2>4, <2>6 DEF m, S
<1>7. QED
  BY <1>5, <1>6

(* SearchFindsFirst, in every finite tree.                                 *)
LEMMA TreeSearchFindsFirst == Tree => SearchFindsFirst
<1> SUFFICES ASSUME Tree, NEW n \in nodes, NEW M \in SmallSubsets(nodes),
                    \A m \in M : ~ IsStrictPrefix(m, n),
                    NEW s \in {0} \cup { a + 1 : a \in ListChildren(n, 0) }
             PROVE  NextMatch(M, n, s) = FirstMatch(M, n, s)
  BY DEF SearchFindsFirst
<1>1. M \in SUBSET nodes
  BY DEF SmallSubsets
<1>2. s \in Nat
  BY ChildrenAre DEF Tree
<1>3. QED
  BY <1>1, <1>2, NextMatchFinds

----------------------------------------------------------------------------
(* The marks of a batch are made at well-formed addresses.                 *)
LEMMA MadeProperties ==
  ASSUME NEW batch \in Batches, NEW m \in Made(batch)
  PROVE  /\ m \in Marks(batch)
         /\ m[1] \in Nat /\ m[2] \in Nat
         /\ Addr(batch, m) \in OID
         /\ Kind(batch, m) \in Kinds
<1>1. m \in Marks(batch) /\ CanonicalDotted(Addr(batch, m))
  BY DEF Made
<1>2. batch \in Seq([oid : Seq(Int), columns : Seq(Int)])
  BY BatchesAssumption
<1>3. PICK p \in 1..Len(batch) : m \in {p} \X (0..Len(batch[p].columns))
  BY <1>1 DEF Marks
<1>4. m[1] = p /\ m[2] \in 0..Len(batch[p].columns)
  BY <1>3
<1>5. batch[p] \in [oid : Seq(Int), columns : Seq(Int)]
  BY <1>2, ElementOfSeq, Zenon
<1>6. batch[p].oid \in Seq(Int) /\ batch[p].columns \in Seq(Int)
  BY <1>5
<1>7. Addr(batch, m) \in Seq(Int)
  <2>1. CASE m[2] = 0
    BY <2>1, <1>4, <1>6 DEF Addr
  <2>2. CASE m[2] # 0
    <3>1. batch[p].columns[m[2]] \in Int
      BY <2>2, <1>4, <1>6
    <3>2. Append(batch[p].oid, batch[p].columns[m[2]]) \in Seq(Int)
      BY <3>1, <1>6, AppendProperties
    <3>3. QED
      BY <3>2, <2>2, <1>4 DEF Addr
  <2>3. QED
    BY <2>1, <2>2
<1>8. Addr(batch, m) \in OID
  <2> DEFINE a == Addr(batch, m)
  <2>1. \A i \in 1..Len(a) : a[i] \in Nat
    BY <1>1, <1>7 DEF CanonicalDotted
  <2> HIDE DEF a
  <2>2. a \in Seq(Int)
    BY <1>7 DEF a
  <2>3. a \in Seq(Nat)
    BY <2>1, <2>2
  <2>4. QED
    BY <2>3 DEF OID, a
<1>9. Kind(batch, m) \in Kinds
  BY DEF Kind, Kinds
<1>10. QED
  BY <1>1, <1>3, <1>4, <1>6, <1>8, <1>9

(* Where marks were made on a node, one of them is the last.               *)
LEMMA LastMadeExists ==
  ASSUME NEW batch \in Batches, NEW n, MadeOn(batch, n) # {}
  PROVE  LastMade(batch, n) \in Made(batch)
<1> DEFINE On == MadeOn(batch, n)
           P == { m[1] : m \in On }
<1>1. On \subseteq Made(batch)
  BY DEF MadeOn
<1>2. batch \in Seq([oid : Seq(Int), columns : Seq(Int)]) /\ Len(batch) \in Nat
  BY BatchesAssumption
<1>3. \A m \in On : /\ m[1] \in 1..Len(batch)
                    /\ m[2] \in 0..Len(batch[m[1]].columns)
  BY <1>1 DEF Made, Marks
<1>4. PICK p \in P : \A q \in P : q <= p
  <2>1. P \in SUBSET Nat /\ P # {} /\ \A q \in P : q <= Len(batch)
    BY <1>3
  <2> HIDE DEF P
  <2>2. QED
    BY <2>1, <1>2, NatMax
<1>5. p \in 1..Len(batch)
  BY <1>3
<1> DEFINE C == { c \in Nat : \E m \in On : m[1] = p /\ m[2] = c }
<1>6. PICK c \in C : \A d \in C : d <= c
  <2>1. Len(batch[p].columns) \in Nat
    <3>1. batch[p] \in [oid : Seq(Int), columns : Seq(Int)]
      BY <1>2, <1>5, ElementOfSeq, Zenon
    <3>2. QED
      BY <3>1
  <2>2. C \in SUBSET Nat /\ C # {} /\ \A d \in C : d <= Len(batch[p].columns)
    BY <1>3
  <2> HIDE DEF C
  <2>3. QED
    BY <2>1, <2>2, NatMax
<1>7. PICK m \in On : m[1] = p /\ m[2] = c
  BY <1>6
<1>8. ASSUME NEW k \in On PROVE ~ Before(m, k)
  <2>1. k[1] <= p
    BY <1>4
  <2>2. k[1] \in Nat /\ k[2] \in Nat
    BY <1>3
  <2>3. k[1] = p => k[2] <= c
    BY <1>6, <2>2
  <2> HIDE DEF On, P, C
  <2>4. p \in Nat /\ c \in Nat
    BY <1>5, <1>6, <1>2 DEF C
  <2>5. QED
    BY <2>1, <2>2, <2>3, <2>4, <1>7 DEF Before
<1>9. LastMade(batch, n) \in On
  BY <1>8, Zenon DEF LastMade
<1>10. QED
  BY <1>1, <1>9

(* What one call of addProviders does to the types.                        *)
LEMMA AddProvidersType ==
  ASSUME RegistryTypeOK, NEW batch \in Batches, AddProviders(batch)
  PROVE  RegistryTypeOK'
<1>1. MibTypeOK'
  <2> DEFINE A == { Addr(batch, m) : m \in Made(batch) }
  <2>1. A \subseteq OID
    BY MadeProperties
  <2>2. nodes' = nodes \cup UNION { Prefixes(a) : a \in A }
    BY DEF AddProviders, Added
  <2> HIDE DEF A
  <2>3. nodes' \subseteq OID /\ Root \in nodes' /\ \A n \in nodes' : Prefixes(n) \subseteq nodes'
    BY <2>1, <2>2, AddKeepsTree, Zenon DEF RegistryTypeOK, MibTypeOK
  <2>4. QED
    BY <2>3 DEF MibTypeOK
<1>2. decor' \in [nodes' -> Kinds]
  <2>1. ASSUME NEW n \in nodes', MadeOn(batch, n) # {}
        PROVE  Kind(batch, LastMade(batch, n)) \in Kinds
    BY <2>1, LastMadeExists, MadeProperties
  <2>2. ASSUME NEW n \in nodes PROVE decor[n] \in Kinds
    BY DEF RegistryTypeOK
  <2>3. "none" \in Kinds
    BY DEF Kinds
  <2>4. QED
    BY <2>1, <2>2, <2>3, Zenon DEF AddProviders
<1>3. QED
  BY <1>1, <1>2 DEF RegistryTypeOK

----------------------------------------------------------------------------
(* The image of a finite set is finite.                                    *)
LEMMA FiniteImage ==
  ASSUME NEW S, IsFiniteSet(S), NEW f
  PROVE  IsFiniteSet({ f[x] : x \in S })
<1> DEFINE T == { f[x] : x \in S }
           g == [x \in S |-> f[x]]
<1>1. g \in Surjection(S, T)
  BY DEF Surjection
<1> HIDE DEF g, T
<1>2. IsFiniteSet(T)
  BY <1>1, FS_Surjection
<1>3. QED
  BY <1>2 DEF T

(* An address has finitely many prefixes, and a batch finitely many marks. *)
LEMMA FinitePrefixes ==
  ASSUME NEW s \in OID
  PROVE  IsFiniteSet(Prefixes(s))
<1> DEFINE f == [l \in 0..Len(s) |-> SubSeq(s, 1, l)]
<1>1. Len(s) \in Nat
  BY AtType
<1>2. IsFiniteSet(0..Len(s))
  BY <1>1, FS_Interval
<1>3. Prefixes(s) = { f[l] : l \in 0..Len(s) }
  BY DEF Prefixes
<1> HIDE DEF f
<1>4. QED
  BY <1>2, <1>3, FiniteImage

LEMMA FiniteMade ==
  ASSUME NEW batch \in Batches
  PROVE  IsFiniteSet(Made(batch))
<1> DEFINE row(p) == {p} \X (0..Len(batch[p].columns))
           f == [p \in 1..Len(batch) |-> row(p)]
           rows == { f[p] : p \in 1..Len(batch) }
<1>1. batch \in Seq([oid : Seq(Int), columns : Seq(Int)]) /\ Len(batch) \in Nat
  BY BatchesAssumption
<1>2. ASSUME NEW p \in 1..Len(batch) PROVE IsFiniteSet(row(p))
  <2>1. batch[p] \in [oid : Seq(Int), columns : Seq(Int)]
    BY <1>1, ElementOfSeq, Zenon
  <2>2. Len(batch[p].columns) \in Nat
    BY <2>1
  <2>3. IsFiniteSet(0..Len(batch[p].columns))
    <3> DEFINE l == Len(batch[p].columns)
    <3>1. l \in Int /\ 0 \in Int
      BY <2>2
    <3> HIDE DEF l
    <3>2. IsFiniteSet(0..l)
      BY <3>1, FS_Interval
    <3>3. QED
      BY <3>2 DEF l
  <2>4. IsFiniteSet({p})
    BY FS_Singleton
  <2>5. QED
    BY <2>3, <2>4, FS_Product
<1>3. IsFiniteSet(rows)
  <2>1. IsFiniteSet(1..Len(batch))
    BY <1>1, FS_Interval
  <2> HIDE DEF f
  <2>2. QED
    BY <2>1, FiniteImage
<1>4. \A R \in rows : IsFiniteSet(R)
  BY <1>2
<1>5. Marks(batch) = UNION rows
  BY DEF Marks
<1> HIDE DEF rows
<1>6. IsFiniteSet(UNION rows)
  BY <1>3, <1>4, FS_UNION
<1>7. Made(batch) \subseteq Marks(batch)
  BY DEF Made
<1>8. QED
  BY <1>5, <1>6, <1>7, FS_Subset

(* One call of addProviders leaves a finite tree.                          *)
LEMMA AddProvidersFinite ==
  ASSUME IsFiniteSet(nodes), NEW batch \in Batches, AddProviders(batch)
  PROVE  IsFiniteSet(nodes')
<1> DEFINE f == [m \in Made(batch) |-> Prefixes(Addr(batch, m))]
           paths == { f[m] : m \in Made(batch) }
<1>1. IsFiniteSet(paths)
  <2> HIDE DEF f
  <2>1. QED
    BY FiniteMade, FiniteImage
<1>2. \A P \in paths : IsFiniteSet(P)
  BY MadeProperties, FinitePrefixes
<1>3. nodes' = nodes \cup UNION paths
  BY DEF AddProviders, Added
<1> HIDE DEF paths
<1>4. IsFiniteSet(UNION paths)
  BY <1>1, <1>2, FS_UNION
<1>5. QED
  BY <1>3, <1>4, FS_Union

(***************************************************************************)
(* The inductive invariant: the types, a finite tree, which is what lets   *)
(* next_match end and a first match exist, and a root that no provider is  *)
(* registered on, so that the node after a registered one is a sibling.    *)
(***************************************************************************)
RegistryInv ==
  /\ RegistryTypeOK
  /\ IsFiniteSet(nodes)
  /\ decor[Root] = "none"

LEMMA AddProvidersInv ==
  ASSUME RegistryInv, NEW batch \in Batches, AddProviders(batch)
  PROVE  RegistryInv'
<1>1. RegistryTypeOK' /\ IsFiniteSet(nodes')
  BY AddProvidersType, AddProvidersFinite DEF RegistryInv
<1>2. decor'[Root] = "none"
  <2>1. MadeOn(batch, Root) = {}
    <3> SUFFICES ASSUME NEW m \in Made(batch), Addr(batch, m) = Root PROVE FALSE
      BY DEF MadeOn
    <3>1. CanonicalDotted(Addr(batch, m)) \/ ~ \E k \in Marks(batch) : k = m
      BY DEF Made
    <3>2. m \in Marks(batch)
      BY MadeProperties
    <3>3. Len(Root) = 0
      BY DEF Root
    <3>4. QED
      BY <3>1, <3>2, <3>3 DEF CanonicalDotted, MinOidLen
  <2>2. Root \in nodes /\ Root \in nodes'
    BY <1>1 DEF RegistryInv, RegistryTypeOK, MibTypeOK
  <2>3. QED
    BY <2>1, <2>2 DEF AddProviders, RegistryInv
<1>3. QED
  BY <1>1, <1>2 DEF RegistryInv

LEMMA RegistryInvInit == RegistryInit => RegistryInv
<1> SUFFICES ASSUME RegistryInit PROVE RegistryInv
  OBVIOUS
<1>1. RegistryTypeOK
  BY MibInitTypeOK DEF RegistryInit, MibInit, Kinds, RegistryTypeOK
<1>2. IsFiniteSet(nodes)
  BY FS_Singleton DEF RegistryInit, MibInit
<1>3. decor[Root] = "none"
  BY DEF RegistryInit
<1>4. QED
  BY <1>1, <1>2, <1>3 DEF RegistryInv

LEMMA RegistryInvariant == RegistrySpec => []RegistryInv
<1>1. RegistryInit => RegistryInv
  BY RegistryInvInit
<1>2. RegistryInv /\ [RegistryNext]_rvars => RegistryInv'
  <2> SUFFICES ASSUME RegistryInv, [RegistryNext]_rvars PROVE RegistryInv'
    OBVIOUS
  <2>1. CASE UNCHANGED rvars
    BY <2>1 DEF RegistryInv, RegistryTypeOK, MibTypeOK, rvars
  <2>2. CASE RegistryNext
    BY <2>2, AddProvidersInv DEF RegistryNext
  <2>3. QED
    BY <2>1, <2>2
<1>3. QED
  BY <1>1, <1>2, PTL DEF RegistrySpec

(***************************************************************************)
(* Registration, complete or cut short, leaves every node of the tree with *)
(* one of the four kinds of decoration and gives none to anything else.    *)
(***************************************************************************)
THEOREM RegistryTypeCorrect == RegistrySpec => []RegistryTypeOK
<1>1. RegistryInv => RegistryTypeOK
  BY DEF RegistryInv
<1>2. QED
  BY <1>1, RegistryInvariant, PTL

(***************************************************************************)
(* In every registry that registration can build, next_match finds the     *)
(* first match from every node and every start, however often it descends  *)
(* and climbs on the way.                                                  *)
(***************************************************************************)
THEOREM SearchCorrect == RegistrySpec => []SearchFindsFirst
<1>1. RegistryInv => SearchFindsFirst
  BY TreeSearchFindsFirst DEF RegistryInv, RegistryTypeOK, Tree
<1>2. QED
  BY <1>1, RegistryInvariant, PTL

----------------------------------------------------------------------------
(***************************************************************************)
(* Which node a GetNext is put to.  First the walks: out of the subtree of *)
(* a node on which a provider is registered, to the first object after it; *)
(* and into a node on which none is, from a child on.                      *)
(***************************************************************************)
LEMMA ObjectNode ==
  ASSUME RegistryInv, NEW n \in Objects
  PROVE  /\ n \in nodes /\ n \in OID /\ n # Root
         /\ Front(n) \in nodes /\ Last(n) + 1 \in Nat
         /\ Tree /\ MibTypeOK /\ Objects \in SUBSET nodes /\ Objects \in SUBSET OID
<1>1. MibTypeOK /\ Tree
  BY DEF RegistryInv, RegistryTypeOK, Tree
<1>2. n \in nodes /\ n # Root
  BY DEF RegistryInv, Objects, InstancePossible
<1>3. QED
  BY <1>1, <1>2, TreeNodes, FrontInTree DEF Objects, MibTypeOK

LEMMA AfterSubtreeIs ==
  ASSUME RegistryInv, NoNesting, NEW n \in Objects
  PROVE  AfterSubtree(n) = LexFirst({ m \in Objects : LexLess(n, m) }, NoNode)
<1> DEFINE f == Front(n)
           t == Last(n) + 1
<1>1. /\ n \in nodes /\ n \in OID /\ n # Root /\ f \in nodes /\ t \in Nat
      /\ Tree /\ MibTypeOK /\ Objects \in SUBSET nodes /\ Objects \in SUBSET OID
  BY ObjectNode
<1>2. f \in OID /\ Len(f) < Len(n) /\ f \in Prefixes(n)
  BY <1>1, FrontAt, AtType
<1>3. IsStrictPrefix(f, n)
  BY <1>1, <1>2, PrefixesAre DEF IsStrictPrefix
<1>4. f \notin Objects
  BY <1>1, <1>3 DEF NoNesting
<1>5. \A m \in Objects : ~ IsStrictPrefix(m, f)
  BY <1>1 DEF NoNesting
<1>6. { m \in Objects : m = f \/ LexLeq(Append(f, t), m) } = { m \in Objects : LexLess(n, m) }
  <2> SUFFICES ASSUME NEW m \in Objects
               PROVE  (m = f \/ LexLeq(Append(f, t), m)) <=> LexLess(n, m)
    OBVIOUS
  <2>1. LexLeq(Append(f, t), m) <=> After(n, m)
    BY <1>1, NextSibling
  <2>2. m \in OID /\ m \in nodes
    BY <1>1
  <2>3. ~ IsStrictPrefix(n, m)
    BY <2>2 DEF NoNesting
  <2>4. QED
    BY <1>1, <1>4, <2>1, <2>2, <2>3, LexSplit
<1>7. NextMatch(Objects, f, t) = FirstMatch(Objects, f, t)
  <2> HIDE DEF f, t
  <2>1. QED
    BY <1>1, <1>5, NextMatchFinds
<1>8. QED
  BY <1>6, <1>7 DEF AfterSubtree, NextObject, FirstMatch

LEMMA NextObjectIs ==
  ASSUME RegistryInv, NoNesting, NEW n \in nodes, n \notin Objects, NEW s \in Nat
  PROVE  NextObject(n, s) = LexFirst({ m \in Objects : LexLeq(Append(n, s), m) }, NoNode)
<1>1. Tree /\ Objects \in SUBSET nodes
  BY DEF RegistryInv, RegistryTypeOK, Tree, Objects
<1>2. \A m \in Objects : ~ IsStrictPrefix(m, n)
  BY DEF NoNesting
<1>3. NextMatch(Objects, n, s) = FirstMatch(Objects, n, s)
  BY <1>1, <1>2, NextMatchFinds
<1>4. { m \in Objects : m = n \/ LexLeq(Append(n, s), m) }
        = { m \in Objects : LexLeq(Append(n, s), m) }
  OBVIOUS
<1>5. QED
  BY <1>3, <1>4 DEF NextObject, FirstMatch

(***************************************************************************)
(* The node that lookup finds for an identifier: if it is not the node     *)
(* itself, the tree has no node at the identifier or anywhere on the path  *)
(* to it beyond the one found.                                             *)
(***************************************************************************)
LEMMA LookupIs ==
  ASSUME MibTypeOK, NEW oid \in OID
  PROVE  /\ Lookup(oid) \in nodes /\ Lookup(oid) \in OID
         /\ IsPrefix(Lookup(oid), oid)
         /\ oid \in nodes => Lookup(oid) = oid
         /\ Lookup(oid) # oid => IsStrictPrefix(Lookup(oid), oid) /\ oid \notin nodes
         /\ \A m \in nodes : IsPrefix(m, oid) => IsPrefix(m, Lookup(oid))
<1> DEFINE n == Lookup(oid)
<1>1. n \in nodes /\ n \in Prefixes(oid) /\ \A m \in nodes \cap Prefixes(oid) : Len(m) <= Len(n)
  BY LookupFinds
<1> HIDE DEF n
<1>2. n \in OID /\ IsPrefix(n, oid) /\ Len(n) \in Nat /\ Len(oid) \in Nat
  BY <1>1, TreeNodes, PrefixesAre, AtType
<1>3. ASSUME NEW m \in nodes, IsPrefix(m, oid) PROVE IsPrefix(m, n)
  <2>1. m \in OID /\ Len(m) \in Nat
    BY TreeNodes, AtType
  <2>2. Len(m) <= Len(n)
    BY <1>1, <1>3, <2>1, PrefixesAre
  <2>3. \A k \in 1..Len(m) : At(n, k) = At(m, k)
    BY <1>2, <1>3, <2>1, <2>2, PrefixAt
  <2>4. QED
    BY <1>2, <2>1, <2>3, PrefixAt
<1>4. ASSUME oid \in nodes PROVE n = oid
  <2>1. IsPrefix(oid, oid)
    BY PrefixAt
  <2>2. IsPrefix(oid, n) /\ Len(oid) <= Len(n) /\ Len(n) <= Len(oid)
    BY <1>2, <1>3, <1>4, <2>1, PrefixAt
  <2>3. QED
    BY <1>2, <2>2, PrefixAt
<1>5. QED
  BY <1>1, <1>2, <1>3, <1>4 DEF n, IsStrictPrefix

(* Without nesting, what may hold an instance after an identifier.         *)
LEMMA FollowsIs ==
  ASSUME RegistryInv, NoNesting, NEW oid \in OID, NEW m \in Objects
  PROVE  /\ Follows(m, oid, TRUE) <=> \/ LexLess(oid, m)
                                      \/ m = oid /\ decor[m] = "scalar"
                                      \/ m = Lookup(oid) /\ decor[m] = "column"
         /\ decor[oid] = "column" => (Follows(m, oid, FALSE) <=> LexLess(oid, m))
<1>1. m \in nodes /\ m \in OID /\ MibTypeOK /\ decor[m] \in {"scalar", "column"}
  BY ObjectNode DEF Objects, InstancePossible
<1>2. LexLess(oid, Append(m, 0)) <=> LexLeq(oid, m)
  BY <1>1, FirstChildNext
<1>3. IsPrefix(m, oid) <=> m = Lookup(oid)
  <2>1. IsPrefix(m, oid) => IsPrefix(m, Lookup(oid)) /\ Lookup(oid) \in nodes
    BY <1>1, LookupIs
  <2>2. IsPrefix(m, Lookup(oid)) /\ Lookup(oid) \in nodes => m = Lookup(oid)
    BY DEF NoNesting, IsStrictPrefix
  <2>3. IsPrefix(Lookup(oid), oid)
    BY <1>1, LookupIs
  <2>4. QED
    BY <2>1, <2>2, <2>3
<1>4. QED
  BY <1>1, <1>2, <1>3 DEF Follows, LexLeq

(***************************************************************************)
(* The cases of _getnext_lookup, for an identifier and a node found.       *)
(***************************************************************************)
LEMMA AskExact ==
  ASSUME RegistryInv, NoNesting, NEW oid \in OID, Lookup(oid) = oid
  PROVE  GetnextLookup(oid, TRUE) = FirstToAsk(oid, TRUE)
<1> DEFINE A == { m \in Objects : Follows(m, oid, TRUE) }
<1>1. oid \in nodes /\ MibTypeOK /\ A \in SUBSET OID /\ Objects \in SUBSET OID
  BY LookupIs DEF RegistryInv, RegistryTypeOK, MibTypeOK, Objects
<1>2. FirstToAsk(oid, TRUE) = LexFirst(A, NoNode)
  BY DEF FirstToAsk
<1>3. \A m \in Objects : m \in A <=> \/ LexLess(oid, m)
                                     \/ m = oid /\ decor[m] = "scalar"
                                     \/ m = oid /\ decor[m] = "column"
  BY FollowsIs
<1> HIDE DEF A
<1>4. CASE oid \in Objects
  <2>1. oid \in A /\ \A b \in A : LexLeq(oid, b)
    BY <1>3, <1>4 DEF LexLeq, Objects, InstancePossible, A
  <2>2. LexFirst(A, NoNode) = oid
    BY <1>1, <2>1, LexFirstIs
  <2>3. decor[oid] = "scalar" \/ decor[oid] = "column"
    BY <1>4 DEF Objects, InstancePossible
  <2>4. GetnextLookup(oid, TRUE) = oid
    BY <2>3 DEF GetnextLookup, InstancePossible
  <2>5. QED
    BY <1>2, <2>2, <2>4
<1>5. CASE oid \notin Objects
  <2>1. A = { m \in Objects : LexLeq(Append(oid, 0), m) }
    <3>1. \A m \in Objects : m \in A <=> LexLeq(Append(oid, 0), m)
      BY <1>1, <1>3, <1>5, FirstChildNext
    <3>2. QED
      BY <3>1 DEF A
  <2>2. NextObject(oid, 0) = LexFirst({ m \in Objects : LexLeq(Append(oid, 0), m) }, NoNode)
    BY <1>1, <1>5, NextObjectIs
  <2>3. ~ InstancePossible(oid)
    BY <1>1, <1>5 DEF Objects
  <2>4. GetnextLookup(oid, TRUE) = NextObject(oid, 0)
    BY <2>3 DEF GetnextLookup, InstancePossible
  <2>5. QED
    BY <1>2, <2>1, <2>2, <2>4
<1>6. QED
  BY <1>4, <1>5

LEMMA AskInside ==
  ASSUME RegistryInv, NoNesting, NEW oid \in OID, Lookup(oid) # oid
  PROVE  GetnextLookup(oid, TRUE) = FirstToAsk(oid, TRUE)
<1> DEFINE n == Lookup(oid)
           A == { m \in Objects : Follows(m, oid, TRUE) }
<1>1. /\ n \in nodes /\ n \in OID /\ IsStrictPrefix(n, oid) /\ oid \notin nodes
      /\ \A m \in nodes : IsPrefix(m, oid) => IsPrefix(m, n)
  BY LookupIs DEF RegistryInv, RegistryTypeOK
<1>2. A \in SUBSET OID /\ Objects \in SUBSET OID /\ Objects \in SUBSET nodes /\ MibTypeOK
  BY DEF RegistryInv, RegistryTypeOK, MibTypeOK, Objects
<1>3. FirstToAsk(oid, TRUE) = LexFirst(A, NoNode)
  BY DEF FirstToAsk
<1>4. \A m \in Objects : m \in A <=> LexLess(oid, m) \/ (m = n /\ decor[m] = "column")
  BY <1>1, <1>2, FollowsIs
<1>5. /\ Len(n) \in Nat /\ Len(oid) \in Nat /\ Len(n) < Len(oid)
      /\ \A k \in 1..Len(n) : At(oid, k) = At(n, k)
      /\ oid[Len(n) + 1] = At(oid, Len(n) + 1) /\ At(oid, Len(n) + 1) \in Nat
      /\ \A k \in Pos : At(oid, k) \in Int
  <2>1. Len(n) \in Nat /\ Len(oid) \in Nat /\ Len(n) < Len(oid)
        /\ \A k \in 1..Len(n) : At(oid, k) = At(n, k)
    BY <1>1, AtType, PrefixAt DEF IsStrictPrefix
  <2>2. Len(n) + 1 \in Pos /\ Len(n) + 1 <= Len(oid)
    BY <2>1 DEF Pos
  <2>3. QED
    BY <2>1, <2>2, AtType
<1> HIDE DEF A, n
<1>6. ASSUME NEW m \in nodes
      PROVE  /\ LexLess(oid, m) <=> After(n, m) \/ Below(n, oid[Len(n) + 1] + 1, m)
             /\ LexLess(oid, m) => LexLess(n, m)
  <2>1. m \in OID /\ \A k \in Pos : At(m, k) \in Int
    BY <1>2, AtType DEF MibTypeOK
  <2>2. ASSUME LexLess(oid, m) PROVE After(n, m) \/ Below(n, oid[Len(n) + 1] + 1, m)
    <3>1. PICK k \in Pos : (\A j \in 1..(k - 1) : At(oid, j) = At(m, j)) /\ At(oid, k) < At(m, k)
      BY <2>1, <2>2, LexAt
    <3>2. CASE k <= Len(n)
      BY <1>5, <3>1, <3>2 DEF After, Pos
    <3>3. CASE k = Len(n) + 1
      <4>1. \A j \in 1..Len(n) : At(m, j) = At(n, j)
        BY <1>5, <3>1, <3>3
      <4>2. At(m, Len(n) + 1) >= oid[Len(n) + 1] + 1
        BY <1>5, <2>1, <3>1, <3>3
      <4>3. QED
        BY <1>1, <2>1, <4>1, <4>2, PrefixAt DEF Below
    <3>4. CASE k > Len(n) + 1
      <4> DEFINE c == Append(n, oid[Len(n) + 1])
      <4>1. /\ c \in OID /\ Len(c) = Len(n) + 1
            /\ \A j \in Pos : At(c, j) = IF j <= Len(n) THEN At(n, j)
                                         ELSE IF j = Len(n) + 1 THEN oid[Len(n) + 1] ELSE -1
        BY <1>1, <1>5, AppendAt
      <4> HIDE DEF c
      <4>2. \A j \in 1..Len(c) : At(oid, j) = At(c, j) /\ At(m, j) = At(c, j)
        BY <1>5, <3>1, <3>4, <4>1 DEF Pos
      <4>3. IsPrefix(c, oid) /\ IsPrefix(c, m)
        BY <2>1, <4>1, <4>2, PrefixAt
      <4>4. c \in nodes
        BY <1>2, <4>1, <4>3, TreeNodes
      <4>5. IsPrefix(c, n)
        BY <1>1, <4>3, <4>4
      <4>6. QED
        BY <1>1, <1>5, <4>1, <4>5, PrefixAt
    <3>5. QED
      BY <1>5, <3>2, <3>3, <3>4 DEF Pos
  <2>3. ASSUME After(n, m) PROVE LexLess(oid, m)
    <3>1. PICK k \in 1..Len(n) : /\ \A j \in 1..(k - 1) : At(m, j) = At(n, j)
                                 /\ At(n, k) < At(m, k)
      BY <2>3 DEF After
    <3>2. k \in Pos /\ At(oid, k) < At(m, k) /\ \A j \in 1..(k - 1) : At(oid, j) = At(m, j)
      BY <1>5, <3>1 DEF Pos
    <3>3. QED
      BY <2>1, <3>2, LexAt
  <2>4. ASSUME Below(n, oid[Len(n) + 1] + 1, m) PROVE LexLess(oid, m)
    <3>1. Len(n) + 1 \in Pos /\ (Len(n) + 1) - 1 = Len(n)
      BY <1>5 DEF Pos
    <3>2. /\ \A j \in 1..Len(n) : At(m, j) = At(oid, j)
          /\ At(oid, Len(n) + 1) < At(m, Len(n) + 1)
      BY <1>1, <1>5, <2>1, <2>4, <3>1, PrefixAt DEF Below
    <3>3. QED
      BY <2>1, <3>1, <3>2, LexAt
  <2>5. LexLess(oid, m) => LexLess(n, m)
    BY <1>1, <2>1, LexTransitive DEF LexLess
  <2>6. QED
    BY <2>2, <2>3, <2>4, <2>5
<1>7. CASE n \notin Objects
  <2> DEFINE t == oid[Len(n) + 1] + 1
  <2>1. t \in Nat
    BY <1>5
  <2>2. \A m \in Objects : m \in A <=> LexLeq(Append(n, t), m)
    BY <1>1, <1>2, <1>4, <1>6, <1>7, <2>1, FromChildOn
  <2>3. A = { m \in Objects : LexLeq(Append(n, t), m) }
    BY <2>2 DEF A
  <2>4. NextObject(n, t) = LexFirst({ m \in Objects : LexLeq(Append(n, t), m) }, NoNode)
    <3> HIDE DEF t
    <3>1. QED
      BY <1>1, <1>7, <2>1, NextObjectIs
  <2>5. ~ InstancePossible(n) /\ n # oid
    BY <1>1, <1>7 DEF Objects
  <2>6. GetnextLookup(oid, TRUE) = NextObject(n, t)
    BY <2>5 DEF GetnextLookup, InstancePossible, n
  <2>7. QED
    BY <1>3, <2>3, <2>4, <2>6
<1>8. CASE n \in Objects /\ decor[n] = "scalar"
  <2>1. \A m \in Objects : m \in A <=> LexLess(n, m)
    <3> SUFFICES ASSUME NEW m \in Objects PROVE m \in A <=> LexLess(n, m)
      OBVIOUS
    <3>1. m \in nodes /\ m \in OID /\ (m \in A <=> LexLess(oid, m))
      BY <1>2, <1>4, <1>8
    <3>2. LexLess(n, m) => After(n, m)
      BY <1>1, <1>8, <3>1, LexSplit DEF NoNesting
    <3>3. QED
      BY <1>6, <3>1, <3>2
  <2>2. A = { m \in Objects : LexLess(n, m) }
    BY <2>1 DEF A
  <2>3. AfterSubtree(n) = LexFirst({ m \in Objects : LexLess(n, m) }, NoNode)
    BY <1>8, AfterSubtreeIs
  <2>4. GetnextLookup(oid, TRUE) = AfterSubtree(n)
    BY <1>1, <1>8 DEF GetnextLookup, InstancePossible, n
  <2>5. QED
    BY <1>3, <2>2, <2>3, <2>4
<1>9. CASE n \in Objects /\ decor[n] = "column"
  <2>1. n \in A /\ \A b \in A : LexLeq(n, b)
    BY <1>2, <1>4, <1>6, <1>9 DEF LexLeq, A
  <2>2. LexFirst(A, NoNode) = n
    BY <1>2, <2>1, LexFirstIs
  <2>3. GetnextLookup(oid, TRUE) = n
    BY <1>1, <1>9 DEF GetnextLookup, InstancePossible, n
  <2>4. QED
    BY <1>3, <2>2, <2>3
<1>10. QED
  BY <1>7, <1>8, <1>9 DEF Objects, InstancePossible

LEMMA AskAfterColumn ==
  ASSUME RegistryInv, NEW n \in Objects, decor[n] = "column"
  PROVE  /\ GetnextLookup(n, FALSE) = AfterSubtree(n)
         /\ NoNesting => GetnextLookup(n, FALSE) = FirstToAsk(n, FALSE)
<1>1. n \in nodes /\ n \in OID /\ Lookup(n) = n
  BY ObjectNode, LookupIs
<1>2. GetnextLookup(n, FALSE) = AfterSubtree(n)
  BY <1>1 DEF GetnextLookup, InstancePossible
<1>3. ASSUME NoNesting PROVE AfterSubtree(n) = FirstToAsk(n, FALSE)
  <2>1. { m \in Objects : LexLess(n, m) } = { m \in Objects : Follows(m, n, FALSE) }
    BY <1>1, <1>3, FollowsIs
  <2>2. QED
    BY <1>3, <2>1, AfterSubtreeIs DEF FirstToAsk
<1>4. QED
  BY <1>2, <1>3

(***************************************************************************)
(* _getnext_lookup keeps its claim of "doing the right thing for each"     *)
(* case: in every registry of objects that are not nested, the first       *)
(* question goes to the first object that may hold an instance after the   *)
(* identifier asked for, and the question after a column that had nothing  *)
(* more to the first object after that column.                             *)
(***************************************************************************)
THEOREM GetNextCorrect == RegistrySpec => []GetNextAsksTheFirst
<1>1. RegistryInv => GetNextAsksTheFirst
  <2> SUFFICES ASSUME RegistryInv, NoNesting PROVE GetNextAsksTheFirst
    BY DEF GetNextAsksTheFirst
  <2>1. ASSUME NEW oid \in Oids PROVE GetnextLookup(oid, TRUE) = FirstToAsk(oid, TRUE)
    BY OidsAssumption, AskExact, AskInside
  <2>2. ASSUME NEW n \in Objects, decor[n] = "column"
        PROVE  GetnextLookup(n, FALSE) = FirstToAsk(n, FALSE)
    BY <2>2, AskAfterColumn
  <2>3. QED
    BY <2>1, <2>2 DEF GetNextAsksTheFirst
<1>2. QED
  BY <1>1, RegistryInvariant, PTL

(***************************************************************************)
(* Asking again from the column just exhausted leads to an object that is  *)
(* after the whole of the column, or that encloses it, in every registry,  *)
(* nested or not: the questions for one binding come to an end.            *)
(***************************************************************************)
THEOREM ChainEnds == RegistrySpec => []GetNextChainEnds
<1>1. RegistryInv => GetNextChainEnds
  <2> SUFFICES ASSUME RegistryInv, NEW n \in Objects, decor[n] = "column",
                      GetnextLookup(n, FALSE) # NoNode
               PROVE  LET m == GetnextLookup(n, FALSE)
                      IN IsStrictPrefix(m, n) \/ (~ IsPrefix(n, m) /\ LexLess(n, m))
    BY DEF GetNextChainEnds
  <2> DEFINE f == Front(n)
             t == Last(n) + 1
             m == Found(Objects, f, t)
  <2>1. /\ n \in nodes /\ n \in OID /\ n # Root /\ f \in nodes /\ t \in Nat
        /\ Tree /\ MibTypeOK /\ Objects \in SUBSET nodes /\ Objects \in SUBSET OID
    BY ObjectNode
  <2>2. f \in OID /\ Len(f) = Len(n) - 1 /\ f \in Prefixes(n) /\ Len(n) \in Nat
    BY <2>1, FrontAt, AtType
  <2>3. IsStrictPrefix(f, n)
    BY <2>1, <2>2, PrefixesAre DEF IsStrictPrefix
  <2>4. GetnextLookup(n, FALSE) = m
    <3> HIDE DEF f, t
    <3>1. NextMatch(Objects, f, t) = Found(Objects, f, t)
      BY <2>1, NextMatchIs
    <3>2. QED
      BY <3>1, AskAfterColumn DEF AfterSubtree, NextObject, f, t
  <2>5. \A b \in OID : LexLeq(Append(f, t), b) <=> After(n, b)
    BY <2>1, NextSibling
  <2> HIDE DEF f, t
  <2>6. PICK k \in 0..Len(f) : m \in Level(Objects, f, t, k)
    BY <2>1, <2>4, FoundNone
  <2>7. m \in OID
    BY <2>1, <2>6 DEF Level, Reach
  <2> HIDE DEF m
  <2>8. (IsStrictPrefix(m, f) \/ m = f) \/ (After(f, m) \/ Below(f, t, m))
    BY <2>1, <2>6, LevelsAfter
  <2>9. CASE IsStrictPrefix(m, f) \/ m = f
    <3>1. IsStrictPrefix(m, n)
      <4>1. IsPrefix(m, f) /\ Len(m) <= Len(f) /\ Len(m) \in Nat
        BY <2>2, <2>7, <2>9, PrefixAt, AtType DEF IsStrictPrefix
      <4>2. \A j \in 1..Len(m) : At(n, j) = At(m, j)
        <5>1. \A j \in 1..Len(m) : At(f, j) = At(m, j)
          BY <2>2, <2>7, <4>1, PrefixAt
        <5>2. \A j \in 1..Len(f) : At(n, j) = At(f, j)
          BY <2>1, <2>2, <2>3, PrefixAt DEF IsStrictPrefix
        <5>3. QED
          BY <2>2, <4>1, <5>1, <5>2
      <4>3. IsPrefix(m, n) /\ m # n
        BY <2>1, <2>2, <2>7, <4>1, <4>2, PrefixAt
      <4>4. QED
        BY <4>3 DEF IsStrictPrefix
    <3>2. QED
      BY <2>4, <3>1
  <2>10. CASE After(f, m) \/ Below(f, t, m)
    <3>1. After(n, m)
      BY <2>1, <2>2, <2>5, <2>7, <2>10, FromChildOn
    <3>2. QED
      BY <2>1, <2>4, <2>7, <3>1, LexSplit
  <2>11. QED
    BY <2>8, <2>9, <2>10
<1>2. QED
  BY <1>1, RegistryInvariant, PTL
=============================================================================
