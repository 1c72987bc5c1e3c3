------------------------------- MODULE OidProofs -----------------------------
(***************************************************************************)
(* Facts about sets of naturals, about prefixes and about the order of     *)
(* object identifiers that the proofs of the other modules rest on.        *)
(***************************************************************************)
EXTENDS Oid, SequenceTheorems, FiniteSetTheorems, WellFoundedInduction, TLAPS

(* A nonempty set of naturals has a least element.                         *)
LEMMA NatMin ==
  ASSUME NEW S \in SUBSET Nat, S # {}
  PROVE  \E m \in S : \A n \in S : m <= n
<1> DEFINE R == { ss \in Nat \X Nat : ss[1] < ss[2] }
<1>1. IsWellFoundedOn(OpToRel(<, Nat), Nat)
  BY NatLessThanWellFounded, Zenon
<1>2. OpToRel(<, Nat) = R
  BY Zenon DEF OpToRel
<1>3. PICK m \in S : \A n \in S : ~ (<<n, m>> \in R)
  <2>1. IsWellFoundedOn(R, Nat)
    BY <1>1, <1>2, Zenon
  <2> HIDE DEF R
  <2>2. QED
    BY <2>1, WFMin, Zenon
<1>4. \A n \in S : ~ (n < m)
  BY <1>3
<1>5. QED
  BY <1>4

(* A nonempty bounded set of naturals has a greatest element.              *)
LEMMA NatMax ==
  ASSUME NEW S \in SUBSET Nat, S # {}, NEW b \in Nat, \A n \in S : n <= b
  PROVE  \E m \in S : \A n \in S : n <= m
<1> DEFINE T == { k \in Nat : b - k \in S }
<1>1. PICK n \in S : TRUE
  OBVIOUS
<1>2. b - n \in T
  BY <1>1
<1>3. PICK k \in T : \A j \in T : k <= j
  BY <1>2, NatMin
<1>4. \A j \in S : j <= b - k
  <2> SUFFICES ASSUME NEW j \in S PROVE j <= b - k
    OBVIOUS
  <2>1. b - j \in T
    OBVIOUS
  <2>2. k <= b - j
    BY <2>1, <1>3, Zenon
  <2>3. k \in Nat /\ j \in Nat
    OBVIOUS
  <2> HIDE DEF T
  <2>4. QED
    BY <2>2, <2>3
<1>5. b - k \in S
  BY <1>3
<1>6. QED
  BY <1>4, <1>5, Zenon

(* What Prefixes returns, and that it is closed under taking prefixes.     *)
LEMMA PrefixesProperties ==
  ASSUME NEW s \in OID
  PROVE  /\ Prefixes(s) \subseteq OID
         /\ Root \in Prefixes(s)
         /\ s \in Prefixes(s)
         /\ \A p \in Prefixes(s) : Len(p) <= Len(s) /\ Prefixes(p) \subseteq Prefixes(s)
<1>1. \A l \in 0..Len(s) : /\ SubSeq(s, 1, l) \in Seq(Nat)
                           /\ Len(SubSeq(s, 1, l)) = l
                           /\ \A i \in 1..l : SubSeq(s, 1, l)[i] = s[i]
  BY SubSeqProperties DEF OID
<1>2. Prefixes(s) \subseteq OID
  BY <1>1 DEF Prefixes, OID
<1>3. Root \in Prefixes(s)
  <2>1. SubSeq(s, 1, 0) = << >>
    BY <1>1
  <2>2. QED
    BY <2>1 DEF Prefixes, Root, OID
<1>4. s \in Prefixes(s)
  <2>1. SubSeq(s, 1, Len(s)) = s
    BY SubSeqFull DEF OID
  <2>2. Len(s) \in 0..Len(s)
    BY DEF OID
  <2>3. QED
    BY <2>1, <2>2, Zenon DEF Prefixes
<1>5. ASSUME NEW l \in 0..Len(s), NEW k \in 0..l
      PROVE  SubSeq(SubSeq(s, 1, l), 1, k) = SubSeq(s, 1, k)
  BY <1>1, SeqEqual DEF OID
<1>6. ASSUME NEW p \in Prefixes(s)
      PROVE  Len(p) <= Len(s) /\ Prefixes(p) \subseteq Prefixes(s)
  <2>1. PICK l \in 0..Len(s) : p = SubSeq(s, 1, l)
    BY DEF Prefixes
  <2>2. Len(p) = l
    BY <1>1, <2>1
  <2>3. ASSUME NEW q \in Prefixes(p) PROVE q \in Prefixes(s)
    <3>1. PICK k \in 0..l : q = SubSeq(p, 1, k)
      BY <2>2 DEF Prefixes
    <3>2. q = SubSeq(s, 1, k)
      BY <3>1, <2>1, <1>5
    <3>3. QED
      BY <3>2 DEF Prefixes, OID
  <2>4. QED
    BY <2>2, <2>3 DEF OID
<1>7. QED
  BY <1>2, <1>3, <1>4, <1>6

----------------------------------------------------------------------------
(***************************************************************************)
(* The order.  An identifier is read as if its arcs were followed by -1    *)
(* without end: then prefixes and order speak of one position at a time.   *)
(***************************************************************************)
Pos == Nat \ {0}
At(s, k) == IF k \in 1..Len(s) THEN s[k] ELSE -1

LEMMA AtType ==
  ASSUME NEW s \in OID
  PROVE  /\ Len(s) \in Nat
         /\ \A k \in Pos : At(s, k) \in Int
         /\ \A k \in Pos : k <= Len(s) => At(s, k) = s[k] /\ At(s, k) >= 0
         /\ \A k \in Pos : k > Len(s) => At(s, k) = -1
BY DEF OID, Pos, At

LEMMA AtEqual ==
  ASSUME NEW a \in OID, NEW b \in OID, \A k \in Pos : At(a, k) = At(b, k)
  PROVE  a = b
<1>1. Len(a) \in Nat /\ Len(b) \in Nat
  BY AtType
<1>2. ~ (Len(a) < Len(b))
  <2> SUFFICES ASSUME Len(a) < Len(b) PROVE FALSE
    OBVIOUS
  <2>1. Len(b) \in Pos /\ Len(b) > Len(a) /\ Len(b) <= Len(b)
    BY <1>1 DEF Pos
  <2>2. At(a, Len(b)) = -1 /\ At(b, Len(b)) >= 0
    BY <2>1, AtType
  <2>3. QED
    BY <2>1, <2>2
<1>3. ~ (Len(b) < Len(a))
  <2> SUFFICES ASSUME Len(b) < Len(a) PROVE FALSE
    OBVIOUS
  <2>1. Len(a) \in Pos /\ Len(a) > Len(b) /\ Len(a) <= Len(a)
    BY <1>1 DEF Pos
  <2>2. At(b, Len(a)) = -1 /\ At(a, Len(a)) >= 0
    BY <2>1, AtType
  <2>3. QED
    BY <2>1, <2>2
<1>4. Len(a) = Len(b)
  BY <1>1, <1>2, <1>3
<1>5. ASSUME NEW k \in 1..Len(a) PROVE a[k] = b[k]
  <2>1. k \in Pos
    BY <1>1 DEF Pos
  <2>2. QED
    BY <1>1, <1>4, <2>1, AtType
<1>6. QED
  BY <1>4, <1>5, SeqEqual DEF OID

(* A prefix agrees as far as it goes.                                      *)
LEMMA PrefixAt ==
  ASSUME NEW a \in OID, NEW b \in OID
  PROVE  /\ IsPrefix(a, b) <=> \A k \in 1..Len(a) : At(b, k) = At(a, k)
         /\ IsPrefix(a, b) => Len(a) <= Len(b)
         /\ IsPrefix(a, b) /\ Len(a) = Len(b) => a = b
<1>1. Len(a) \in Nat /\ Len(b) \in Nat
  BY AtType
<1>2. /\ SubSeq(a, 1, Len(a)) \in Seq(Nat)
      /\ Len(SubSeq(a, 1, Len(a))) = Len(a)
      /\ \A k \in 1..Len(a) : SubSeq(a, 1, Len(a))[k] = a[k]
  BY <1>1, SubSeqProperties DEF OID
<1>3. Len(a) <= Len(b) => /\ SubSeq(b, 1, Len(a)) \in Seq(Nat)
                          /\ Len(SubSeq(b, 1, Len(a))) = Len(a)
                          /\ \A k \in 1..Len(a) : SubSeq(b, 1, Len(a))[k] = b[k]
  BY <1>1, SubSeqProperties DEF OID
<1>4. IsPrefix(a, b) <=> Len(a) <= Len(b) /\ \A k \in 1..Len(a) : b[k] = a[k]
  <2>1. ASSUME IsPrefix(a, b)
        PROVE  Len(a) <= Len(b) /\ \A k \in 1..Len(a) : b[k] = a[k]
    BY <1>2, <1>3, <2>1 DEF IsPrefix
  <2>2. ASSUME Len(a) <= Len(b), \A k \in 1..Len(a) : b[k] = a[k]
        PROVE  IsPrefix(a, b)
    <3>1. SubSeq(a, 1, Len(a)) = SubSeq(b, 1, Len(a))
      BY <1>2, <1>3, <2>2, SeqEqual
    <3>2. QED
      BY <2>2, <3>1 DEF IsPrefix
  <2>3. QED
    BY <2>1, <2>2
<1>5. Len(a) <= Len(b) => ((\A k \in 1..Len(a) : b[k] = a[k])
                            <=> \A k \in 1..Len(a) : At(b, k) = At(a, k))
  BY <1>1 DEF At
<1>6. ASSUME \A k \in 1..Len(a) : At(b, k) = At(a, k) PROVE Len(a) <= Len(b)
  <2>1. CASE Len(b) < Len(a)
    <3>1. Len(a) \in Pos /\ Len(a) \in 1..Len(a)
      BY <1>1, <2>1 DEF Pos
    <3>2. QED
      BY <1>6, <2>1, <3>1, AtType
  <2>2. QED
    BY <1>1, <2>1
<1>7. IsPrefix(a, b) /\ Len(a) = Len(b) => a = b
  BY <1>4, SeqEqual DEF OID
<1>8. QED
  BY <1>4, <1>5, <1>6, <1>7

(* LexLess: at the first position where they differ, one is less.          *)
LEMMA LexAt ==
  ASSUME NEW a \in OID, NEW b \in OID
  PROVE  LexLess(a, b) <=> \E k \in Pos : /\ \A j \in 1..(k - 1) : At(a, j) = At(b, j)
                                          /\ At(a, k) < At(b, k)
<1>1. Len(a) \in Nat /\ Len(b) \in Nat
  BY AtType
<1>2. ASSUME IsStrictPrefix(a, b)
      PROVE  \E k \in Pos : /\ \A j \in 1..(k - 1) : At(a, j) = At(b, j)
                            /\ At(a, k) < At(b, k)
  <2>1. Len(a) < Len(b) /\ \A j \in 1..Len(a) : At(a, j) = At(b, j)
    BY <1>1, <1>2, PrefixAt DEF IsStrictPrefix
  <2>2. Len(a) + 1 \in Pos /\ (Len(a) + 1) - 1 = Len(a)
    BY <1>1 DEF Pos
  <2>3. At(a, Len(a) + 1) = -1 /\ At(b, Len(a) + 1) >= 0 /\ At(b, Len(a) + 1) \in Int
    BY <1>1, <2>1, <2>2, AtType
  <2>4. QED
    BY <2>1, <2>2, <2>3
<1>3. ASSUME NEW k \in 1..Len(a), k <= Len(b), \A j \in 1..(k - 1) : a[j] = b[j],
             a[k] < b[k]
      PROVE  \E i \in Pos : /\ \A j \in 1..(i - 1) : At(a, j) = At(b, j)
                            /\ At(a, i) < At(b, i)
  <2>1. k \in Pos /\ At(a, k) < At(b, k) /\ \A j \in 1..(k - 1) : At(a, j) = At(b, j)
    BY <1>1, <1>3 DEF Pos, At
  <2>2. QED
    BY <2>1
<1>4. ASSUME NEW k \in Pos, \A j \in 1..(k - 1) : At(a, j) = At(b, j), At(a, k) < At(b, k)
      PROVE  LexLess(a, b)
  <2>1. k <= Len(b)
    <3>1. At(a, k) >= -1 /\ At(a, k) \in Int
      BY <1>1, AtType DEF Pos, At, OID
    <3>2. CASE k > Len(b)
      BY <1>4, <3>1, <3>2, AtType
    <3>3. QED
      BY <1>1, <3>2 DEF Pos
  <2>2. CASE k <= Len(a)
    <3>1. a[k] < b[k] /\ \A j \in 1..(k - 1) : a[j] = b[j]
      BY <1>1, <1>4, <2>1, <2>2 DEF Pos, At
    <3>2. QED
      BY <2>1, <2>2, <3>1 DEF LexLess, Pos
  <2>3. CASE k > Len(a)
    <3>1. \A j \in 1..Len(a) : At(b, j) = At(a, j)
      BY <1>1, <1>4, <2>3 DEF Pos
    <3>2. IsPrefix(a, b) /\ Len(a) < Len(b)
      BY <1>1, <2>1, <2>3, <3>1, PrefixAt DEF Pos
    <3>3. QED
      BY <1>1, <3>2 DEF LexLess, IsStrictPrefix
  <2>4. QED
    BY <1>1, <2>2, <2>3 DEF Pos
<1>5. QED
  BY <1>2, <1>3, <1>4 DEF LexLess

LEMMA LexIrreflexive == ASSUME NEW a \in OID PROVE ~ LexLess(a, a)
BY LexAt, AtType

LEMMA LexTransitive ==
  ASSUME NEW a \in OID, NEW b \in OID, NEW c \in OID, LexLess(a, b), LexLess(b, c)
  PROVE  LexLess(a, c)
<1>1. PICK k \in Pos : (\A j \in 1..(k - 1) : At(a, j) = At(b, j)) /\ At(a, k) < At(b, k)
  BY LexAt
<1>2. PICK l \in Pos : (\A j \in 1..(l - 1) : At(b, j) = At(c, j)) /\ At(b, l) < At(c, l)
  BY LexAt
<1>3. \A j \in Pos : At(a, j) \in Int /\ At(b, j) \in Int /\ At(c, j) \in Int
  BY AtType
<1>4. CASE k < l
  <2>1. At(a, k) < At(c, k) /\ \A j \in 1..(k - 1) : At(a, j) = At(c, j)
    BY <1>1, <1>2, <1>3, <1>4 DEF Pos
  <2>2. QED
    BY <2>1, LexAt
<1>5. CASE l <= k
  <2>1. At(a, l) < At(c, l) /\ \A j \in 1..(l - 1) : At(a, j) = At(c, j)
    BY <1>1, <1>2, <1>3, <1>5 DEF Pos
  <2>2. QED
    BY <2>1, LexAt
<1>6. QED
  BY <1>4, <1>5 DEF Pos

(* Any two identifiers are the same or one comes first.                    *)
LEMMA LexTotal ==
  ASSUME NEW a \in OID, NEW b \in OID
  PROVE  a = b \/ LexLess(a, b) \/ LexLess(b, a)
<1> SUFFICES ASSUME a # b PROVE LexLess(a, b) \/ LexLess(b, a)
  OBVIOUS
<1> DEFINE D == { k \in Pos : At(a, k) # At(b, k) }
<1>1. D # {} /\ D \in SUBSET Nat
  BY AtEqual DEF Pos
<1>2. PICK k \in D : \A j \in D : k <= j
  BY <1>1, NatMin, Zenon
<1>3. k \in Pos /\ At(a, k) \in Int /\ At(b, k) \in Int /\ At(a, k) # At(b, k)
  BY AtType
<1>4. \A j \in 1..(k - 1) : At(a, j) = At(b, j)
  BY <1>2, <1>3 DEF Pos
<1> HIDE DEF D
<1>5. QED
  BY <1>3, <1>4, LexAt

(* The first of a set is the one that no other comes before ...            *)
LEMMA LexFirstIs ==
  ASSUME NEW S \in SUBSET OID, NEW none, NEW m \in S, \A b \in S : LexLeq(m, b)
  PROVE  LexFirst(S, none) = m
<1>1. \A a \in S : (\A b \in S : LexLeq(a, b)) => a = m
  <2> SUFFICES ASSUME NEW a \in S, \A b \in S : LexLeq(a, b) PROVE a = m
    OBVIOUS
  <2>1. LexLeq(a, m) /\ LexLeq(m, a) /\ a \in OID /\ m \in OID
    OBVIOUS
  <2>2. ~ (LexLess(a, m) /\ LexLess(m, a))
    BY <2>1, LexTransitive, LexIrreflexive
  <2>3. QED
    BY <2>1, <2>2 DEF LexLeq
<1> DEFINE first == CHOOSE a \in S : \A b \in S : LexLeq(a, b)
<1>2. first \in S /\ \A b \in S : LexLeq(first, b)
  BY Zenon
<1>3. first = m
  BY <1>1, <1>2, Zenon
<1>4. S # {}
  OBVIOUS
<1>5. LexFirst(S, none) = first
  BY <1>4, Zenon DEF LexFirst
<1>6. QED
  BY <1>3, <1>5

(* ... and a finite set that is not empty has one.                         *)
LEMMA LexFirstExists ==
  ASSUME NEW S \in SUBSET OID, IsFiniteSet(S), S # {}, NEW none
  PROVE  LexFirst(S, none) \in S /\ \A b \in S : LexLeq(LexFirst(S, none), b)
<1> DEFINE Pred(x) == { y \in S : LexLess(y, x) }
           C == { c \in Nat : \E x \in S : Cardinality(Pred(x)) = c }
<1>1. \A x \in S : IsFiniteSet(Pred(x)) /\ Cardinality(Pred(x)) \in Nat
  BY FS_Subset, FS_CardinalityType
<1>2. C # {} /\ C \in SUBSET Nat
  BY <1>1
<1>3. PICK c \in C : \A d \in C : c <= d
  <2> HIDE DEF C
  <2>1. QED
    BY <1>2, NatMin
<1>4. PICK m \in S : Cardinality(Pred(m)) = c
  OBVIOUS
<1>5. ASSUME NEW y \in S, LexLess(y, m) PROVE FALSE
  <2>1. Pred(y) \subseteq Pred(m)
    BY <1>5, LexTransitive
  <2>2. y \in Pred(m) /\ y \notin Pred(y)
    BY <1>5, LexIrreflexive
  <2>3. Cardinality(Pred(y)) <= Cardinality(Pred(m)) /\ Cardinality(Pred(y)) # Cardinality(Pred(m))
    <3> HIDE DEF Pred
    <3>1. QED
      BY <1>1, <2>1, <2>2, FS_Subset
  <2>4. Cardinality(Pred(y)) \in C
    BY <1>1
  <2>5. c <= Cardinality(Pred(y))
    BY <1>3, <2>4, Zenon
  <2> HIDE DEF Pred, C
  <2>6. QED
    BY <1>1, <1>4, <2>3, <2>5
<1>6. \A b \in S : LexLeq(m, b)
  BY <1>5, LexTotal DEF LexLeq
<1>7. QED
  BY <1>6, LexFirstIs

----------------------------------------------------------------------------
(* Identifiers made of others, position by position.                       *)
LEMMA AppendAt ==
  ASSUME NEW n \in OID, NEW a \in Nat
  PROVE  /\ Append(n, a) \in OID
         /\ Append(n, a) # Root
         /\ Len(Append(n, a)) = Len(n) + 1
         /\ \A k \in Pos : At(Append(n, a), k) = IF k <= Len(n) THEN At(n, k)
                                                 ELSE IF k = Len(n) + 1 THEN a ELSE -1
<1>1. /\ Append(n, a) \in Seq(Nat) /\ Append(n, a) # << >>
      /\ Len(Append(n, a)) = Len(n) + 1
      /\ \A i \in 1..Len(n) : Append(n, a)[i] = n[i]
      /\ Append(n, a)[Len(n) + 1] = a
  BY AppendProperties DEF OID
<1>2. Len(n) \in Nat
  BY AtType
<1>3. QED
  BY <1>1, <1>2 DEF OID, Pos, At, Root

(* The first k arcs of an identifier.                                      *)
Upto(n, k) == SubSeq(n, 1, k)

LEMMA UptoAt ==
  ASSUME NEW n \in OID, NEW k \in 0..Len(n)
  PROVE  /\ Upto(n, k) \in OID
         /\ Upto(n, k) \in Prefixes(n)
         /\ Len(Upto(n, k)) = k
         /\ \A j \in Pos : At(Upto(n, k), j) = IF j <= k THEN At(n, j) ELSE -1
<1>1. Len(n) \in Nat
  BY AtType
<1>2. /\ SubSeq(n, 1, k) \in Seq(Nat)
      /\ Len(SubSeq(n, 1, k)) = k
      /\ \A i \in 1..k : SubSeq(n, 1, k)[i] = n[i]
  BY <1>1, SubSeqProperties DEF OID
<1>3. QED
  BY <1>1, <1>2 DEF OID, Pos, At, Upto, Prefixes

(* Prefixes is what IsPrefix says.                                         *)
LEMMA PrefixesAre ==
  ASSUME NEW n \in OID, NEW p \in OID
  PROVE  p \in Prefixes(n) <=> IsPrefix(p, n)
<1>1. Len(n) \in Nat /\ Len(p) \in Nat
  BY AtType
<1>2. ASSUME NEW k \in 0..Len(n), p = SubSeq(n, 1, k) PROVE IsPrefix(p, n)
  <2>1. Len(p) = k /\ \A j \in Pos : At(p, j) = IF j <= k THEN At(n, j) ELSE -1
    BY <1>2, UptoAt DEF Upto
  <2>2. \A j \in 1..Len(p) : At(n, j) = At(p, j)
    BY <1>1, <2>1 DEF Pos
  <2>3. QED
    BY <2>2, PrefixAt
<1>3. ASSUME IsPrefix(p, n) PROVE p = Upto(n, Len(p)) /\ Len(p) \in 0..Len(n)
  <2>1. Len(p) \in 0..Len(n) /\ \A k \in 1..Len(p) : At(n, k) = At(p, k)
    BY <1>1, <1>3, PrefixAt
  <2>2. \A k \in Pos : At(Upto(n, Len(p)), k) = At(p, k)
    BY <1>1, <2>1, UptoAt, AtType DEF Pos
  <2>3. QED
    BY <2>1, <2>2, UptoAt, AtEqual
<1>4. QED
  BY <1>2, <1>3 DEF Prefixes, Upto

LEMMA FrontAt ==
  ASSUME NEW n \in OID, n # Root
  PROVE  /\ Len(n) > 0
         /\ Front(n) \in OID
         /\ Len(Front(n)) = Len(n) - 1
         /\ \A k \in Pos : At(Front(n), k) = IF k < Len(n) THEN At(n, k) ELSE -1
         /\ Front(n) \in Prefixes(n)
         /\ Last(n) \in Nat /\ Last(n) = At(n, Len(n))
         /\ Append(Front(n), Last(n)) = n
<1>1. Len(n) \in Nat /\ Len(n) > 0
  BY AtType, EmptySeq DEF OID, Root
<1>2. Len(n) - 1 \in 0..Len(n) /\ Front(n) = Upto(n, Len(n) - 1)
  BY <1>1 DEF Front, Upto
<1>3. /\ Front(n) \in OID
      /\ Len(Front(n)) = Len(n) - 1
      /\ Front(n) \in Prefixes(n)
      /\ \A k \in Pos : At(Front(n), k) = IF k <= Len(n) - 1 THEN At(n, k) ELSE -1
  BY <1>2, UptoAt
<1>4. Last(n) = At(n, Len(n)) /\ Last(n) \in Nat
  BY <1>1 DEF Last, At, OID
<1>5. ASSUME NEW f, f = Front(n), NEW l, l = Last(n) PROVE Append(f, l) = n
  <2>1. f \in OID /\ l \in Nat
    BY <1>3, <1>4, <1>5
  <2>2. /\ Append(f, l) \in OID
        /\ \A k \in Pos : At(Append(f, l), k) = IF k <= Len(f) THEN At(f, k)
                                                ELSE IF k = Len(f) + 1 THEN l ELSE -1
    BY <2>1, AppendAt
  <2>3. \A k \in Pos : k > Len(n) => At(n, k) = -1
    BY AtType
  <2>4. ASSUME NEW k \in Pos PROVE At(Append(f, l), k) = At(n, k)
    <3>1. Len(f) = Len(n) - 1 /\ l = At(n, Len(n)) /\ k \in Nat
      BY <1>3, <1>4, <1>5 DEF Pos
    <3>2. CASE k < Len(n)
      BY <1>1, <1>3, <1>5, <2>2, <3>1, <3>2
    <3>3. CASE k = Len(n)
      BY <1>1, <2>2, <3>1, <3>3
    <3>4. CASE k > Len(n)
      BY <1>1, <2>2, <2>3, <3>1, <3>4
    <3>5. QED
      BY <1>1, <3>1, <3>2, <3>3, <3>4
  <2>5. QED
    BY <2>2, <2>4, AtEqual
<1>6. \A k \in Pos : k <= Len(n) - 1 <=> k < Len(n)
  BY <1>1 DEF Pos
<1>7. QED
  BY <1>1, <1>3, <1>4, <1>5, <1>6

LEMMA FrontOfAppend ==
  ASSUME NEW n \in OID, NEW a \in Nat
  PROVE  Front(Append(n, a)) = n /\ Last(Append(n, a)) = a
<1> DEFINE c == Append(n, a)
<1>1. /\ c \in OID /\ c # Root /\ Len(c) = Len(n) + 1 /\ Len(n) \in Nat
      /\ \A k \in Pos : At(c, k) = IF k <= Len(n) THEN At(n, k)
                                   ELSE IF k = Len(n) + 1 THEN a ELSE -1
  BY AppendAt, AtType
<1> HIDE DEF c
<1>2. /\ Front(c) \in OID /\ Last(c) = At(c, Len(c))
      /\ \A k \in Pos : At(Front(c), k) = IF k < Len(c) THEN At(c, k) ELSE -1
  BY <1>1, FrontAt
<1>3. \A k \in Pos : k > Len(n) => At(n, k) = -1
  BY AtType
<1>4. \A k \in Pos : At(Front(c), k) = At(n, k)
  BY <1>1, <1>2, <1>3 DEF Pos
<1>5. Front(c) = n /\ Last(c) = a
  BY <1>1, <1>2, <1>4, AtEqual DEF Pos
<1>6. QED
  BY <1>5 DEF c

(***************************************************************************)
(* Everything at or after the s-th child of n: what comes after all of n's *)
(* subtree, and what lies below n from that child on.                      *)
(***************************************************************************)
After(n, m) == \E k \in 1..Len(n) : /\ \A j \in 1..(k - 1) : At(m, j) = At(n, j)
                                    /\ At(n, k) < At(m, k)

Below(n, s, m) == IsPrefix(n, m) /\ At(m, Len(n) + 1) >= s

LEMMA FromChildOn ==
  ASSUME NEW n \in OID, NEW s \in Nat, NEW m \in OID
  PROVE  LexLeq(Append(n, s), m) <=> After(n, m) \/ Below(n, s, m)
<1> DEFINE c == Append(n, s)
<1>1. /\ c \in OID /\ Len(c) = Len(n) + 1 /\ Len(n) \in Nat
      /\ \A k \in Pos : At(c, k) = IF k <= Len(n) THEN At(n, k)
                                   ELSE IF k = Len(n) + 1 THEN s ELSE -1
      /\ \A k \in Pos : At(m, k) \in Int /\ At(m, k) >= -1 /\ At(n, k) \in Int
  BY AppendAt, AtType DEF Pos, At, OID
<1> HIDE DEF c
<1>2. ASSUME After(n, m) PROVE LexLess(c, m)
  <2>1. PICK k \in 1..Len(n) : /\ \A j \in 1..(k - 1) : At(m, j) = At(n, j)
                               /\ At(n, k) < At(m, k)
    BY <1>2 DEF After
  <2>2. k \in Pos /\ At(c, k) < At(m, k) /\ \A j \in 1..(k - 1) : At(c, j) = At(m, j)
    BY <1>1, <2>1 DEF Pos
  <2>3. QED
    BY <1>1, <2>2, LexAt
<1>3. ASSUME Below(n, s, m) PROVE LexLeq(c, m)
  <2>1. \A k \in 1..Len(n) : At(m, k) = At(c, k)
    BY <1>1, <1>3, PrefixAt DEF Below, Pos
  <2>2. CASE At(m, Len(n) + 1) > s
    <3>1. Len(n) + 1 \in Pos /\ (Len(n) + 1) - 1 = Len(n)
      BY <1>1 DEF Pos
    <3>2. QED
      BY <1>1, <2>1, <2>2, <3>1, LexAt DEF LexLeq
  <2>3. CASE At(m, Len(n) + 1) = s
    <3>1. \A k \in 1..Len(c) : At(m, k) = At(c, k)
      BY <1>1, <2>1, <2>3 DEF Pos
    <3>2. IsPrefix(c, m)
      BY <1>1, <3>1, PrefixAt
    <3>3. QED
      BY <3>2 DEF LexLeq, LexLess, IsStrictPrefix
  <2>4. QED
    BY <1>1, <1>3, <2>2, <2>3 DEF Below, Pos
<1>4. ASSUME c = m PROVE Below(n, s, m)
  <2>1. \A k \in 1..Len(n) : At(m, k) = At(n, k)
    BY <1>1, <1>4 DEF Pos
  <2>2. At(m, Len(n) + 1) = s
    BY <1>1, <1>4 DEF Pos
  <2>3. QED
    BY <2>1, <2>2, PrefixAt DEF Below
<1>5. ASSUME LexLess(c, m) PROVE After(n, m) \/ Below(n, s, m)
  <2>1. PICK k \in Pos : (\A j \in 1..(k - 1) : At(c, j) = At(m, j)) /\ At(c, k) < At(m, k)
    BY <1>1, <1>5, LexAt
  <2>2. CASE k <= Len(n)
    BY <1>1, <2>1, <2>2 DEF After, Pos
  <2>3. CASE k > Len(n)
    <3>1. \A j \in 1..Len(n) : At(m, j) = At(n, j)
      BY <1>1, <2>1, <2>3 DEF Pos
    <3>2. At(m, Len(n) + 1) >= s
      BY <1>1, <2>1, <2>3 DEF Pos
    <3>3. QED
      BY <3>1, <3>2, PrefixAt DEF Below
  <2>4. QED
    BY <1>1, <2>2, <2>3 DEF Pos
<1>6. QED
  BY <1>2, <1>3, <1>4, <1>5 DEF LexLeq, c

(* What comes after an identifier is below it or after all that is.        *)
LEMMA LexSplit ==
  ASSUME NEW n \in OID, NEW m \in OID
  PROVE  /\ LexLess(n, m) <=> After(n, m) \/ IsStrictPrefix(n, m)
         /\ After(n, m) => ~ IsPrefix(n, m)
<1>1. Len(n) \in Nat /\ \A k \in Pos : At(n, k) \in Int /\ At(m, k) \in Int
  BY AtType
<1>2. ASSUME LexLess(n, m) PROVE After(n, m) \/ IsStrictPrefix(n, m)
  <2>1. PICK k \in Pos : (\A j \in 1..(k - 1) : At(n, j) = At(m, j)) /\ At(n, k) < At(m, k)
    BY <1>2, LexAt
  <2>2. CASE k <= Len(n)
    BY <1>1, <2>1, <2>2 DEF After, Pos
  <2>3. CASE k > Len(n)
    <3>1. \A j \in 1..Len(n) : At(m, j) = At(n, j)
      BY <1>1, <2>1, <2>3 DEF Pos
    <3>2. QED
      BY <1>2, <3>1, PrefixAt, LexIrreflexive DEF IsStrictPrefix
  <2>4. QED
    BY <1>1, <2>2, <2>3 DEF Pos
<1>3. ASSUME After(n, m) PROVE LexLess(n, m) /\ ~ IsPrefix(n, m)
  <2>1. PICK k \in 1..Len(n) : /\ \A j \in 1..(k - 1) : At(m, j) = At(n, j)
                               /\ At(n, k) < At(m, k)
    BY <1>3 DEF After
  <2>2. k \in Pos /\ At(m, k) # At(n, k)
    BY <1>1, <2>1 DEF Pos
  <2>3. QED
    BY <2>1, <2>2, LexAt, PrefixAt
<1>4. QED
  BY <1>2, <1>3 DEF LexLess

(* The first of what is after an identifier would be its first child.      *)
LEMMA FirstChildNext ==
  ASSUME NEW n \in OID, NEW m \in OID
  PROVE  /\ LexLeq(Append(n, 0), m) <=> LexLess(n, m)
         /\ LexLess(m, Append(n, 0)) <=> LexLeq(m, n)
<1>1. Len(n) \in Nat /\ Len(m) \in Nat /\ Append(n, 0) \in OID
  BY AtType, AppendAt
<1>2. Below(n, 0, m) <=> IsStrictPrefix(n, m)
  <2>1. ASSUME Below(n, 0, m) PROVE IsStrictPrefix(n, m)
    <3>1. Len(n) + 1 \in Pos /\ At(n, Len(n) + 1) = -1
      BY <1>1, AtType DEF Pos
    <3>2. QED
      BY <2>1, <3>1 DEF Below, IsStrictPrefix
  <2>2. ASSUME IsStrictPrefix(n, m) PROVE Below(n, 0, m)
    <3>1. Len(n) < Len(m)
      BY <1>1, <2>2, PrefixAt DEF IsStrictPrefix
    <3>2. Len(n) + 1 \in Pos /\ Len(n) + 1 <= Len(m)
      BY <1>1, <3>1 DEF Pos
    <3>3. QED
      BY <2>2, <3>2, AtType DEF Below, IsStrictPrefix
  <2>3. QED
    BY <2>1, <2>2
<1>3. LexLeq(Append(n, 0), m) <=> LexLess(n, m)
  BY <1>2, FromChildOn, LexSplit
<1>4. QED
  BY <1>1, <1>3, LexTotal, LexTransitive, LexIrreflexive DEF LexLeq

(* What is at or after the next sibling is what is after the whole subtree.*)
LEMMA NextSibling ==
  ASSUME NEW n \in OID, n # Root, NEW m \in OID
  PROVE  LexLeq(Append(Front(n), Last(n) + 1), m) <=> After(n, m)
<1> DEFINE f == Front(n)
           t == Last(n) + 1
<1>1. /\ f \in OID /\ Len(f) = Len(n) - 1 /\ t \in Nat /\ Len(n) > 0 /\ Len(n) \in Nat
      /\ t = At(n, Len(n)) + 1
      /\ \A k \in Pos : At(f, k) = IF k < Len(n) THEN At(n, k) ELSE -1
      /\ \A k \in Pos : At(n, k) \in Int /\ At(m, k) \in Int
  BY FrontAt, AtType
<1> HIDE DEF f, t
<1>2. \A k \in 1..Len(f) : At(f, k) = At(n, k) /\ k \in Pos /\ k \in 1..Len(n)
  BY <1>1 DEF Pos
<1>3. ASSUME After(f, m) PROVE After(n, m)
  <2>1. PICK k \in 1..Len(f) : /\ \A j \in 1..(k - 1) : At(m, j) = At(f, j)
                               /\ At(f, k) < At(m, k)
    BY <1>3 DEF After
  <2>2. k \in 1..Len(n) /\ \A j \in 1..(k - 1) : At(m, j) = At(n, j)
    BY <1>1, <1>2, <2>1
  <2>3. QED
    BY <1>2, <2>1, <2>2 DEF After
<1>4. ASSUME Below(f, t, m) PROVE After(n, m)
  <2>1. /\ \A j \in 1..Len(f) : At(m, j) = At(f, j)
        /\ At(m, Len(f) + 1) >= t
    BY <1>1, <1>4, PrefixAt DEF Below
  <2>2. Len(f) + 1 = Len(n) /\ Len(n) \in 1..Len(n) /\ Len(n) \in Pos
    BY <1>1 DEF Pos
  <2>3. At(n, Len(n)) < At(m, Len(n))
    BY <1>1, <2>1, <2>2
  <2>4. \A j \in 1..(Len(n) - 1) : At(m, j) = At(n, j)
    BY <1>1, <1>2, <2>1
  <2>5. QED
    BY <2>2, <2>3, <2>4 DEF After
<1>5. ASSUME After(n, m) PROVE After(f, m) \/ Below(f, t, m)
  <2>1. PICK k \in 1..Len(n) : /\ \A j \in 1..(k - 1) : At(m, j) = At(n, j)
                               /\ At(n, k) < At(m, k)
    BY <1>5 DEF After
  <2>2. CASE k = Len(n)
    <3>1. \A j \in 1..Len(f) : At(m, j) = At(f, j)
      BY <1>1, <1>2, <2>1, <2>2
    <3>2. Len(f) + 1 = Len(n) /\ Len(n) \in Pos
      BY <1>1 DEF Pos
    <3>3. At(m, Len(f) + 1) >= t
      BY <1>1, <2>1, <2>2, <3>2
    <3>4. QED
      BY <1>1, <3>1, <3>3, PrefixAt DEF Below
  <2>3. CASE k < Len(n)
    <3>1. k \in 1..Len(f) /\ \A j \in 1..(k - 1) : At(m, j) = At(f, j)
      BY <1>1, <1>2, <2>1, <2>3
    <3>2. At(f, k) < At(m, k)
      BY <1>2, <2>1, <3>1
    <3>3. QED
      BY <3>1, <3>2 DEF After
  <2>4. QED
    BY <1>1, <2>2, <2>3
<1>6. LexLeq(Append(f, t), m) <=> After(f, m) \/ Below(f, t, m)
  BY <1>1, FromChildOn
<1>7. QED
  BY <1>3, <1>4, <1>5, <1>6 DEF f, t
=============================================================================
