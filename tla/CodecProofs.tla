---------------------------- MODULE CodecProofs -----------------------------
(***************************************************************************)
(* Theorems about the numbers and the data objects of the codec: what the  *)
(* bytes of a number are and what is read of them, what an object holds    *)
(* (DataInv), what clone and the wire make of it, that arithmetic is exact *)
(* modulo 2^64 (ArithmeticInv), and so are the conversions of numbers to   *)
(* strings and octets and of strings to numbers.                           *)
(***************************************************************************)
EXTENDS Data, Arithmetic, OidProofs

----------------------------------------------------------------------------
(* Folds over sequences.  A fold of the community modules is a recursive   *)
(* function over sets of positions: the value of a set is made of that of  *)
(* the set without its greatest member.                                    *)
LEMMA MaxOf ==
  ASSUME NEW n \in Nat, NEW s \in SUBSET (1..n), s # {}
  PROVE  Max(s) \in s /\ \A y \in s : y <= Max(s)
<1>1. s \in SUBSET Nat /\ \A y \in s : y <= n
  OBVIOUS
<1>2. \E m \in s : \A y \in s : y <= m
  BY <1>1, NatMax
<1>3. \E m : m \in s /\ \A y \in s : m >= y
  <2>1. PICK m \in s : \A y \in s : y <= m
    BY <1>2
  <2>2. \A y \in s : m >= y
    BY <1>1, <2>1
  <2>3. QED
    BY <2>2
<1>4. Max(s) = CHOOSE x \in s : \A y \in s : x >= y
  BY DEF Max
<1>5. Max(s) \in s /\ \A y \in s : Max(s) >= y
  BY <1>3, <1>4
<1>6. QED
  BY <1>1, <1>5

LEMMA MaxOfUpto ==
  ASSUME NEW k \in Nat
  PROVE  /\ Max(1..(k + 1)) = k + 1
         /\ (1..(k + 1)) \ {k + 1} = 1..k
         /\ 1..(k + 1) # {}
<1>1. 1..(k + 1) # {} /\ k + 1 \in 1..(k + 1)
  OBVIOUS
<1>2. Max(1..(k + 1)) \in 1..(k + 1) /\ \A y \in 1..(k + 1) : y <= Max(1..(k + 1))
  <2>1. 1..(k + 1) \in SUBSET (1..(k + 1)) /\ k + 1 \in Nat
    OBVIOUS
  <2>2. QED
    BY <1>1, <2>1, MaxOf
<1>3. Max(1..(k + 1)) = k + 1
  BY <1>1, <1>2
<1>4. QED
  BY <1>1, <1>3

Folds(f, n, base, step) ==
  f = [s \in SUBSET (1..n) |->
         IF s = {} THEN base ELSE step[<<f[s \ {Max(s)}], Max(s)>>]]

(* Such a function exists, whatever is folded.                             *)
LEMMA FoldExists ==
  ASSUME NEW n \in Nat, NEW T, NEW base \in T, NEW step \in [T \X (1..n) -> T]
  PROVE  \E f \in [SUBSET (1..n) -> T] : Folds(f, n, base, step)
<1> DEFINE Has(k) == \E f \in [SUBSET (1..k) -> T] : Folds(f, k, base, step)
           Bad == { k \in 0..n : ~ Has(k) }
<1> HIDE DEF Has
<1>0. Has(n) \/ Bad # {}
  OBVIOUS
<1>1. SUFFICES ASSUME Bad # {} PROVE FALSE
  BY <1>0 DEF Has
<1>2. PICK k \in Bad : \A j \in Bad : k <= j
  <2>1. Bad \in SUBSET Nat
    OBVIOUS
  <2>2. QED
    BY <1>1, <2>1, NatMin
<1>3. Has(0)
  <2> DEFINE f == [s \in SUBSET (1..0) |-> base]
  <2>1. \A s \in SUBSET (1..0) : s = {}
    OBVIOUS
  <2>2. f \in [SUBSET (1..0) -> T]
    OBVIOUS
  <2>3. Folds(f, 0, base, step)
    BY <2>1 DEF Folds
  <2>4. QED
    BY <2>2, <2>3 DEF Has
<1>4. k # 0 /\ k - 1 \in 0..n /\ k \in 1..n /\ Has(k - 1)
  <2>1. k \in 0..n /\ ~ Has(k)
    OBVIOUS
  <2>2. k # 0
    BY <2>1, <1>3
  <2>3. k - 1 \in 0..n /\ k - 1 \notin Bad
    BY <2>1, <2>2, <1>2
  <2>4. QED
    BY <2>1, <2>2, <2>3
<1>5. PICK g \in [SUBSET (1..(k - 1)) -> T] : Folds(g, k - 1, base, step)
  BY <1>4 DEF Has
<1> DEFINE f == [s \in SUBSET (1..k) |->
                   IF k \in s THEN step[<<g[s \ {k}], k>>] ELSE g[s]]
<1>6. \A s \in SUBSET (1..k) : /\ s \ {k} \in SUBSET (1..(k - 1))
                               /\ k \notin s => s \in SUBSET (1..(k - 1))
  BY <1>4
<1>7. f \in [SUBSET (1..k) -> T]
  BY <1>4, <1>6
<1>8. \A s \in SUBSET (1..k) :
         f[s] = IF s = {} THEN base ELSE step[<<f[s \ {Max(s)}], Max(s)>>]
  <2> SUFFICES ASSUME NEW s \in SUBSET (1..k)
               PROVE  f[s] = IF s = {} THEN base ELSE step[<<f[s \ {Max(s)}], Max(s)>>]
    OBVIOUS
  <2>1. CASE k \in s
    <3>1. Max(s) = k
      <4>1. k \in Nat /\ s # {}
        BY <1>4, <2>1
      <4>2. Max(s) \in s /\ \A y \in s : y <= Max(s)
        BY <4>1, MaxOf
      <4>3. Max(s) \in 1..k /\ k <= Max(s)
        BY <2>1, <4>2
      <4>4. QED
        BY <1>4, <4>3
    <3>2. f[s \ {k}] = g[s \ {k}]
      BY <1>6
    <3>3. QED
      BY <2>1, <3>1, <3>2
  <2>2. CASE k \notin s
    <3>1. s \in SUBSET (1..(k - 1)) /\ f[s] = g[s]
      BY <1>6, <2>2
    <3>2. g[s] = IF s = {} THEN base ELSE step[<<g[s \ {Max(s)}], Max(s)>>]
      BY <1>5, <3>1 DEF Folds
    <3>3. f[s \ {Max(s)}] = g[s \ {Max(s)}]
      BY <2>2
    <3>4. QED
      BY <3>1, <3>2, <3>3
  <2>3. QED
    BY <2>1, <2>2
<1>9. Folds(f, k, base, step)
  BY <1>8 DEF Folds
<1>10. Has(k)
  BY <1>7, <1>9 DEF Has
<1>11. QED
  BY <1>10

(* What holds of the base and is handed on holds of every value.           *)
LEMMA FoldClosed ==
  ASSUME NEW n \in Nat, NEW T, NEW f, f[{}] \in T,
         \A s \in SUBSET (1..n) : s # {} /\ f[s \ {Max(s)}] \in T => f[s] \in T
  PROVE  \A s \in SUBSET (1..n) : f[s] \in T
<1> DEFINE Bad == { k \in 0..n : \E s \in SUBSET (1..k) : f[s] \notin T }
<1>1. SUFFICES ASSUME NEW t \in SUBSET (1..n), f[t] \notin T PROVE FALSE
  OBVIOUS
<1>2. n \in Bad
  BY <1>1
<1>3. PICK k \in Bad : \A j \in Bad : k <= j
  <2>1. Bad \in SUBSET Nat
    OBVIOUS
  <2>2. QED
    BY <1>2, <2>1, NatMin
<1>4. PICK s \in SUBSET (1..k) : f[s] \notin T
  OBVIOUS
<1>5. k \in 0..n /\ s # {} /\ s \in SUBSET (1..n)
  BY <1>4
<1>6. Max(s) \in s /\ \A y \in s : y <= Max(s)
  BY <1>5, MaxOf
<1>7. s \ {Max(s)} \in SUBSET (1..(k - 1)) /\ k - 1 \in 0..n
  <2>1. Max(s) \in 1..k
    BY <1>4, <1>6
  <2>2. \A y \in s \ {Max(s)} : y \in 1..(k - 1)
    BY <1>4, <1>5, <1>6, <2>1
  <2>3. k - 1 \in 0..n
    BY <1>5, <2>1
  <2>4. QED
    BY <2>2, <2>3
<1>8. f[s \ {Max(s)}] \in T
  <2>1. k - 1 \notin Bad
    BY <1>3, <1>5
  <2>2. QED
    BY <2>1, <1>7
<1>9. QED
  BY <1>4, <1>5, <1>8

(* As Folds, of an f that is not known to have values in T.                *)
Steps(f, n, T, base, step) ==
  /\ f[{}] = base
  /\ \A s \in SUBSET (1..n) :
        s # {} /\ f[s \ {Max(s)}] \in T => f[s] = step[<<f[s \ {Max(s)}], Max(s)>>]

(* The values of a fold after 0, 1, 2, ... elements.                       *)
Chained(f, n, T, base, step) ==
  \E w \in [0..n -> T] :
     /\ w[0] = base
     /\ \A k \in 1..n : w[k] = step[<<w[k - 1], k>>]
     /\ f[1..n] = w[n]

LEMMA FoldSteps ==
  ASSUME NEW n \in Nat, NEW T, NEW base \in T, NEW step \in [T \X (1..n) -> T],
         NEW f, Steps(f, n, T, base, step)
  PROVE  Chained(f, n, T, base, step)
<1> USE DEF Steps
<1>1. \A s \in SUBSET (1..n) : f[s] \in T
  <2>1. \A s \in SUBSET (1..n) : s # {} /\ f[s \ {Max(s)}] \in T => f[s] \in T
    BY MaxOf
  <2>2. QED
    BY <2>1, FoldClosed
<1> DEFINE w == [k \in 0..n |-> f[1..k]]
<1>2. w \in [0..n -> T] /\ w[n] = f[1..n]
  BY <1>1
<1>3. w[0] = base
  <2>1. 1..0 = {} /\ 0 \in 0..n
    OBVIOUS
  <2>2. QED
    BY <2>1
<1>4. \A k \in 1..n : w[k] = step[<<w[k - 1], k>>]
  <2> SUFFICES ASSUME NEW k \in 1..n PROVE w[k] = step[<<w[k - 1], k>>]
    OBVIOUS
  <2>1. k - 1 \in Nat /\ (k - 1) + 1 = k /\ k - 1 \in 0..n /\ k \in 0..n
    OBVIOUS
  <2>2. 1..k \in SUBSET (1..n) /\ 1..(k - 1) \in SUBSET (1..n)
    OBVIOUS
  <2>3. Max(1..k) = k /\ (1..k) \ {k} = 1..(k - 1) /\ 1..k # {}
    BY <2>1, MaxOfUpto
  <2>4. f[1..k] = step[<<f[(1..k) \ {Max(1..k)}], Max(1..k)>>]
    BY <1>1, <2>2, <2>3
  <2>5. QED
    BY <2>1, <2>3, <2>4
<1>5. QED
  BY <1>2, <1>3, <1>4 DEF Chained

----------------------------------------------------------------------------
(* The widths that WidthAssumption allows, in numbers.                     *)
LEMMA Widths ==
  \/ LimbBits = 2  /\ WordBits = 4  /\ Byte = 2   /\ Limb = 4     /\ Half = 16
  \/ LimbBits = 4  /\ WordBits = 8  /\ Byte = 4   /\ Limb = 16    /\ Half = 256
  \/ LimbBits = 8  /\ WordBits = 16 /\ Byte = 16  /\ Limb = 256   /\ Half = 65536
  \/ LimbBits = 16 /\ WordBits = 32 /\ Byte = 256 /\ Limb = 65536 /\ Half = 4294967296
<1>1. CASE LimbBits = 2
  BY <1>1, SMT DEF WordBits, Byte, Limb, Half
<1>2. CASE LimbBits = 4
  BY <1>2, SMT DEF WordBits, Byte, Limb, Half
<1>3. CASE LimbBits = 8
  BY <1>3, SMT DEF WordBits, Byte, Limb, Half
<1>4. CASE LimbBits = 16
  BY <1>4, SMT DEF WordBits, Byte, Limb, Half
<1>5. QED
  BY <1>1, <1>2, <1>3, <1>4, WidthAssumption, SMT

(* A word is two limbs or four bytes.                                      *)
LEMMA WidthFacts ==
  /\ Byte \in Nat /\ Byte >= 2 /\ Byte % 2 = 0 /\ Byte <= 256
  /\ Limb \in Nat /\ Limb = Byte * Byte
  /\ Half \in Nat /\ Half = Limb * Limb /\ Half = Byte * Byte * Byte * Byte /\ Half % 2 = 0
BY Widths, SMT

LEMMA BytePowers ==
  /\ Byte^0 = 1 /\ Byte^1 = Byte /\ Byte^2 = Byte * Byte
  /\ Byte^3 = Byte * Byte * Byte /\ Byte^4 = Half
<1>1. CASE LimbBits = 2
  BY <1>1, SMT DEF Byte, Half
<1>2. CASE LimbBits = 4
  BY <1>2, SMT DEF Byte, Half
<1>3. CASE LimbBits = 8
  BY <1>3, SMT DEF Byte, Half
<1>4. CASE LimbBits = 16
  BY <1>4, SMT DEF Byte, Half
<1>5. QED
  BY <1>1, <1>2, <1>3, <1>4, WidthAssumption, SMT

----------------------------------------------------------------------------
(* ReadWord, octet by octet.                                               *)
LEMMA ReadWordChain ==
  ASSUME NEW octets \in Seq(Nat)
  PROVE  \E w \in [0..Len(octets) -> 0..(Half - 1)] :
            /\ w[0] = 0
            /\ \A k \in 1..Len(octets) : w[k] = (w[k - 1] * Byte + octets[k]) % Half
            /\ ReadWord(octets) = w[Len(octets)]
<1> DEFINE n == Len(octets)
           T == 0..(Half - 1)
           Eq(f) == f = [s \in SUBSET (1..n) |->
                           IF s = {} THEN 0
                           ELSE (f[s \ {Max(s)}] * Byte + octets[Max(s)]) % Half]
           step == [p \in T \X (1..n) |-> (p[1] * Byte + octets[p[2]]) % Half]
<1>1. n \in Nat /\ DOMAIN octets = 1..n /\ \A k \in 1..n : octets[k] \in Nat
  OBVIOUS
<1>2. 0 \in T /\ \A v \in T, o \in Nat : (v * Byte + o) % Half \in T
  BY WidthFacts
<1>3. step \in [T \X (1..n) -> T]
  BY <1>1, <1>2
<1> HIDE DEF T
<1>4. PICK g \in [SUBSET (1..n) -> T] : Folds(g, n, 0, step)
  BY <1>1, <1>2, <1>3, FoldExists
<1>5. \A v \in T, k \in 1..n : step[<<v, k>>] = (v * Byte + octets[k]) % Half
  OBVIOUS
<1> HIDE DEF step
<1>6. Eq(g)
  <2>1. \A s \in SUBSET (1..n) : s # {} => Max(s) \in 1..n /\ g[s \ {Max(s)}] \in T
    BY <1>1, MaxOf
  <2>2. \A s \in SUBSET (1..n) : s # {} =>
           step[<<g[s \ {Max(s)}], Max(s)>>] = (g[s \ {Max(s)}] * Byte + octets[Max(s)]) % Half
    BY <1>5, <2>1
  <2>3. QED
    BY <1>4, <2>2 DEF Folds
<1> DEFINE f == CHOOSE h : Eq(h)
<1>7. ReadWord(octets) = f[1..n]
  BY <1>1 DEF ReadWord, FoldLeft, MapThenFoldSet
<1>8. Eq(f)
  <2>1. \E h : Eq(h)
    BY <1>6
  <2> HIDE DEF Eq
  <2>2. QED
    BY <2>1
<1> HIDE DEF f
<1>9. f[{}] = 0
  BY <1>8
<1>10. \A s \in SUBSET (1..n) :
          s # {} /\ f[s \ {Max(s)}] \in T => f[s] = step[<<f[s \ {Max(s)}], Max(s)>>]
  BY <1>1, <1>5, <1>8, MaxOf
<1> HIDE DEF n, Eq
<1>11. PICK w \in [0..n -> T] :
          /\ w[0] = 0
          /\ \A k \in 1..n : w[k] = step[<<w[k - 1], k>>]
          /\ f[1..n] = w[n]
  <2>1. Steps(f, n, T, 0, step)
    BY <1>9, <1>10 DEF Steps
  <2>2. n \in Nat /\ 0 \in T
    BY <1>1, <1>2
  <2>3. Chained(f, n, T, 0, step)
    BY <2>1, <2>2, <1>3, FoldSteps
  <2>4. QED
    BY <2>3, Zenon DEF Chained
<1>12. \A k \in 1..n : w[k] = (w[k - 1] * Byte + octets[k]) % Half
  <2> SUFFICES ASSUME NEW k \in 1..n PROVE w[k] = (w[k - 1] * Byte + octets[k]) % Half
    OBVIOUS
  <2>1. k - 1 \in 0..n
    BY <1>1
  <2>2. w[k - 1] \in T
    BY <2>1
  <2>3. QED
    BY <1>5, <1>11, <2>2
<1>13. QED
  BY <1>7, <1>11, <1>12 DEF T, n

(* canonicalizeOID's loop, component by component.                         *)
LEMMA PushArcChain ==
  ASSUME NEW oid \in Values
  PROVE  \E w \in [0..Len(oid) -> Seq(Int)] :
            /\ w[0] = << >>
            /\ \A k \in 1..Len(oid) : w[k] = PushArc(w[k - 1], oid[k])
            /\ FoldLeft(PushArc, << >>, oid) = w[Len(oid)]
<1> DEFINE n == Len(oid)
           T == Seq(Int)
           Eq(f) == f = [s \in SUBSET (1..n) |->
                           IF s = {} THEN << >>
                           ELSE PushArc(f[s \ {Max(s)}], oid[Max(s)])]
           step == [p \in T \X (1..n) |-> PushArc(p[1], oid[p[2]])]
<1>1. n \in Nat /\ DOMAIN oid = 1..n /\ \A k \in 1..n : oid[k] \in Int \cup {Blank}
  BY DEF Values
<1>2. << >> \in T /\ \A v \in T, o \in Int \cup {Blank} : PushArc(v, o) \in T
  BY DEF PushArc
<1>3. step \in [T \X (1..n) -> T]
  BY <1>1, <1>2
<1> HIDE DEF T
<1>4. PICK g \in [SUBSET (1..n) -> T] : Folds(g, n, << >>, step)
  BY <1>1, <1>2, <1>3, FoldExists
<1>5. \A v \in T, k \in 1..n : step[<<v, k>>] = PushArc(v, oid[k])
  OBVIOUS
<1> HIDE DEF step
<1>6. Eq(g)
  <2>1. \A s \in SUBSET (1..n) : s # {} => Max(s) \in 1..n /\ g[s \ {Max(s)}] \in T
    BY <1>1, MaxOf
  <2>2. \A s \in SUBSET (1..n) : s # {} =>
           step[<<g[s \ {Max(s)}], Max(s)>>] = PushArc(g[s \ {Max(s)}], oid[Max(s)])
    BY <1>5, <2>1
  <2>3. QED
    BY <1>4, <2>2 DEF Folds
<1> DEFINE f == CHOOSE h : Eq(h)
<1>7. FoldLeft(PushArc, << >>, oid) = f[1..n]
  BY <1>1 DEF FoldLeft, MapThenFoldSet
<1>8. Eq(f)
  <2>1. \E h : Eq(h)
    BY <1>6
  <2> HIDE DEF Eq
  <2>2. QED
    BY <2>1
<1> HIDE DEF f
<1>9. f[{}] = << >>
  BY <1>8
<1>10. \A s \in SUBSET (1..n) :
          s # {} /\ f[s \ {Max(s)}] \in T => f[s] = step[<<f[s \ {Max(s)}], Max(s)>>]
  BY <1>1, <1>5, <1>8, MaxOf
<1> HIDE DEF n, Eq
<1>11. PICK w \in [0..n -> T] :
          /\ w[0] = << >>
          /\ \A k \in 1..n : w[k] = step[<<w[k - 1], k>>]
          /\ f[1..n] = w[n]
  <2>1. Steps(f, n, T, << >>, step)
    BY <1>9, <1>10 DEF Steps
  <2>2. n \in Nat /\ << >> \in T
    BY <1>1, <1>2
  <2>3. Chained(f, n, T, << >>, step)
    BY <2>1, <2>2, <1>3, FoldSteps
  <2>4. QED
    BY <2>3, Zenon DEF Chained
<1>12. \A k \in 1..n : w[k] = PushArc(w[k - 1], oid[k])
  <2> SUFFICES ASSUME NEW k \in 1..n PROVE w[k] = PushArc(w[k - 1], oid[k])
    OBVIOUS
  <2>1. k - 1 \in 0..n
    BY <1>1
  <2>2. w[k - 1] \in T
    BY <2>1
  <2>3. QED
    BY <1>5, <1>11, <2>2
<1>13. QED
  BY <1>7, <1>11, <1>12 DEF T, n
----------------------------------------------------------------------------
(* What holds of 0 and is handed on upwards holds up to n.                 *)
LEMMA Climb ==
  ASSUME NEW n \in Nat, NEW Good, 0 \in Good, \A k \in 1..n : k - 1 \in Good => k \in Good
  PROVE  \A k \in 0..n : k \in Good
<1> DEFINE Bad == { k \in 0..n : k \notin Good }
<1>1. SUFFICES ASSUME Bad # {} PROVE FALSE
  OBVIOUS
<1>2. PICK k \in Bad : \A j \in Bad : k <= j
  <2>1. Bad \in SUBSET Nat
    OBVIOUS
  <2>2. QED
    BY <1>1, <2>1, NatMin
<1>3. k \in 1..n /\ k - 1 \in 0..n /\ k - 1 \notin Bad
  BY <1>2
<1>4. QED
  BY <1>2, <1>3

(* What canonicalizeOID makes of components it does not refuse.            *)
LEMMA CanonTyped ==
  ASSUME NEW oid \in Values, canonicalizeOID(oid) # Refused
  PROVE  canonicalizeOID(oid) \in Seq(0..MAX_INT32)
<1> DEFINE n == Len(oid)  T == Seq(0..MAX_INT32)
<1>1. canonicalizeOID(oid) = FoldLeft(PushArc, << >>, oid) /\ \A i \in DOMAIN oid : ArcAllowed(oid, i)
  BY DEF canonicalizeOID
<1>2. PICK w \in [0..n -> Seq(Int)] :
         /\ w[0] = << >>
         /\ \A k \in 1..n : w[k] = PushArc(w[k - 1], oid[k])
         /\ FoldLeft(PushArc, << >>, oid) = w[n]
  BY PushArcChain
<1>3. n \in Nat /\ DOMAIN oid = 1..n
  BY DEF Values
<1> DEFINE Good == { k \in 0..n : w[k] \in T }
<1>4. \A k \in 1..n : k - 1 \in Good => k \in Good
  <2> SUFFICES ASSUME NEW k \in 1..n, k - 1 \in Good PROVE k \in Good
    OBVIOUS
  <2>1. oid[k] = Blank \/ oid[k] \in 0..MAX_INT32
    BY <1>1, <1>3 DEF ArcAllowed
  <2>2. w[k] = PushArc(w[k - 1], oid[k]) /\ w[k - 1] \in T
    BY <1>2
  <2>3. PushArc(w[k - 1], oid[k]) \in T
    <3>1. CASE oid[k] = Blank
      BY <2>2, <3>1 DEF PushArc
    <3>2. CASE oid[k] # Blank
      <4>1. oid[k] \in 0..MAX_INT32 /\ PushArc(w[k - 1], oid[k]) = Append(w[k - 1], oid[k])
        BY <2>1, <3>2 DEF PushArc
      <4>2. QED
        BY <2>2, <4>1
    <3>3. QED
      BY <3>1, <3>2
  <2>4. QED
    BY <2>2, <2>3
<1>5. 0 \in Good
  BY <1>2, <1>3
<1> HIDE DEF Good
<1>6. \A k \in 0..n : k \in Good
  BY <1>3, <1>4, <1>5, Climb
<1>7. n \in Good
  BY <1>3, <1>6
<1>8. QED
  BY <1>1, <1>2, <1>7 DEF Good

(* Arcs without an empty one among them are kept as they are.              *)
LEMMA CanonKeeps ==
  ASSUME NEW oid \in Seq(0..MAX_INT32)
  PROVE  FoldLeft(PushArc, << >>, oid) = oid
<1> DEFINE n == Len(oid)
<1>0. MAX_INT32 \in Nat
  BY WidthFacts DEF MAX_INT32
<1>1. n \in Nat /\ DOMAIN oid = 1..n /\ \A k \in 1..n : oid[k] \in 0..MAX_INT32
  BY <1>0
<1>2. oid \in Seq(Int \cup {Blank})
  BY <1>0
<1>3. PICK w \in [0..n -> Seq(Int)] :
         /\ w[0] = << >>
         /\ \A k \in 1..n : w[k] = PushArc(w[k - 1], oid[k])
         /\ FoldLeft(PushArc, << >>, oid) = w[n]
  BY <1>2, PushArcChain DEF Values
<1>4. \A k \in 1..n : oid[k] \in Int /\ w[k] = Append(w[k - 1], oid[k])
  <2> SUFFICES ASSUME NEW k \in 1..n PROVE oid[k] \in Int /\ w[k] = Append(w[k - 1], oid[k])
    OBVIOUS
  <2>1. oid[k] \in Int
    BY <1>0, <1>1
  <2>2. oid[k] # Blank
    BY <2>1, ValuesAssumption
  <2>3. w[k] = PushArc(w[k - 1], oid[k])
    BY <1>3
  <2>4. QED
    BY <2>1, <2>2, <2>3 DEF PushArc
<1> DEFINE Good == { k \in 0..n : Len(w[k]) = k /\ \A i \in 1..k : w[k][i] = oid[i] }
<1>5. \A k \in 1..n : k - 1 \in Good => k \in Good
  <2> SUFFICES ASSUME NEW k \in 1..n, k - 1 \in Good PROVE k \in Good
    OBVIOUS
  <2>1. w[k] = Append(w[k - 1], oid[k]) /\ w[k - 1] \in Seq(Int) /\ oid[k] \in Int
    BY <1>4
  <2>2. Len(w[k - 1]) = k - 1 /\ \A i \in 1..(k - 1) : w[k - 1][i] = oid[i]
    OBVIOUS
  <2>3. Len(w[k]) = k /\ \A i \in 1..k : w[k][i] = IF i <= k - 1 THEN w[k - 1][i] ELSE oid[k]
    BY <2>1, <2>2
  <2>4. \A i \in 1..k : w[k][i] = oid[i]
    BY <2>2, <2>3
  <2>5. QED
    BY <2>3, <2>4
<1>6. 0 \in Good
  BY <1>1, <1>3
<1> HIDE DEF Good
<1>7. \A k \in 0..n : k \in Good
  BY <1>1, <1>5, <1>6, Climb
<1>8. Len(w[n]) = n /\ \A i \in 1..n : w[n][i] = oid[i]
  BY <1>1, <1>7 DEF Good
<1>9. w[n] \in Seq(Int)
  BY <1>1
<1>10. w[n] = oid
  <2> DEFINE a == w[n]
  <2>1. a \in Seq(Int) /\ oid \in Seq(Int) /\ Len(a) = Len(oid) /\ \A i \in 1..Len(a) : a[i] = oid[i]
    BY <1>0, <1>8, <1>9
  <2> HIDE DEF a
  <2>2. a = oid
    BY <2>1, SeqEqual
  <2>3. QED
    BY <2>2 DEF a
<1>11. QED
  BY <1>3, <1>10

----------------------------------------------------------------------------
(* The bytes of a word.                                                    *)
LEMMA ByteDivision ==
  ASSUME NEW w \in Nat, w < Half
  PROVE  /\ w \div Byte \in Nat /\ w \div Byte <= w /\ w % Byte \in Octet
         /\ w = (w \div Byte) * Byte + (w % Byte)
         /\ w < Byte => w \div Byte = 0
         /\ w < Byte * Byte => w \div Byte < Byte
         /\ w < Byte * Byte * Byte => w \div Byte < Byte * Byte
         /\ w \div Byte < Byte * Byte * Byte
         /\ w # 0 /\ w \div Byte = 0 => w % Byte # 0
<1>1. CASE Byte = 2 /\ Half = 16
  <2>1. w < 16
    BY <1>1, SMT
  <2>2. /\ w \div 2 \in Nat /\ w \div 2 <= w /\ w % 2 \in 0..1
        /\ w = (w \div 2) * 2 + (w % 2)
        /\ w < 2 => w \div 2 = 0
        /\ w < 4 => w \div 2 < 2
        /\ w < 8 => w \div 2 < 4
        /\ w \div 2 < 8
        /\ w # 0 /\ w \div 2 = 0 => w % 2 # 0
    BY <2>1, SMT
  <2>3. Byte * Byte = 4 /\ Byte * Byte * Byte = 8 /\ Byte - 1 = 1
    BY <1>1, SMT
  <2>4. QED
    BY <1>1, <2>2, <2>3, SMT DEF Octet
<1>2. CASE Byte = 4 /\ Half = 256
  <2>1. w < 256
    BY <1>2, SMT
  <2>2. /\ w \div 4 \in Nat /\ w \div 4 <= w /\ w % 4 \in 0..3
        /\ w = (w \div 4) * 4 + (w % 4)
        /\ w < 4 => w \div 4 = 0
        /\ w < 16 => w \div 4 < 4
        /\ w < 64 => w \div 4 < 16
        /\ w \div 4 < 64
        /\ w # 0 /\ w \div 4 = 0 => w % 4 # 0
    BY <2>1, SMT
  <2>3. Byte * Byte = 16 /\ Byte * Byte * Byte = 64 /\ Byte - 1 = 3
    BY <1>2, SMT
  <2>4. QED
    BY <1>2, <2>2, <2>3, SMT DEF Octet
<1>3. CASE Byte = 16 /\ Half = 65536
  <2>1. w < 65536
    BY <1>3, SMT
  <2>2. /\ w \div 16 \in Nat /\ w \div 16 <= w /\ w % 16 \in 0..15
        /\ w = (w \div 16) * 16 + (w % 16)
        /\ w < 16 => w \div 16 = 0
        /\ w < 256 => w \div 16 < 16
        /\ w < 4096 => w \div 16 < 256
        /\ w \div 16 < 4096
        /\ w # 0 /\ w \div 16 = 0 => w % 16 # 0
    BY <2>1, SMT
  <2>3. Byte * Byte = 256 /\ Byte * Byte * Byte = 4096 /\ Byte - 1 = 15
    BY <1>3, SMT
  <2>4. QED
    BY <1>3, <2>2, <2>3, SMT DEF Octet
<1>4. CASE Byte = 256 /\ Half = 4294967296
  <2>1. w < 4294967296
    BY <1>4, SMT
  <2>2. /\ w \div 256 \in Nat /\ w \div 256 <= w /\ w % 256 \in 0..255
        /\ w = (w \div 256) * 256 + (w % 256)
        /\ w < 256 => w \div 256 = 0
        /\ w < 65536 => w \div 256 < 256
        /\ w < 16777216 => w \div 256 < 65536
        /\ w \div 256 < 16777216
        /\ w # 0 /\ w \div 256 = 0 => w % 256 # 0
    BY <2>1, SMT
  <2>3. Byte * Byte = 65536 /\ Byte * Byte * Byte = 16777216 /\ Byte - 1 = 255
    BY <1>4, SMT
  <2>4. QED
    BY <1>4, <2>2, <2>3, SMT DEF Octet
<1>5. QED
  BY <1>1, <1>2, <1>3, <1>4, Widths, SMT

LEMMA InWord ==
  ASSUME NEW w
  PROVE  w \in 0..(Half - 1) <=> w \in Nat /\ w < Half
BY WidthFacts

LEMMA WordBytesEquation ==
  ASSUME NEW w \in 0..(Half - 1)
  PROVE  WordBytes[w] = IF w = 0 THEN << >> ELSE Append(WordBytes[w \div Byte], w % Byte)
<1> DEFINE W == 0..(Half - 1)
           Eq(f) == f = [v \in W |-> IF v = 0 THEN << >> ELSE Append(f[v \div Byte], v % Byte)]
           b1(v) == IF v = 0 THEN << >> ELSE Append(<< >>, v % Byte)
           b2(v) == IF v = 0 THEN << >> ELSE Append(b1(v \div Byte), v % Byte)
           b3(v) == IF v = 0 THEN << >> ELSE Append(b2(v \div Byte), v % Byte)
           b4(v) == IF v = 0 THEN << >> ELSE Append(b3(v \div Byte), v % Byte)
           g == [v \in W |-> b4(v)]
<1>1. \A v \in W : /\ v \div Byte \in W
                   /\ v < Byte => v \div Byte = 0
                   /\ v < Byte * Byte => v \div Byte < Byte
                   /\ v < Byte * Byte * Byte => v \div Byte < Byte * Byte
                   /\ v \div Byte < Byte * Byte * Byte
  <2> SUFFICES ASSUME NEW v \in W
               PROVE  /\ v \div Byte \in W
                      /\ v < Byte => v \div Byte = 0
                      /\ v < Byte * Byte => v \div Byte < Byte
                      /\ v < Byte * Byte * Byte => v \div Byte < Byte * Byte
                      /\ v \div Byte < Byte * Byte * Byte
    OBVIOUS
  <2>1. v \in Nat /\ v < Half
    BY InWord
  <2>2. v \div Byte \in Nat /\ v \div Byte < Half
    BY <2>1, WidthFacts, ByteDivision
  <2>3. v \div Byte \in W
    BY <2>2, InWord
  <2>4. QED
    BY <2>1, <2>3, ByteDivision
<1> HIDE DEF W
<1>2. \A v \in W : v < Byte => b2(v) = b1(v)
  BY <1>1
<1> HIDE DEF b1
<1>3. \A v \in W : v < Byte * Byte => b3(v) = b2(v)
  BY <1>1, <1>2
<1> HIDE DEF b2
<1>4. \A v \in W : v < Byte * Byte * Byte => b4(v) = b3(v)
  BY <1>1, <1>3
<1> HIDE DEF b3
<1>5. \A v \in W : b3(v \div Byte) = b4(v \div Byte)
  BY <1>1, <1>4
<1>6. \A v \in W : g[v] = IF v = 0 THEN << >> ELSE Append(g[v \div Byte], v % Byte)
  BY <1>1, <1>5
<1> HIDE DEF b4
<1>7. Eq(g)
  BY <1>6
<1> HIDE DEF g
<1>8. WordBytes = CHOOSE f : Eq(f)
  BY DEF WordBytes, W
<1> HIDE DEF Eq
<1>9. Eq(WordBytes)
  BY <1>7, <1>8
<1>10. w \in W
  BY DEF W
<1>11. QED
  BY <1>9, <1>10 DEF Eq

(* None for 0, and otherwise one to four, the first of which is not 0.     *)
LEMMA WordBytesForm ==
  ASSUME NEW w \in 0..(Half - 1)
  PROVE  \/ w = 0 /\ WordBytes[w] = << >>
         \/ \E a \in Octet : a # 0 /\ w = a /\ WordBytes[w] = << a >>
         \/ \E a, b \in Octet : a # 0 /\ w = a * Byte + b /\ WordBytes[w] = << a, b >>
         \/ \E a, b, c \in Octet :
               a # 0 /\ w = (a * Byte + b) * Byte + c /\ WordBytes[w] = << a, b, c >>
         \/ \E a, b, c, d \in Octet :
               a # 0 /\ w = ((a * Byte + b) * Byte + c) * Byte + d
               /\ WordBytes[w] = << a, b, c, d >>
<1> DEFINE W == 0..(Half - 1)
           x == w \div Byte  y == x \div Byte  z == y \div Byte
<1>1. \A v \in W : /\ v \div Byte \in Nat /\ v \div Byte \in W /\ v % Byte \in Octet
                   /\ v = (v \div Byte) * Byte + (v % Byte)
                   /\ v # 0 /\ v \div Byte = 0 => v % Byte # 0
                   /\ v # 0 => WordBytes[v] = Append(WordBytes[v \div Byte], v % Byte)
  <2> SUFFICES ASSUME NEW v \in W
               PROVE  /\ v \div Byte \in Nat /\ v \div Byte \in W /\ v % Byte \in Octet
                      /\ v = (v \div Byte) * Byte + (v % Byte)
                      /\ v # 0 /\ v \div Byte = 0 => v % Byte # 0
                      /\ v # 0 => WordBytes[v] = Append(WordBytes[v \div Byte], v % Byte)
    OBVIOUS
  <2>0. v \in Nat /\ v < Half
    BY InWord
  <2>1. /\ v \div Byte \in Nat /\ v \div Byte <= v /\ v % Byte \in Octet
        /\ v = (v \div Byte) * Byte + (v % Byte)
        /\ v # 0 /\ v \div Byte = 0 => v % Byte # 0
    BY <2>0, ByteDivision
  <2>2. v \div Byte \in W
    BY <2>0, <2>1, WidthFacts, InWord
  <2>3. v # 0 => WordBytes[v] = Append(WordBytes[v \div Byte], v % Byte)
    BY WordBytesEquation
  <2>4. QED
    BY <2>1, <2>2, <2>3
<1>2. WordBytes[0] = << >>
  <2>1. 0 \in 0..(Half - 1)
    BY WidthFacts
  <2>2. QED
    BY <2>1, WordBytesEquation
<1>3. w \in W /\ x \in W /\ y \in W /\ z \in W
  BY <1>1
<1>4. z \div Byte = 0
  <2> HIDE DEF x, y, z
  <2>0. /\ w \in Nat /\ w < Half /\ x \in Nat /\ x < Half
        /\ y \in Nat /\ y < Half /\ z \in Nat /\ z < Half
    BY <1>3, InWord
  <2>1. x < Byte * Byte * Byte
    BY <2>0, ByteDivision DEF x
  <2>2. y < Byte * Byte
    BY <2>0, <2>1, ByteDivision DEF y
  <2>3. z < Byte
    BY <2>0, <2>2, ByteDivision DEF z
  <2>4. QED
    BY <2>0, <2>3, ByteDivision
<1> DEFINE a == z % Byte  b == y % Byte  c == x % Byte  d == w % Byte
<1>5. a \in Octet /\ b \in Octet /\ c \in Octet /\ d \in Octet
  BY <1>1, <1>3
<1>6. /\ w = x * Byte + d /\ (w # 0 /\ x = 0 => d # 0) /\ (w # 0 => WordBytes[w] = Append(WordBytes[x], d))
      /\ x = y * Byte + c /\ (x # 0 /\ y = 0 => c # 0) /\ (x # 0 => WordBytes[x] = Append(WordBytes[y], c))
      /\ y = z * Byte + b /\ (y # 0 /\ z = 0 => b # 0) /\ (y # 0 => WordBytes[y] = Append(WordBytes[z], b))
      /\ z = 0 * Byte + a /\ (z # 0 => a # 0) /\ (z # 0 => WordBytes[z] = Append(WordBytes[0], a))
  BY <1>1, <1>3, <1>4
<1> HIDE DEF a, b, c, d, x, y, z, W
<1>7. 0 * Byte + a = a
  BY <1>5, WidthFacts DEF Octet
<1>14. /\ w # 0 => WordBytes[w] = Append(WordBytes[x], d)
       /\ x # 0 => WordBytes[x] = Append(WordBytes[y], c)
       /\ y # 0 => WordBytes[y] = Append(WordBytes[z], b)
  BY <1>6
<1>8. CASE w = 0
  BY <1>2, <1>8
<1>9. CASE w # 0 /\ x = 0
  <2>1. w = d /\ d # 0 /\ WordBytes[w] = << d >>
    BY <1>2, <1>5, <1>6, <1>9, WidthFacts DEF Octet
  <2>2. QED
    BY <1>5, <2>1
<1>10. CASE w # 0 /\ x # 0 /\ y = 0
  <2>1. x = c /\ c # 0 /\ WordBytes[x] = << c >>
    BY <1>2, <1>5, <1>6, <1>10, WidthFacts DEF Octet
  <2>2. w = c * Byte + d /\ WordBytes[w] = << c, d >>
    BY <1>6, <1>10, <2>1
  <2>3. QED
    BY <1>5, <2>1, <2>2
<1>11. CASE w # 0 /\ x # 0 /\ y # 0 /\ z = 0
  <2>1. y = b /\ b # 0 /\ WordBytes[y] = << b >>
    BY <1>2, <1>5, <1>6, <1>11, WidthFacts DEF Octet
  <2>2. x = b * Byte + c /\ WordBytes[x] = << b, c >>
    BY <1>6, <1>11, <2>1
  <2>3. w = (b * Byte + c) * Byte + d
    BY <1>6, <2>2, Zenon
  <2>4. WordBytes[w] = << b, c, d >>
    BY <1>5, <1>14, <1>11, <2>2
  <2>5. QED
    BY <1>5, <2>1, <2>3, <2>4
<1>12. CASE w # 0 /\ x # 0 /\ y # 0 /\ z # 0
  <2>1. z = a /\ a # 0 /\ WordBytes[z] = << a >>
    BY <1>2, <1>5, <1>6, <1>7, <1>12
  <2>2. y = a * Byte + b
    BY <1>6, <2>1, Zenon
  <2>3. x = (a * Byte + b) * Byte + c
    BY <1>6, <2>2, Zenon
  <2>4. w = ((a * Byte + b) * Byte + c) * Byte + d
    BY <1>6, <2>3, Zenon
  <2>5. WordBytes[y] = << a, b >>
    BY <1>5, <1>14, <1>12, <2>1
  <2>6. WordBytes[x] = << a, b, c >>
    BY <1>5, <1>14, <1>12, <2>5
  <2>7. WordBytes[w] = << a, b, c, d >>
    BY <1>5, <1>14, <1>12, <2>6
  <2>8. QED
    BY <1>5, <2>1, <2>4, <2>7
<1>13. QED
  BY <1>8, <1>9, <1>10, <1>11, <1>12

----------------------------------------------------------------------------
(* ReadWord of four octets or fewer.                                       *)
LEMMA OctetRange == \A o : o \in Octet <=> o \in Nat /\ o < Byte
BY WidthFacts DEF Octet

LEMMA OneMoreOctet ==
  ASSUME NEW v \in Nat, NEW o \in Nat, o < Byte
  PROVE  /\ v * Byte + o \in Nat
         /\ v < Byte => v * Byte + o < Byte * Byte
         /\ v < Byte * Byte => v * Byte + o < Byte * Byte * Byte
         /\ v < Byte * Byte * Byte => v * Byte + o < Half
<1>1. CASE Byte = 2 /\ Half = 16
  <2>1. o <= 1
    BY <1>1, SMT
  <2>2. /\ v < 2 => v * 2 + o < 4
        /\ v < 4 => v * 2 + o < 8
        /\ v < 8 => v * 2 + o < 16
    BY <2>1, SMT
  <2>3. Byte * Byte = 4 /\ Byte * Byte * Byte = 8 /\ v * Byte = v * 2
    BY <1>1, SMT
  <2>4. QED
    BY <1>1, <2>2, <2>3, SMT
<1>2. CASE Byte = 4 /\ Half = 256
  <2>1. o <= 3
    BY <1>2, SMT
  <2>2. /\ v < 4 => v * 4 + o < 16
        /\ v < 16 => v * 4 + o < 64
        /\ v < 64 => v * 4 + o < 256
    BY <2>1, SMT
  <2>3. Byte * Byte = 16 /\ Byte * Byte * Byte = 64 /\ v * Byte = v * 4
    BY <1>2, SMT
  <2>4. QED
    BY <1>2, <2>2, <2>3, SMT
<1>3. CASE Byte = 16 /\ Half = 65536
  <2>1. o <= 15
    BY <1>3, SMT
  <2>2. /\ v < 16 => v * 16 + o < 256
        /\ v < 256 => v * 16 + o < 4096
        /\ v < 4096 => v * 16 + o < 65536
    BY <2>1, SMT
  <2>3. Byte * Byte = 256 /\ Byte * Byte * Byte = 4096 /\ v * Byte = v * 16
    BY <1>3, SMT
  <2>4. QED
    BY <1>3, <2>2, <2>3, SMT
<1>4. CASE Byte = 256 /\ Half = 4294967296
  <2>1. o <= 255
    BY <1>4, SMT
  <2>2. /\ v < 256 => v * 256 + o < 65536
        /\ v < 65536 => v * 256 + o < 16777216
        /\ v < 16777216 => v * 256 + o < 4294967296
    BY <2>1, SMT
  <2>3. Byte * Byte = 65536 /\ Byte * Byte * Byte = 16777216 /\ v * Byte = v * 256
    BY <1>4, SMT
  <2>4. QED
    BY <1>4, <2>2, <2>3, SMT
<1>5. QED
  BY <1>1, <1>2, <1>3, <1>4, Widths, SMT

LEMMA BytesInWord ==
  Byte < Half /\ Byte * Byte < Half /\ Byte * Byte * Byte < Half
BY Widths, SMT

LEMMA ReadWordForm ==
  ASSUME NEW octets \in Seq(Octet)
  PROVE  /\ Len(octets) = 0 => ReadWord(octets) = 0
         /\ Len(octets) = 1 => ReadWord(octets) = octets[1]
         /\ Len(octets) = 2 => ReadWord(octets) = octets[1] * Byte + octets[2]
         /\ Len(octets) = 3 => ReadWord(octets) = (octets[1] * Byte + octets[2]) * Byte + octets[3]
         /\ Len(octets) = 4 =>
              ReadWord(octets) = ((octets[1] * Byte + octets[2]) * Byte + octets[3]) * Byte + octets[4]
<1> DEFINE n == Len(octets)
<1>1. n \in Nat /\ \A k \in 1..n : octets[k] \in Nat /\ octets[k] < Byte
  BY OctetRange
<1>2. octets \in Seq(Nat)
  <2>1. octets \in [1..n -> Nat]
    BY <1>1
  <2>2. QED
    BY <1>1, <2>1, SeqDef
<1>3. PICK w \in [0..n -> 0..(Half - 1)] :
         /\ w[0] = 0
         /\ \A k \in 1..n : w[k] = (w[k - 1] * Byte + octets[k]) % Half
         /\ ReadWord(octets) = w[n]
  BY <1>2, ReadWordChain
<1>4. \A v \in Nat : v < Half => v % Half = v
  BY WidthFacts
<1> HIDE DEF n
<1>5. n >= 1 => w[1] = octets[1] /\ w[1] \in Nat /\ w[1] < Byte
  <2> SUFFICES ASSUME n >= 1 PROVE w[1] = octets[1] /\ w[1] \in Nat /\ w[1] < Byte
    OBVIOUS
  <2>1. octets[1] \in Nat /\ octets[1] < Byte /\ octets[1] < Half
    BY <1>1, BytesInWord, WidthFacts
  <2>2. w[1] = (w[0] * Byte + octets[1]) % Half
    BY <1>1, <1>3
  <2>3. w[0] * Byte + octets[1] = octets[1]
    BY <1>3, <2>1, WidthFacts
  <2>4. QED
    BY <1>4, <2>1, <2>2, <2>3
<1>6. n >= 2 => w[2] = w[1] * Byte + octets[2] /\ w[2] \in Nat /\ w[2] < Byte * Byte
  <2> SUFFICES ASSUME n >= 2
               PROVE  w[2] = w[1] * Byte + octets[2] /\ w[2] \in Nat /\ w[2] < Byte * Byte
    OBVIOUS
  <2>1. octets[2] \in Nat /\ octets[2] < Byte /\ w[1] \in Nat /\ w[1] < Byte
    BY <1>1, <1>5
  <2>2. w[2] = (w[1] * Byte + octets[2]) % Half
    BY <1>1, <1>3
  <2>3. w[1] * Byte + octets[2] \in Nat /\ w[1] * Byte + octets[2] < Byte * Byte
    BY <2>1, OneMoreOctet
  <2>4. w[1] * Byte + octets[2] < Half
    BY <2>3, BytesInWord, WidthFacts
  <2>5. QED
    BY <1>4, <2>2, <2>3, <2>4
<1>7. n >= 3 => w[3] = w[2] * Byte + octets[3] /\ w[3] \in Nat /\ w[3] < Byte * Byte * Byte
  <2> SUFFICES ASSUME n >= 3
               PROVE  w[3] = w[2] * Byte + octets[3] /\ w[3] \in Nat /\ w[3] < Byte * Byte * Byte
    OBVIOUS
  <2>1. octets[3] \in Nat /\ octets[3] < Byte /\ w[2] \in Nat /\ w[2] < Byte * Byte
    BY <1>1, <1>6
  <2>2. w[3] = (w[2] * Byte + octets[3]) % Half
    BY <1>1, <1>3
  <2>3. w[2] * Byte + octets[3] \in Nat /\ w[2] * Byte + octets[3] < Byte * Byte * Byte
    BY <2>1, OneMoreOctet
  <2> DEFINE v == w[2] * Byte + octets[3]  m == Byte * Byte * Byte
  <2>4. v < Half
    <3>1. v \in Nat /\ v < m /\ m < Half
      BY <2>3, BytesInWord
    <3>2. m \in Nat /\ Half \in Nat
      BY WidthFacts
    <3> HIDE DEF v, m
    <3>3. QED
      BY <3>1, <3>2
  <2>5. QED
    BY <1>4, <2>2, <2>3, <2>4
<1>8. n >= 4 => w[4] = w[3] * Byte + octets[4]
  <2> SUFFICES ASSUME n >= 4 PROVE w[4] = w[3] * Byte + octets[4]
    OBVIOUS
  <2>1. octets[4] \in Nat /\ octets[4] < Byte /\ w[3] \in Nat /\ w[3] < Byte * Byte * Byte
    BY <1>1, <1>7
  <2>2. w[4] = (w[3] * Byte + octets[4]) % Half
    BY <1>1, <1>3
  <2>3. w[3] * Byte + octets[4] \in Nat /\ w[3] * Byte + octets[4] < Half
    BY <2>1, OneMoreOctet
  <2>4. QED
    BY <1>4, <2>2, <2>3
<1>9. /\ n = 0 => ReadWord(octets) = 0
      /\ n = 1 => ReadWord(octets) = octets[1]
      /\ n = 2 => ReadWord(octets) = octets[1] * Byte + octets[2]
  BY <1>3, <1>5, <1>6
<1>10. n = 3 => ReadWord(octets) = (octets[1] * Byte + octets[2]) * Byte + octets[3]
  <2> SUFFICES ASSUME n = 3 PROVE ReadWord(octets) = (octets[1] * Byte + octets[2]) * Byte + octets[3]
    OBVIOUS
  <2>1. ReadWord(octets) = w[3] /\ n >= 1 /\ n >= 2 /\ n >= 3
    BY <1>3
  <2>2. QED
    BY <1>5, <1>6, <1>7, <2>1, Zenon
<1>11. n = 4 => ReadWord(octets) = ((octets[1] * Byte + octets[2]) * Byte + octets[3]) * Byte + octets[4]
  <2> SUFFICES ASSUME n = 4
               PROVE  ReadWord(octets) = ((octets[1] * Byte + octets[2]) * Byte + octets[3]) * Byte + octets[4]
    OBVIOUS
  <2>1. ReadWord(octets) = w[4] /\ n >= 1 /\ n >= 2 /\ n >= 3 /\ n >= 4
    BY <1>3
  <2>2. QED
    BY <1>5, <1>6, <1>7, <1>8, <2>1, Zenon
<1>12. QED
  BY <1>9, <1>10, <1>11 DEF n

----------------------------------------------------------------------------
(* Two's complement.                                                       *)
LEMMA DivDiv ==
  ASSUME NEW v \in Nat, NEW a \in Nat, a > 0, NEW b \in Nat, b > 0
  PROVE  /\ (v \div a) \div b = v \div (a * b)
         /\ v \div a \in Nat /\ v % a \in Nat /\ v % a < a /\ v = (v \div a) * a + (v % a)
         /\ v < a * b => v \div a < b
<1>1. (v \div a) \div b = v \div (a * b)
  BY SMT
<1>2. v \div a \in Nat /\ v % a \in Nat /\ v % a < a /\ v = (v \div a) * a + (v % a)
  BY SMT
<1>3. v < a * b => v \div a < b
  BY SMT
<1>4. QED
  BY <1>1, <1>2, <1>3

LEMMA Modulo ==
  ASSUME NEW m \in Nat, m > 0, NEW n \in Int, -m <= n, n < m
  PROVE  n % m = IF n < 0 THEN n + m ELSE n
<1>1. n < 0 => n % m = n + m
  BY SMT
<1>2. n >= 0 => n % m = n
  BY SMT
<1>3. QED
  BY <1>1, <1>2

(* The first octet has the sign.                                           *)
LEMMA TopOctet ==
  ASSUME NEW o \in Nat, o < Byte, NEW p \in Nat, p > 0, NEW r \in Nat, r < p
  PROVE  /\ o * p + r \in Nat /\ o * p + r < Byte * p
         /\ o >= Byte \div 2 <=> 2 * (o * p + r) >= Byte * p
<1> DEFINE h == Byte \div 2
<1>1. h \in Nat /\ Byte = 2 * h
  BY WidthFacts
<1> HIDE DEF h
<1>2. o * p \in Nat
  BY SMT
<1>3. Byte * p = 2 * (h * p) /\ h * p \in Nat
  BY <1>1, SMT
<1>4. (o + 1) * p <= Byte * p /\ (o + 1) * p = o * p + p
  BY WidthFacts, SMT
<1>5. o >= h => o * p >= h * p
  BY <1>1, SMT
<1>6. o < h => (o + 1) * p <= h * p
  BY <1>1, SMT
<1>7. Byte * p \in Nat
  BY WidthFacts, SMT
<1>8. o * p + r \in Nat /\ o * p + r < Byte * p
  BY <1>2, <1>4, <1>7
<1>9. o >= h => 2 * (o * p + r) >= Byte * p
  BY <1>2, <1>3, <1>5
<1>10. o < h => 2 * (o * p + r) < Byte * p
  BY <1>2, <1>3, <1>4, <1>6
<1>11. o >= h <=> 2 * (o * p + r) >= Byte * p
  <2> DEFINE u == o * p + r  v == Byte * p
  <2>1. u \in Nat /\ v \in Nat
    BY <1>7, <1>8
  <2> HIDE DEF u, v
  <2>2. (o >= h => 2 * u >= v) /\ (o < h => 2 * u < v)
    BY <1>9, <1>10 DEF u, v
  <2>3. o >= h <=> 2 * u >= v
    BY <1>1, <2>1, <2>2
  <2>4. QED
    BY <2>3 DEF u, v
<1>12. QED
  BY <1>8, <1>11 DEF h

LEMMA SignedForm ==
  ASSUME NEW octets \in Seq(Octet), Len(octets) \in 1..4
  PROVE  LET m == Byte^Len(octets)
         IN /\ m \in Nat /\ m > 0 /\ m <= Half
            /\ ReadWord(octets) \in Nat /\ ReadWord(octets) < m
            /\ Signed(octets) = IF 2 * ReadWord(octets) >= m THEN ReadWord(octets) - m
                                                             ELSE ReadWord(octets)
<1> DEFINE n == Len(octets)  m == Byte^n  w == ReadWord(octets)
           o1 == octets[1]  o2 == octets[2]  o3 == octets[3]  o4 == octets[4]
<1>1. n \in 1..4 /\ \A k \in 1..n : octets[k] \in Nat /\ octets[k] < Byte
  BY OctetRange
<1>2. Signed(octets) = IF o1 >= Byte \div 2 THEN w - m ELSE w
  BY DEF Signed
<1>3. SUFFICES \E p, r \in Nat : p > 0 /\ r < p /\ m = Byte * p /\ m <= Half /\ w = o1 * p + r
  <2>1. PICK p, r \in Nat : p > 0 /\ r < p /\ m = Byte * p /\ m <= Half /\ w = o1 * p + r
    BY <1>3
  <2> HIDE DEF m, w
  <2>2. o1 \in Nat /\ o1 < Byte
    BY <1>1
  <2>3. w \in Nat /\ w < m /\ (o1 >= Byte \div 2 <=> 2 * w >= m)
    BY <2>1, <2>2, TopOctet
  <2>4. m \in Nat /\ m > 0
    BY <2>1, WidthFacts
  <2>5. QED
    BY <1>2, <2>1, <2>3, <2>4 DEF m, w
<1>4. CASE n = 1
  <2>1. m = Byte * 1 /\ w = o1 * 1 + 0 /\ m <= Half
    BY <1>1, <1>4, BytePowers, ReadWordForm, BytesInWord, WidthFacts
  <2>2. QED
    BY <2>1
<1>5. CASE n = 2
  <2>1. m = Byte * Byte /\ m <= Half
    BY <1>5, BytePowers, BytesInWord, WidthFacts
  <2>2. w = o1 * Byte + o2
    BY <1>5, ReadWordForm
  <2>3. o2 \in Nat /\ o2 < Byte /\ Byte \in Nat /\ Byte > 0
    BY <1>1, <1>5, WidthFacts
  <2>4. QED
    BY <2>1, <2>2, <2>3
<1>6. CASE n = 3
  <2>1. m = Byte * (Byte * Byte) /\ m <= Half
    BY <1>6, BytePowers, BytesInWord, WidthFacts
  <2>2. w = (o1 * Byte + o2) * Byte + o3
    BY <1>6, ReadWordForm
  <2> DEFINE p == Byte * Byte  r == o2 * Byte + o3
  <2>3. o1 \in Nat /\ o2 \in Nat /\ o3 \in Nat /\ o2 < Byte /\ o3 < Byte
    BY <1>1, <1>6
  <2>4. r \in Nat /\ r < p
    BY <2>3, OneMoreOctet
  <2>5. p \in Nat /\ p > 0
    BY WidthFacts
  <2>6. w = o1 * p + r
    <3> HIDE DEF w, o1, o2, o3, o4
    <3>1. Byte \in Nat
      BY WidthFacts
    <3>2. (o1 * Byte + o2) * Byte + o3 = o1 * (Byte * Byte) + (o2 * Byte + o3)
      <4>1. o1 \in Nat /\ o2 \in Nat /\ o3 \in Nat
        BY <2>3
      <4>2. QED
        BY <3>1, <4>1, SMT
    <3>3. QED
      BY <2>2, <3>2, Zenon
  <2> HIDE DEF p, r, m, w
  <2>7. m = Byte * p
    BY <2>1 DEF p
  <2>8. QED
    BY <2>1, <2>4, <2>5, <2>6, <2>7
<1>7. CASE n = 4
  <2>1. m = Byte * (Byte * Byte * Byte) /\ m <= Half
    BY <1>7, BytePowers, BytesInWord, WidthFacts
  <2>2. w = ((o1 * Byte + o2) * Byte + o3) * Byte + o4
    BY <1>7, ReadWordForm
  <2> DEFINE p == Byte * Byte * Byte  r == (o2 * Byte + o3) * Byte + o4
  <2>3. /\ o1 \in Nat /\ o2 \in Nat /\ o3 \in Nat /\ o4 \in Nat
        /\ o2 < Byte /\ o3 < Byte /\ o4 < Byte
    BY <1>1, <1>7
  <2>4. r \in Nat /\ r < p
    <3>1. o2 * Byte + o3 \in Nat /\ o2 * Byte + o3 < Byte * Byte
      BY <2>3, OneMoreOctet
    <3>2. QED
      BY <2>3, <3>1, OneMoreOctet
  <2>5. p \in Nat /\ p > 0
    BY WidthFacts
  <2>6. w = o1 * p + r
    <3> HIDE DEF w, o1, o2, o3, o4
    <3>1. Byte \in Nat
      BY WidthFacts
    <3>2. ((o1 * Byte + o2) * Byte + o3) * Byte + o4 = o1 * (Byte * Byte * Byte) + ((o2 * Byte + o3) * Byte + o4)
      <4>1. o1 \in Nat /\ o2 \in Nat /\ o3 \in Nat /\ o4 \in Nat
        BY <2>3
      <4>2. QED
        BY <3>1, <4>1, SMT
    <3>3. QED
      BY <2>2, <3>2, Zenon
  <2> HIDE DEF p, r, m, w
  <2>7. m = Byte * p
    BY <2>1 DEF p
  <2>8. QED
    BY <2>1, <2>4, <2>5, <2>6, <2>7
<1>8. QED
  BY <1>1, <1>4, <1>5, <1>6, <1>7

LEMMA PowersPositive ==
  /\ \A k \in 0..4 : Byte^k \in Nat /\ Byte^k > 0 /\ Byte^k <= Half
  /\ \A k \in 1..4 : Byte^k = Byte * Byte^(k - 1)
<1>1. Byte^0 = 1 /\ Byte^1 = Byte /\ Byte^2 = Byte * Byte
      /\ Byte^3 = Byte * Byte * Byte /\ Byte^4 = Half
  BY BytePowers
<1>2. 1 \in Nat /\ Byte \in Nat /\ Byte * Byte \in Nat /\ Byte * Byte * Byte \in Nat /\ Half \in Nat
  BY WidthFacts
<1>3. 1 <= Half /\ Byte <= Half /\ Byte * Byte <= Half /\ Byte * Byte * Byte <= Half
  BY Widths, SMT
<1>4. 1 > 0 /\ Byte > 0 /\ Byte * Byte > 0 /\ Byte * Byte * Byte > 0 /\ Half > 0
  BY Widths, SMT
<1>5. \A k \in 0..4 : k = 0 \/ k = 1 \/ k = 2 \/ k = 3 \/ k = 4
  OBVIOUS
<1>6. \A k \in 0..4 : Byte^k \in Nat /\ Byte^k > 0 /\ Byte^k <= Half
  BY <1>1, <1>2, <1>3, <1>4, <1>5
<1>7. \A k \in 1..4 : Byte^k = Byte * Byte^(k - 1)
  <2> SUFFICES ASSUME NEW k \in 1..4 PROVE Byte^k = Byte * Byte^(k - 1)
    OBVIOUS
  <2>1. CASE k = 1
    <3>1. k - 1 = 0
      BY <2>1
    <3>2. Byte^k = Byte * 1
      BY <1>1, <1>2, <2>1
    <3>3. QED
      BY <1>1, <3>1, <3>2
  <2>2. CASE k = 2
    <3>1. k - 1 = 1
      BY <2>2
    <3>2. QED
      BY <1>1, <2>2, <3>1
  <2>3. CASE k = 3
    <3>1. k - 1 = 2
      BY <2>3
    <3>2. Byte^k = Byte * (Byte * Byte)
      BY <1>1, <1>2, <2>3
    <3>3. QED
      BY <1>1, <3>1, <3>2
  <2>4. CASE k = 4
    <3>1. k - 1 = 3
      BY <2>4
    <3>2. Half = Byte * (Byte * Byte * Byte)
      BY <1>2, WidthFacts
    <3>3. QED
      BY <1>1, <2>4, <3>1, <3>2
  <2>5. QED
    BY <2>1, <2>2, <2>3, <2>4
<1>8. QED
  BY <1>6, <1>7

(* The digits of a number to the base Byte.                                *)
LEMMA BigEndian ==
  ASSUME NEW size \in 1..4, NEW bits \in Nat, bits < Byte^size
  PROVE  LET o == [i \in 1..size |-> (bits \div Byte^(size - i)) % Byte]
         IN o \in Seq(Octet) /\ Len(o) = size /\ ReadWord(o) = bits
<1> DEFINE o == [i \in 1..size |-> (bits \div Byte^(size - i)) % Byte]
           x == bits \div Byte  y == x \div Byte  z == y \div Byte
<1>1. \A i \in 1..size : (bits \div Byte^(size - i)) % Byte \in Octet
  <2> SUFFICES ASSUME NEW i \in 1..size PROVE (bits \div Byte^(size - i)) % Byte \in Octet
    OBVIOUS
  <2>1. size - i \in 0..4
    OBVIOUS
  <2> DEFINE m == Byte^(size - i)
  <2>2. m \in Nat /\ m > 0
    BY <2>1, PowersPositive
  <2> HIDE DEF m
  <2>3. bits \div m \in Nat
    BY <2>2, DivDiv
  <2>4. (bits \div m) % Byte \in Nat /\ (bits \div m) % Byte < Byte
    BY <2>3, WidthFacts
  <2>5. QED
    BY <2>4, OctetRange DEF m
<1>2. o \in Seq(Octet) /\ Len(o) = size
  BY <1>1
<1>3. Byte \in Nat /\ Byte > 0
  BY WidthFacts
<1>4. /\ x \in Nat /\ bits = x * Byte + (bits % Byte) /\ bits % Byte \in Nat
      /\ y \in Nat /\ x = y * Byte + (x % Byte) /\ x % Byte \in Nat
      /\ z \in Nat /\ y = z * Byte + (y % Byte) /\ y % Byte \in Nat
  <2>1. x \in Nat /\ bits = x * Byte + (bits % Byte) /\ bits % Byte \in Nat
    BY <1>3, DivDiv
  <2> HIDE DEF x
  <2>2. y \in Nat /\ x = y * Byte + (x % Byte) /\ x % Byte \in Nat
    BY <1>3, <2>1, DivDiv
  <2> HIDE DEF y
  <2>3. z \in Nat /\ y = z * Byte + (y % Byte) /\ y % Byte \in Nat
    BY <1>3, <2>2, DivDiv
  <2>4. QED
    BY <2>1, <2>2, <2>3
<1>5. /\ bits \div Byte^0 = bits /\ bits \div Byte^1 = x
      /\ bits \div Byte^2 = y /\ bits \div Byte^3 = z
  <2>1. bits \div Byte^0 = bits /\ bits \div Byte^1 = x
    BY BytePowers
  <2>2. bits \div Byte^2 = y
    BY <1>3, BytePowers, DivDiv
  <2>3. bits \div Byte^3 = z
    <3>1. Byte * Byte \in Nat /\ Byte * Byte > 0
      BY WidthFacts
    <3>2. (bits \div (Byte * Byte)) \div Byte = bits \div ((Byte * Byte) * Byte)
      BY <1>3, <3>1, DivDiv
    <3>3. QED
      BY <2>2, <3>2, BytePowers
  <2>4. QED
    BY <2>1, <2>2, <2>3
<1>6. \A v \in Nat : v < Byte => v % Byte = v
  BY <1>3
<1>7. /\ bits < Byte * Byte => x < Byte
      /\ bits < Byte * Byte * Byte => y < Byte
      /\ bits < Half => z < Byte
  <2>1. bits < Byte * Byte => x < Byte
    BY <1>3, DivDiv
  <2>2. bits < Byte * Byte * Byte => y < Byte
    <3>1. Byte * Byte \in Nat /\ Byte * Byte > 0 /\ y = bits \div (Byte * Byte)
      BY <1>5, BytePowers, WidthFacts
    <3>2. QED
      BY <1>3, <3>1, DivDiv
  <2>3. bits < Half => z < Byte
    <3>1. Byte * Byte * Byte \in Nat /\ Byte * Byte * Byte > 0 /\ z = bits \div (Byte * Byte * Byte)
      BY <1>5, BytePowers, WidthFacts
    <3>2. Half = (Byte * Byte * Byte) * Byte
      BY WidthFacts
    <3>3. QED
      BY <1>3, <3>1, <3>2, DivDiv
  <2>4. QED
    BY <2>1, <2>2, <2>3
<1> HIDE DEF x, y, z
<1>8. CASE size = 1
  <2>1. bits < Byte
    BY <1>8, BytePowers
  <2>2. o[1] = (bits \div Byte^0) % Byte
    <3>1. size - 1 = 0 /\ 1 \in 1..size
      BY <1>8
    <3>2. QED
      BY <3>1
  <2>3. o[1] = bits
    BY <1>5, <1>6, <2>1, <2>2
  <2> HIDE DEF o
  <2>4. QED
    BY <1>2, <1>8, <2>3, ReadWordForm DEF o
<1>9. CASE size = 2
  <2>1. bits < Byte * Byte
    BY <1>9, BytePowers
  <2>2. o[1] = (bits \div Byte^1) % Byte /\ o[2] = (bits \div Byte^0) % Byte
    <3>1. size - 1 = 1 /\ size - 2 = 0 /\ 1 \in 1..size /\ 2 \in 1..size
      BY <1>9
    <3>2. QED
      BY <3>1
  <2>3. o[1] = x /\ o[2] = bits % Byte
    BY <1>4, <1>5, <1>6, <1>7, <2>1, <2>2
  <2> HIDE DEF o
  <2>4. ReadWord(o) = o[1] * Byte + o[2]
    BY <1>2, <1>9, ReadWordForm
  <2>5. ReadWord(o) = bits
    BY <1>4, <2>3, <2>4, Zenon
  <2>6. QED
    BY <1>2, <2>5 DEF o
<1>10. CASE size = 3
  <2>1. bits < Byte * Byte * Byte
    BY <1>10, BytePowers
  <2>2. /\ o[1] = (bits \div Byte^2) % Byte /\ o[2] = (bits \div Byte^1) % Byte
        /\ o[3] = (bits \div Byte^0) % Byte
    <3>1. size - 1 = 2 /\ size - 2 = 1 /\ size - 3 = 0 /\ 1 \in 1..size /\ 2 \in 1..size /\ 3 \in 1..size
      BY <1>10
    <3>2. QED
      BY <3>1
  <2>3. o[1] = y /\ o[2] = x % Byte /\ o[3] = bits % Byte
    BY <1>4, <1>5, <1>6, <1>7, <2>1, <2>2
  <2> HIDE DEF o
  <2>4. ReadWord(o) = (o[1] * Byte + o[2]) * Byte + o[3]
    BY <1>2, <1>10, ReadWordForm
  <2>5. ReadWord(o) = bits
    BY <1>4, <2>3, <2>4, Zenon
  <2>6. QED
    BY <1>2, <2>5 DEF o
<1>11. CASE size = 4
  <2>1. bits < Half
    BY <1>11, BytePowers
  <2>2. /\ o[1] = (bits \div Byte^3) % Byte /\ o[2] = (bits \div Byte^2) % Byte
        /\ o[3] = (bits \div Byte^1) % Byte /\ o[4] = (bits \div Byte^0) % Byte
    <3>1. /\ size - 1 = 3 /\ size - 2 = 2 /\ size - 3 = 1 /\ size - 4 = 0
          /\ 1 \in 1..size /\ 2 \in 1..size /\ 3 \in 1..size /\ 4 \in 1..size
      BY <1>11
    <3>2. QED
      BY <3>1
  <2>3. o[1] = z /\ o[2] = y % Byte /\ o[3] = x % Byte /\ o[4] = bits % Byte
    BY <1>4, <1>5, <1>6, <1>7, <2>1, <2>2
  <2> HIDE DEF o
  <2>4. ReadWord(o) = ((o[1] * Byte + o[2]) * Byte + o[3]) * Byte + o[4]
    BY <1>2, <1>11, ReadWordForm
  <2>5. ReadWord(o) = bits
    BY <1>4, <2>3, <2>4, Zenon
  <2>6. QED
    BY <1>2, <2>5 DEF o
<1>12. QED
  BY <1>8, <1>9, <1>10, <1>11

(* An Integer is what is read of its octets.                               *)
LEMMA IntegerRoundTrip ==
  ASSUME NEW n \in MIN_INT32..MAX_INT32
  PROVE  /\ IntOctets(n) \in Seq(Octet) /\ Len(IntOctets(n)) \in 1..4
         /\ Signed(IntOctets(n)) = n
<1> DEFINE fits(k) == -(Byte^k) <= 2 * n /\ 2 * n < Byte^k
           small(k) == fits(k) /\ \A j \in 1..(k - 1) : ~ fits(j)
           size == CHOOSE k \in 1..4 : small(k)
           m == Byte^size
           bits == n % m
           o == IntOctets(n)
<1>1. n \in Int /\ -Half <= 2 * n /\ 2 * n < Half
  BY WidthFacts DEF MIN_INT32, MAX_INT32
<1>2. fits(4)
  BY <1>1, BytePowers
<1>3. \E k \in 1..4 : small(k)
  <2> HIDE DEF fits
  <2>1. \/ fits(1) \/ (~ fits(1) /\ fits(2)) \/ (~ fits(1) /\ ~ fits(2) /\ fits(3))
        \/ (~ fits(1) /\ ~ fits(2) /\ ~ fits(3) /\ fits(4))
    BY <1>2
  <2>2. QED
    BY <2>1
<1>4. size \in 1..4 /\ fits(size)
  <2> HIDE DEF fits
  <2>1. QED
    BY <1>3
<1>5. IntOctets(n) = [i \in 1..size |-> (bits \div Byte^(size - i)) % Byte]
  BY DEF IntOctets
<1> HIDE DEF size
<1>6. m \in Nat /\ m > 0 /\ -m <= 2 * n /\ 2 * n < m
  BY <1>4, PowersPositive
<1>7. bits = IF n < 0 THEN n + m ELSE n
  <2> HIDE DEF m
  <2>1. -m <= n /\ n < m
    BY <1>1, <1>6
  <2>2. QED
    BY <1>1, <1>6, <2>1, Modulo
<1>8. bits \in Nat /\ bits < Byte^size
  <2>1. bits \in Nat /\ bits < m
    <3> HIDE DEF m, bits
    <3>1. QED
      BY <1>1, <1>6, <1>7
  <2>2. QED
    BY <2>1
<1> HIDE DEF bits
<1>9. o \in Seq(Octet) /\ Len(o) = size /\ ReadWord(o) = bits
  BY <1>4, <1>5, <1>8, BigEndian
<1> HIDE DEF o
<1>10. Signed(o) = IF 2 * bits >= m THEN bits - m ELSE bits
  BY <1>4, <1>9, SignedForm
<1>11. Signed(o) = n
  <2> HIDE DEF m
  <2>1. QED
    BY <1>1, <1>6, <1>7, <1>10
<1>12. QED
  BY <1>4, <1>9, <1>11 DEF o

----------------------------------------------------------------------------
(* The parts of a concatenation.                                           *)
LEMMA ConcatParts ==
  ASSUME NEW S, NEW s \in Seq(S), NEW t \in Seq(S)
  PROVE  /\ SubSeq(s \o t, 1, Len(s)) = s
         /\ SubSeq(s \o t, Len(s) + 1, Len(s) + Len(t)) = t
<1> DEFINE a == SubSeq(s \o t, 1, Len(s))
           b == SubSeq(s \o t, Len(s) + 1, Len(s) + Len(t))
<1>1. /\ s \o t \in Seq(S) /\ Len(s \o t) = Len(s) + Len(t)
      /\ \A i \in 1..Len(s) : (s \o t)[i] = s[i]
      /\ \A i \in 1..Len(t) : (s \o t)[Len(s) + i] = t[i]
  OBVIOUS
<1>2. a \in Seq(S) /\ Len(a) = Len(s) /\ \A i \in 1..Len(a) : a[i] = s[i]
  BY <1>1
<1>3. b \in Seq(S) /\ Len(b) = Len(t) /\ \A i \in 1..Len(b) : b[i] = t[i]
  BY <1>1
<1> HIDE DEF a, b
<1>4. a = s /\ b = t
  BY <1>2, <1>3, SeqEqual
<1>5. QED
  BY <1>4 DEF a, b

----------------------------------------------------------------------------
(* A word is what is read of its bytes, with zeros before them or not.     *)
LEMMA WordRoundTrip ==
  ASSUME NEW w \in 0..(Half - 1)
  PROVE  LET o == WordBytes[w]
         IN /\ o \in Seq(Octet) /\ Len(o) <= 4 /\ ReadWord(o) = w
            /\ IF w = 0 THEN Len(o) = 0 ELSE Len(o) > 0 /\ o[1] # 0
<1> DEFINE o == WordBytes[w]
           G == o \in Seq(Octet) /\ Len(o) <= 4 /\ ReadWord(o) = w
                /\ IF w = 0 THEN Len(o) = 0 ELSE Len(o) > 0 /\ o[1] # 0
<1>0. SUFFICES G
  OBVIOUS
<1>9. \A v \in Octet : v \in Nat
  BY OctetRange
<1>1. ASSUME w = 0, o = << >>
      PROVE  G
  <2>1. o \in Seq(Octet) /\ Len(o) = 0
    BY <1>1
  <2> HIDE DEF o
  <2>2. ReadWord(o) = 0
    BY <2>1, ReadWordForm
  <2>3. QED
    BY <1>1, <2>1, <2>2
<1>2. ASSUME NEW a \in Octet, a # 0, w = a, o = << a >>
      PROVE  G
  <2>1. o \in Seq(Octet) /\ Len(o) = 1 /\ o[1] = a
    BY <1>2
  <2> HIDE DEF o
  <2>2. ReadWord(o) = o[1]
    BY <2>1, ReadWordForm
  <2>3. QED
    BY <1>2, <1>9, <2>1, <2>2
<1>3. ASSUME NEW a \in Octet, NEW b \in Octet, a # 0, w = a * Byte + b, o = << a, b >>, w # 0
      PROVE  G
  <2>1. o \in Seq(Octet) /\ Len(o) = 2 /\ o[1] = a /\ o[2] = b
    BY <1>3
  <2> HIDE DEF o
  <2>2. ReadWord(o) = o[1] * Byte + o[2]
    BY <2>1, ReadWordForm
  <2>3. ReadWord(o) = w
    BY <1>3, <2>1, <2>2, Zenon
  <2>4. QED
    BY <1>3, <2>1, <2>3
<1>4. ASSUME NEW a \in Octet, NEW b \in Octet, NEW c \in Octet, a # 0,
             w = (a * Byte + b) * Byte + c, o = << a, b, c >>, w # 0
      PROVE  G
  <2>1. o \in Seq(Octet) /\ Len(o) = 3 /\ o[1] = a /\ o[2] = b /\ o[3] = c
    BY <1>4
  <2> HIDE DEF o
  <2>2. ReadWord(o) = (o[1] * Byte + o[2]) * Byte + o[3]
    BY <2>1, ReadWordForm
  <2>3. ReadWord(o) = w
    BY <1>4, <2>1, <2>2, Zenon
  <2>4. QED
    BY <1>4, <2>1, <2>3
<1>5. ASSUME NEW a \in Octet, NEW b \in Octet, NEW c \in Octet, NEW d \in Octet, a # 0,
             w = ((a * Byte + b) * Byte + c) * Byte + d, o = << a, b, c, d >>, w # 0
      PROVE  G
  <2>1. o \in Seq(Octet) /\ Len(o) = 4 /\ o[1] = a /\ o[2] = b /\ o[3] = c /\ o[4] = d
    BY <1>5
  <2> HIDE DEF o
  <2>2. ReadWord(o) = ((o[1] * Byte + o[2]) * Byte + o[3]) * Byte + o[4]
    BY <2>1, ReadWordForm
  <2>3. ReadWord(o) = w
    BY <1>5, <2>1, <2>2, Zenon
  <2>4. QED
    BY <1>5, <2>1, <2>3
<1>6. CASE w = 0
  <2>1. 0 \in 0..(Half - 1)
    BY WidthFacts
  <2>2. o = << >>
    BY <1>6, <2>1, WordBytesEquation
  <2>3. QED
    BY <1>1, <1>6, <2>2
<1>7. CASE w # 0
  <2> HIDE DEF o
  <2>1. \/ \E a \in Octet : a # 0 /\ w = a /\ o = << a >>
        \/ \E a, b \in Octet : a # 0 /\ w = a * Byte + b /\ o = << a, b >>
        \/ \E a, b, c \in Octet : a # 0 /\ w = (a * Byte + b) * Byte + c /\ o = << a, b, c >>
        \/ \E a, b, c, d \in Octet :
              a # 0 /\ w = ((a * Byte + b) * Byte + c) * Byte + d /\ o = << a, b, c, d >>
    BY <1>7, WordBytesForm DEF o
  <2> HIDE DEF G
  <2>2. QED
    BY <1>2, <1>3, <1>4, <1>5, <1>7, <2>1
<1>8. QED
  BY <1>6, <1>7

LEMMA PaddedRoundTrip ==
  ASSUME NEW w \in 0..(Half - 1)
  PROVE  LET o == Zeros(4 - Len(WordBytes[w])) \o WordBytes[w]
         IN o \in Seq(Octet) /\ Len(o) = 4 /\ ReadWord(o) = w
<1> DEFINE l == WordBytes[w]  k == Len(l)  zs == Zeros(4 - k)  o == zs \o l
<1>1. l \in Seq(Octet) /\ k = Len(l) /\ k \in Nat /\ k <= 4 /\ ReadWord(l) = w
  BY WordRoundTrip
<1>2. 0 \in Octet
  BY OctetRange, WidthFacts
<1> HIDE DEF l, k
<1>3. zs \in Seq(Octet) /\ Len(zs) = 4 - k /\ \A i \in 1..(4 - k) : zs[i] = 0
  BY <1>1, <1>2 DEF Zeros
<1> HIDE DEF zs
<1>4. /\ o \in Seq(Octet) /\ Len(o) = 4
      /\ \A i \in 1..4 : o[i] = IF i <= 4 - k THEN 0 ELSE l[i - (4 - k)]
  BY <1>1, <1>3
<1> HIDE DEF o
<1>5. ReadWord(o) = ((o[1] * Byte + o[2]) * Byte + o[3]) * Byte + o[4]
  BY <1>4, ReadWordForm
<1>6. Byte \in Nat /\ 0 * Byte = 0
  BY WidthFacts
<1>7. \A i \in 1..k : l[i] \in Nat
  BY <1>1, OctetRange
<1>8. ReadWord(o) = w
  <2>1. CASE k = 0
    <3>1. o[1] = 0 /\ o[2] = 0 /\ o[3] = 0 /\ o[4] = 0
      BY <1>4, <2>1
    <3>2. w = 0
      BY <1>1, <2>1, ReadWordForm
    <3>3. QED
      BY <1>5, <1>6, <3>1, <3>2
  <2>2. CASE k = 1
    <3>1. o[1] = 0 /\ o[2] = 0 /\ o[3] = 0 /\ o[4] = l[1]
      BY <1>4, <2>2
    <3>2. w = l[1] /\ l[1] \in Nat
      <4>1. Len(l) = 1
        BY <1>1, <2>2
      <4>2. w = l[1]
        BY <1>1, <4>1, ReadWordForm, Zenon
      <4>3. l[1] \in Nat
        BY <1>7, <2>2
      <4>4. QED
        BY <4>2, <4>3
    <3>3. QED
      BY <1>5, <1>6, <3>1, <3>2
  <2>3. CASE k = 2
    <3>1. o[1] = 0 /\ o[2] = 0 /\ o[3] = l[1] /\ o[4] = l[2]
      BY <1>4, <2>3
    <3>2. w = l[1] * Byte + l[2] /\ l[1] \in Nat /\ l[2] \in Nat
      <4>1. Len(l) = 2
        BY <1>1, <2>3
      <4>2. w = l[1] * Byte + l[2]
        BY <1>1, <4>1, ReadWordForm, Zenon
      <4>3. l[1] \in Nat /\ l[2] \in Nat
        BY <1>7, <2>3
      <4>4. QED
        BY <4>2, <4>3
    <3>3. QED
      BY <1>5, <1>6, <3>1, <3>2
  <2>4. CASE k = 3
    <3>1. o[1] = 0 /\ o[2] = l[1] /\ o[3] = l[2] /\ o[4] = l[3]
      BY <1>4, <2>4
    <3>2. w = (l[1] * Byte + l[2]) * Byte + l[3] /\ l[1] \in Nat
      <4>1. Len(l) = 3
        BY <1>1, <2>4
      <4>2. w = (l[1] * Byte + l[2]) * Byte + l[3]
        BY <1>1, <4>1, ReadWordForm, Zenon
      <4>3. l[1] \in Nat
        BY <1>7, <2>4
      <4>4. QED
        BY <4>2, <4>3
    <3>3. o[1] * Byte + o[2] = l[1]
      BY <1>6, <3>1, <3>2
    <3>4. QED
      BY <1>5, <3>1, <3>2, <3>3, Zenon
  <2>5. CASE k = 4
    <3>1. o[1] = l[1] /\ o[2] = l[2] /\ o[3] = l[3] /\ o[4] = l[4]
      BY <1>4, <2>5
    <3>2. w = ((l[1] * Byte + l[2]) * Byte + l[3]) * Byte + l[4]
      BY <1>1, <2>5, ReadWordForm
    <3>3. QED
      BY <1>5, <3>1, <3>2, Zenon
  <2>6. k = 0 \/ k = 1 \/ k = 2 \/ k = 3 \/ k = 4
    BY <1>1
  <2>7. QED
    BY <2>1, <2>2, <2>3, <2>4, <2>5, <2>6
<1>9. QED
  BY <1>4, <1>8 DEF o, zs, k, l

LEMMA TrimmedShort ==
  ASSUME NEW o, NEW size \in Nat, Len(o) \in Nat, Len(o) <= size
  PROVE  Trimmed(o, size) = o
<1>1. Len(o) # size + 1
  OBVIOUS
<1>2. QED
  BY <1>1, Zenon DEF Trimmed

(* The octets of a Counter32, an Unsigned32, TimeTicks.                    *)
LEMMA UnsignedRoundTrip ==
  ASSUME NEW n \in 0..(Half - 1)
  PROVE  LET o == UnsignedOctets(n)
         IN /\ o \in Seq(Octet) /\ Len(o) \in Nat /\ Len(o) >= 1 /\ Len(o) <= 4 /\ (Len(o) > 1 => o[1] # 0)
            /\ \A tag : ReadUnsigned([tag |-> tag, long |-> FALSE, octets |-> o]) = << n >>
<1> DEFINE o == UnsignedOctets(n)
<1>1. o \in Seq(Octet) /\ Len(o) \in Nat /\ Len(o) >= 1 /\ Len(o) <= 4 /\ (Len(o) > 1 => o[1] # 0) /\ ReadWord(o) = n
  <2>1. CASE n = 0
    <3>1. o = << 0 >> /\ 0 \in Octet
      BY <2>1, OctetRange, WidthFacts DEF UnsignedOctets
    <3>2. o \in Seq(Octet) /\ Len(o) = 1 /\ o[1] = 0
      BY <3>1
    <3> HIDE DEF o
    <3>3. QED
      BY <2>1, <3>2, ReadWordForm
  <2>2. CASE n # 0
    <3>1. o = WordBytes[n]
      BY <2>2 DEF UnsignedOctets
    <3>2. o \in Seq(Octet) /\ Len(o) <= 4 /\ Len(o) > 0 /\ o[1] # 0 /\ ReadWord(o) = n
      BY <2>2, <3>1, WordRoundTrip
    <3> HIDE DEF o
    <3>3. QED
      BY <3>2
  <2>3. QED
    BY <2>1, <2>2
<1> HIDE DEF o
<1>2. Trimmed(o, 4) = o /\ Len(o) <= 4 /\ ReadWord(o) = n
  <2>1. Len(o) \in Nat /\ Len(o) >= 1 /\ Len(o) <= 4 /\ ReadWord(o) = n
    BY <1>1
  <2>2. Trimmed(o, 4) = o
    BY <2>1, TrimmedShort
  <2>3. QED
    BY <2>1, <2>2
<1>3. ASSUME NEW tag PROVE ReadUnsigned([tag |-> tag, long |-> FALSE, octets |-> o]) = << n >>
  <2> DEFINE string == [tag |-> tag, long |-> FALSE, octets |-> o]
  <2>1. string.octets = o /\ ~ string.long
    OBVIOUS
  <2> HIDE DEF string
  <2>2. ReadUnsigned(string) = << n >>
    BY <1>2, <2>1, Zenon DEF ReadUnsigned, Checked
  <2>3. QED
    BY <2>2 DEF string
<1>4. QED
  BY <1>1, <1>3 DEF o

(* The octets of a Counter64.                                              *)
LEMMA Counter64RoundTrip ==
  ASSUME NEW hi \in 0..(Half - 1), NEW lo \in 0..(Half - 1)
  PROVE  LET o == toOctets(uint64(hi, lo))
         IN /\ o \in Seq(Octet) /\ Len(o) \in Nat /\ Len(o) >= 1 /\ Len(o) <= 8 /\ (Len(o) > 1 => o[1] # 0)
            /\ \A tag : ReadCounter64([tag |-> tag, long |-> FALSE, octets |-> o]) = << hi, lo >>
<1> DEFINE n == uint64(hi, lo)  o == toOctets(n)
<1>1. n = [hi |-> hi, lo |-> lo]
  <2>1. hi % Half = hi /\ lo % Half = lo
    BY WidthFacts, InWord
  <2>2. QED
    BY <2>1 DEF uint64
<1>2. n.hi = hi /\ n.lo = lo
  BY <1>1
<1> HIDE DEF n
<1> DEFINE k == IF Len(o) > 4 THEN Len(o) - 4 ELSE 0
           G == /\ o \in Seq(Octet) /\ Len(o) \in Nat /\ Len(o) >= 1 /\ Len(o) <= 8 /\ (Len(o) > 1 => o[1] # 0)
                /\ ReadWord(SubSeq(o, 1, k)) = hi
                /\ ReadWord(SubSeq(o, k + 1, Len(o))) = lo
<1>3. SUFFICES G
  <2> HIDE DEF o
  <2>0. Len(o) \in Nat /\ Len(o) >= 1 /\ Len(o) <= 8
    BY <1>3
  <2>1. Trimmed(o, 8) = o /\ Len(o) <= 8
    <3>1. 8 \in Nat
      OBVIOUS
    <3>2. QED
      BY <2>0, <3>1, TrimmedShort, Zenon
  <2>2. ASSUME NEW tag PROVE ReadCounter64([tag |-> tag, long |-> FALSE, octets |-> o]) = << hi, lo >>
    <3> DEFINE string == [tag |-> tag, long |-> FALSE, octets |-> o]
    <3>1. string.octets = o /\ ~ string.long
      OBVIOUS
    <3> HIDE DEF string
    <3>2. ReadCounter64(string) = << hi, lo >>
      BY <1>3, <2>1, <3>1, Zenon DEF ReadCounter64, Checked
    <3>3. QED
      BY <3>2 DEF string
  <2>3. QED
    BY <1>3, <2>2 DEF o, n
<1>4. CASE hi = 0
  <2>1. o \in Seq(Octet) /\ Len(o) \in Nat /\ Len(o) >= 1 /\ Len(o) <= 4 /\ (Len(o) > 1 => o[1] # 0) /\ ReadWord(o) = lo
    <3>1. CASE lo = 0
      <4>0. 0 \in Octet
        BY OctetRange, WidthFacts
      <4>1. o = << 0 >>
        BY <1>2, <1>4, <3>1 DEF toOctets, tstq
      <4>2. o \in Seq(Octet) /\ Len(o) = 1 /\ o[1] = 0
        BY <4>0, <4>1
      <4> HIDE DEF o
      <4>3. QED
        BY <3>1, <4>2, ReadWordForm
    <3>2. CASE lo # 0
      <4>1. o = WordBytes[lo]
        BY <1>2, <1>4, <3>2 DEF toOctets, tstq
      <4>2. o \in Seq(Octet) /\ Len(o) <= 4 /\ Len(o) > 0 /\ o[1] # 0 /\ ReadWord(o) = lo
        BY <3>2, <4>1, WordRoundTrip
      <4> HIDE DEF o
      <4>3. QED
        BY <4>2
    <3>3. QED
      BY <3>1, <3>2
  <2> HIDE DEF o
  <2>2. SubSeq(o, 1, 0) = << >> /\ SubSeq(o, 1, Len(o)) = o
    <3>1. SubSeq(o, 1, 0) = << >>
      BY <2>1
    <3>2. SubSeq(o, 1, Len(o)) = o
      BY <2>1, SubSeqFull
    <3>3. QED
      BY <3>1, <3>2
  <2>3. << >> \in Seq(Octet) /\ Len(<< >>) = 0
    OBVIOUS
  <2>4. ReadWord(<< >>) = 0
    BY <2>3, ReadWordForm
  <2>5. QED
    <3>1. o \in Seq(Octet) /\ Len(o) \in Nat /\ Len(o) >= 1 /\ Len(o) <= 4 /\ (Len(o) > 1 => o[1] # 0) /\ Len(o) \in Nat /\ Len(o) >= 1 /\ Len(o) <= 8
      BY <2>1
    <3>2. Len(o) \in Nat /\ Len(o) >= 1 /\ Len(o) <= 4
      BY <2>1
    <3>3. k = 0 /\ k + 1 = 1
      BY <3>2
    <3> HIDE DEF k
    <3>4. ReadWord(SubSeq(o, 1, k)) = hi
      BY <1>4, <2>2, <2>4, <3>3, Zenon
    <3>5. ReadWord(SubSeq(o, k + 1, Len(o))) = lo
      BY <2>1, <2>2, <3>3, Zenon
    <3>6. QED
      BY <3>1, <3>4, <3>5
<1>5. CASE hi # 0
  <2> DEFINE h == WordBytes[hi]  p == Zeros(4 - Len(WordBytes[lo])) \o WordBytes[lo]
  <2>1. h \in Seq(Octet) /\ Len(h) \in Nat /\ Len(h) >= 1 /\ Len(h) <= 4 /\ h[1] # 0 /\ ReadWord(h) = hi
    <3>1. h \in Seq(Octet) /\ Len(h) <= 4 /\ Len(h) > 0 /\ h[1] # 0 /\ ReadWord(h) = hi
      BY <1>5, WordRoundTrip
    <3> HIDE DEF h
    <3>2. QED
      BY <3>1
  <2>2. p \in Seq(Octet) /\ Len(p) = 4 /\ ReadWord(p) = lo
    BY PaddedRoundTrip
  <2>3. o = h \o p
    <3>1. o = h \o Zeros(4 - Len(WordBytes[lo])) \o WordBytes[lo]
      BY <1>2, <1>5 DEF toOctets, tstq
    <3>2. WordBytes[lo] \in Seq(Octet) /\ Len(WordBytes[lo]) <= 4
      BY WordRoundTrip
    <3>3. Zeros(4 - Len(WordBytes[lo])) \in Seq(Octet)
      <4>1. 0 \in Octet
        BY OctetRange, WidthFacts
      <4>2. QED
        BY <3>2, <4>1 DEF Zeros
    <3>4. (h \o Zeros(4 - Len(WordBytes[lo]))) \o WordBytes[lo] = h \o p
      <4> DEFINE l == WordBytes[lo]  zs == Zeros(4 - Len(WordBytes[lo]))
      <4>1. h \in Seq(Octet) /\ zs \in Seq(Octet) /\ l \in Seq(Octet)
        BY <2>1, <3>2, <3>3
      <4> HIDE DEF h, l, zs
      <4>2. (h \o zs) \o l = h \o (zs \o l)
        BY <4>1, ConcatAssociative
      <4>3. QED
        BY <4>2 DEF l, zs
    <3>5. QED
      BY <3>1, <3>4
  <2> HIDE DEF h, p, o
  <2>4. o \in Seq(Octet) /\ Len(o) = Len(h) + 4 /\ o[1] = h[1]
    <3>1. /\ o \in Seq(Octet) /\ Len(o) = Len(h) + Len(p)
          /\ \A i \in 1..(Len(h) + Len(p)) : o[i] = IF i <= Len(h) THEN h[i] ELSE p[i - Len(h)]
      BY <2>1, <2>2, <2>3, ConcatProperties
    <3>2. QED
      BY <2>1, <2>2, <3>1
  <2>5. SubSeq(o, 1, Len(h)) = h
    BY <2>1, <2>2, <2>3, ConcatParts
  <2>6. SubSeq(o, Len(h) + 1, Len(o)) = p
    <3>1. Len(o) = Len(h) + Len(p)
      BY <2>2, <2>4
    <3>2. QED
      <4>1. SubSeq(h \o p, Len(h) + 1, Len(h) + Len(p)) = p
        BY <2>1, <2>2, ConcatParts
      <4>2. QED
        BY <2>3, <3>1, <4>1, Zenon
  <2>7. QED
    <3>0. Len(h) \in Nat /\ Len(h) >= 1 /\ Len(h) <= 4 /\ Len(o) = Len(h) + 4
      BY <2>1, <2>4
    <3>1. k = Len(h)
      BY <3>0
    <3> HIDE DEF k
    <3>2. ReadWord(SubSeq(o, 1, k)) = hi
      BY <2>1, <2>5, <3>1, Zenon
    <3>3. ReadWord(SubSeq(o, k + 1, Len(o))) = lo
      BY <2>2, <2>6, <3>1, Zenon
    <3>4. Len(o) \in Nat /\ Len(o) >= 1 /\ Len(o) <= 8
      BY <3>0
    <3>5. o \in Seq(Octet) /\ o[1] # 0
      BY <2>1, <2>4
    <3>6. QED
      BY <3>2, <3>3, <3>4, <3>5
<1>6. QED
  BY <1>4, <1>5

----------------------------------------------------------------------------
(* What the setters and the readers of each type leave in a value.         *)
LEMMA Kinds ==
  /\ Constructors = {"Integer", "OctetString", "Null", "ObjectIdentifier", "IpAddress",
                     "Counter32", "Unsigned32", "TimeTicks", "Opaque", "Counter64"}
  /\ \A c \in Constructors : StockTag[c] \in 0..127
  /\ \A t : t \in ErrorTags <=> t = 128 \/ t = 129 \/ t = 130
  /\ Texts = {"OctetString", "Opaque"} /\ Unsigned = {"Counter32", "Unsigned32", "TimeTicks"}
<1>1. Constructors = {"Integer", "OctetString", "Null", "ObjectIdentifier", "IpAddress",
                      "Counter32", "Unsigned32", "TimeTicks", "Opaque", "Counter64"}
  BY DEF Constructors, StockTag
<1>2. \A c \in Constructors : StockTag[c] \in 0..127
  BY <1>1 DEF StockTag
<1>3. \A t : t \in ErrorTags <=> t = 128 \/ t = 129 \/ t = 130
  BY DEF ErrorTags, Context, noSuchObject, endOfMibView
<1>4. QED
  BY <1>1, <1>2, <1>3 DEF Texts, Unsigned

LEMMA Bounds ==
  /\ MIN_INT32 \in Int /\ MAX_INT32 \in Nat /\ MAX_UINT32 \in Nat /\ Number32 = 0..(Half - 1)
  /\ \A o \in Octet : o \in Nat /\ o \in Int /\ o < Byte
  /\ 0 \in Octet /\ Blank \notin Octet
<1>1. MIN_INT32 \in Int /\ MAX_INT32 \in Nat /\ MAX_UINT32 \in Nat
  BY WidthFacts DEF MIN_INT32, MAX_INT32, MAX_UINT32
<1>2. Number32 = 0..(Half - 1)
  BY DEF Number32, MAX_UINT32
<1>3. \A o \in Octet : o \in Nat /\ o \in Int /\ o < Byte
  BY OctetRange
<1>4. 0 \in Octet
  BY OctetRange, WidthFacts
<1>5. Blank \notin Octet
  BY <1>3, ValuesAssumption
<1>6. QED
  BY <1>1, <1>2, <1>3, <1>4, <1>5

LEMMA ValueOf ==
  ASSUME NEW S, S \subseteq Int \cup {Blank}, NEW v \in Seq(S)
  PROVE  v \in Values /\ Range(v) \subseteq S
<1>1. v \in Values
  BY SeqMonotonic DEF Values
<1>2. Range(v) \subseteq S
  BY DEF Range
<1>3. QED
  BY <1>1, <1>2

LEMMA HoldsOf ==
  ASSUME NEW v
  PROVE  /\ Holds("Integer", v) <=> Len(v) = 1 /\ v[1] \in MIN_INT32..MAX_INT32
         /\ \A type \in Texts : Holds(type, v) <=> Range(v) \subseteq Octet
         /\ Holds("ObjectIdentifier", v) <=> Range(v) \subseteq 0..MAX_INT32
         /\ Holds("IpAddress", v) <=> Len(v) = 4 /\ Range(v) \subseteq Octet \cup {Blank}
         /\ \A type \in Unsigned : Holds(type, v) <=> Len(v) = 1 /\ v[1] \in Number32
         /\ Holds("Counter64", v) <=> Len(v) = 2 /\ Range(v) \subseteq Number32
         /\ Holds("Null", v) <=>
              v \in { << >> } \cup { << e >> : e \in noSuchObject..endOfMibView }
<1>1. /\ "Integer" \notin Texts \cup Unsigned /\ "ObjectIdentifier" \notin Texts \cup Unsigned
      /\ "IpAddress" \notin Texts \cup Unsigned /\ "Counter64" \notin Texts \cup Unsigned
      /\ "Null" \notin Texts \cup Unsigned
      /\ \A type \in Texts \cup Unsigned : type \notin {"Integer", "ObjectIdentifier", "IpAddress", "Counter64", "Null"}
      /\ \A type \in Texts : type \notin Unsigned
  BY DEF Texts, Unsigned
<1>2. Holds("Integer", v) <=> Len(v) = 1 /\ v[1] \in MIN_INT32..MAX_INT32
  BY <1>1, Zenon DEF Holds
<1>3. \A type \in Texts : Holds(type, v) <=> Range(v) \subseteq Octet
  BY <1>1, Zenon DEF Holds
<1>4. Holds("ObjectIdentifier", v) <=> Range(v) \subseteq 0..MAX_INT32
  BY <1>1, Zenon DEF Holds
<1>5. Holds("IpAddress", v) <=> Len(v) = 4 /\ Range(v) \subseteq Octet \cup {Blank}
  BY <1>1, Zenon DEF Holds
<1>6. \A type \in Unsigned : Holds(type, v) <=> Len(v) = 1 /\ v[1] \in Number32
  BY <1>1, Zenon DEF Holds
<1>7. Holds("Counter64", v) <=> Len(v) = 2 /\ Range(v) \subseteq Number32
  BY <1>1, Zenon DEF Holds
<1>8. Holds("Null", v) <=> v \in { << >> } \cup { << e >> : e \in noSuchObject..endOfMibView }
  BY <1>1, Zenon DEF Holds
<1>9. QED
  BY <1>2, <1>3, <1>4, <1>5, <1>6, <1>7, <1>8

Kept(type, v) == v \in Values /\ Holds(type, v)

LEMMA KeptNumber ==
  ASSUME NEW n \in Int
  PROVE  /\ n \in MIN_INT32..MAX_INT32 => Kept("Integer", << n >>)
         /\ \A type \in Unsigned : n \in Number32 => Kept(type, << n >>)
<1>1. << n >> \in Values /\ Len(<< n >>) = 1 /\ << n >>[1] = n
  BY DEF Values
<1> DEFINE v == << n >>
<1> HIDE DEF v
<1>2. v \in Values /\ Len(v) = 1 /\ v[1] = n
  BY <1>1 DEF v
<1>3. n \in MIN_INT32..MAX_INT32 => Kept("Integer", v)
  BY <1>2, HoldsOf DEF Kept
<1>4. ASSUME NEW type \in Unsigned, n \in Number32 PROVE Kept(type, v)
  BY <1>2, <1>4, HoldsOf DEF Kept
<1>5. QED
  BY <1>3, <1>4 DEF v

LEMMA KeptPair ==
  ASSUME NEW hi \in Number32, NEW lo \in Number32
  PROVE  Kept("Counter64", << hi, lo >>)
<1> DEFINE v == << hi, lo >>
<1>1. Number32 \subseteq Int \cup {Blank}
  BY Bounds
<1>2. v \in Seq(Number32) /\ Len(v) = 2
  OBVIOUS
<1> HIDE DEF v
<1>3. v \in Values /\ Range(v) \subseteq Number32
  BY <1>1, <1>2, ValueOf
<1>4. QED
  BY <1>2, <1>3, HoldsOf DEF Kept, v

LEMMA KeptNull ==
  /\ Kept("Null", << >>)
  /\ \A tag \in ErrorTags : Kept("Null", << tag - Context >>)
  /\ \A tag : Kept("Null", NullValue(tag))
<1>1. Kept("Null", << >>)
  BY HoldsOf DEF Kept, Values
<1>2. ASSUME NEW tag \in ErrorTags PROVE Kept("Null", << tag - Context >>)
  <2> DEFINE e == tag - Context
  <2>1. e \in noSuchObject..endOfMibView /\ e \in Int
    BY Kinds DEF Context, noSuchObject, endOfMibView
  <2> HIDE DEF e
  <2>2. << e >> \in Values
    BY <2>1 DEF Values
  <2>3. << e >> \in { << x >> : x \in noSuchObject..endOfMibView }
    BY <2>1
  <2>4. QED
    BY <2>2, <2>3, HoldsOf DEF Kept, e
<1>3. QED
  BY <1>1, <1>2 DEF NullValue

LEMMA KeptText ==
  ASSUME NEW type \in Texts, NEW v \in Seq(Octet)
  PROVE  Kept(type, v)
<1>1. Octet \subseteq Int \cup {Blank}
  BY Bounds
<1>2. v \in Values /\ Range(v) \subseteq Octet
  BY <1>1, ValueOf
<1>3. QED
  BY <1>2, HoldsOf DEF Kept

LEMMA KeptOID ==
  ASSUME NEW v \in Seq(0..MAX_INT32)
  PROVE  Kept("ObjectIdentifier", v)
<1>1. 0..MAX_INT32 \subseteq Int \cup {Blank}
  BY Bounds
<1>2. v \in Values /\ Range(v) \subseteq 0..MAX_INT32
  BY <1>1, ValueOf
<1>3. QED
  BY <1>2, HoldsOf DEF Kept

LEMMA KeptAddress ==
  ASSUME NEW v \in Seq(Octet \cup {Blank}), Len(v) = 4
  PROVE  Kept("IpAddress", v)
<1>1. Octet \cup {Blank} \subseteq Int \cup {Blank}
  BY Bounds
<1>2. v \in Values /\ Range(v) \subseteq Octet \cup {Blank}
  BY <1>1, ValueOf
<1>3. QED
  BY <1>2, HoldsOf DEF Kept

LEMMA StoredOf ==
  ASSUME NEW js, NEW v
  PROVE  /\ Stored("Integer", js, v) = SetInteger(js, v)
         /\ \A type \in Texts : Stored(type, js, v) = SetText(js, v)
         /\ Stored("ObjectIdentifier", js, v) = SetOID(js, v)
         /\ Stored("IpAddress", js, v) = SetIpAddress(js, v)
         /\ \A type \in Unsigned : Stored(type, js, v) = SetUnsigned(js, v)
         /\ Stored("Counter64", js, v) = SetCounter64(js, v)
         /\ Stored("Null", js, v) = SetNull(js, v)
BY DEF Stored, Texts, Unsigned

LEMMA ContentsOf ==
  ASSUME NEW v
  PROVE  /\ Contents("Integer", v) = IntOctets(v[1])
         /\ \A type \in Texts : Contents(type, v) = v
         /\ Contents("ObjectIdentifier", v) = << 40 * v[1] + v[2] >> \o SubSeq(v, 3, Len(v))
         /\ Contents("IpAddress", v) = [i \in 1..4 |-> Number(v[i])]
         /\ \A type \in Unsigned : Contents(type, v) = UnsignedOctets(v[1])
         /\ Contents("Counter64", v) = toOctets(uint64(v[1], v[2]))
         /\ Contents("Null", v) = << >>
BY DEF Contents, Texts, Unsigned

(* The setters keep what they do not refuse, and keep it typed.            *)
LEMMA StoredKept ==
  ASSUME NEW type \in Constructors, NEW js, NEW v \in Values,
         js = "number" => Len(v) = 1 /\ v[1] \in Int,
         js = "words" => Len(v) = 2,
         js = "text" => Range(v) \subseteq Octet,
         Stored(type, js, v) # Refused
  PROVE  Kept(type, Stored(type, js, v))
<1>0. v \in Seq(Int \cup {Blank})
  BY DEF Values
<1>1. CASE type = "Integer"
  <2>1. Stored(type, js, v) = v /\ js = "number" /\ v[1] \in MIN_INT32..MAX_INT32
    <3>1. Stored(type, js, v) = SetInteger(js, v)
      BY <1>1, StoredOf
    <3>2. QED
      BY <3>1, Zenon DEF SetInteger, Checked
  <2>2. QED
    BY <1>1, <2>1, HoldsOf DEF Kept
<1>2. CASE type \in Texts
  <2>1. Stored(type, js, v) = v /\ js = "text"
    <3>1. Stored(type, js, v) = SetText(js, v)
      BY <1>2, StoredOf
    <3>2. QED
      BY <3>1, Zenon DEF SetText, Checked
  <2>2. QED
    BY <1>2, <2>1, HoldsOf DEF Kept
<1>3. CASE type = "ObjectIdentifier"
  <2>1. Stored(type, js, v) = canonicalizeOID(v)
    BY <1>3, StoredOf DEF SetOID
  <2>2. QED
    BY <1>3, <2>1, CanonTyped, KeptOID
<1>4. CASE type = "IpAddress"
  <2>1. Stored(type, js, v) = v /\ Len(v) = 4 /\ \A i \in 1..4 : ComponentAllowed(v[i])
    <3>1. Stored(type, js, v) = SetIpAddress(js, v)
      BY <1>4, StoredOf
    <3>2. QED
      BY <3>1, Zenon DEF SetIpAddress, Checked
  <2>2. \A i \in 1..Len(v) : v[i] \in Octet \cup {Blank}
    BY <2>1 DEF ComponentAllowed
  <2>3. v \in Seq(Octet \cup {Blank})
    BY <1>0, <2>2
  <2>4. QED
    BY <1>4, <2>1, <2>3, KeptAddress
<1>5. CASE type \in Unsigned
  <2>1. Stored(type, js, v) = v /\ js = "number" /\ v[1] \in Number32
    <3>1. Stored(type, js, v) = SetUnsigned(js, v)
      BY <1>5, StoredOf
    <3>2. QED
      BY <3>1, Zenon DEF SetUnsigned, Checked, Number32
  <2>2. QED
    BY <1>5, <2>1, HoldsOf DEF Kept
<1>6. CASE type = "Counter64"
  <2>1. Stored(type, js, v) = SetCounter64(js, v)
    BY <1>6, StoredOf
  <2>2. CASE js = "number" /\ v[1] \in Number32
    <3>1. Stored(type, js, v) = << 0, v[1] >>
      BY <2>1, <2>2 DEF SetCounter64, Number32
    <3>2. 0 \in Number32
      BY Bounds DEF Number32
    <3>3. QED
      BY <1>6, <2>2, <3>1, <3>2, KeptPair
  <2>3. CASE ~ (js = "number" /\ v[1] \in Number32)
    <3>1. Stored(type, js, v) = v /\ js = "words" /\ Range(v) \subseteq Number32
      BY <2>1, <2>3 DEF SetCounter64, Number32
    <3>2. QED
      BY <1>6, <3>1, HoldsOf DEF Kept
  <2>4. QED
    BY <2>2, <2>3
<1>7. CASE type = "Null"
  <2>1. Stored(type, js, v) = << >> \/ Stored(type, js, v) = NullValue(Context + v[1])
    BY <1>7, StoredOf DEF SetNull
  <2>2. QED
    BY <1>7, <2>1, KeptNull
<1>8. QED
  BY <1>1, <1>2, <1>3, <1>4, <1>5, <1>6, <1>7, Kinds

(* What is read of a string is typed as well.                              *)
LEMMA ReadKept ==
  ASSUME NEW string, string.octets \in Seq(Octet)
  PROVE  /\ ReadUnsigned(string) # Refused =>
              \A type \in Unsigned : Kept(type, ReadUnsigned(string))
         /\ ReadCounter64(string) # Refused => Kept("Counter64", ReadCounter64(string))
         /\ Len(string.octets) \in 1..4 => Kept("Integer", << Signed(string.octets) >>)
<1> DEFINE o == string.octets
<1>0. /\ \A a, b : Checked(a, b) # Refused => Checked(a, b) = b
      /\ \A t \in Seq(Octet) : t \in Seq(Nat)
  <2>1. Octet \subseteq Nat
    BY Bounds
  <2>2. \A t \in Seq(Octet) : t \in Seq(Nat)
    BY <2>1, SeqMonotonic
  <2>3. QED
    BY <2>2 DEF Checked
<1>1. \A size : Trimmed(o, size) \in Seq(Octet)
  <2>1. ASSUME o # << >> PROVE Tail(o) \in Seq(Octet)
    BY <2>1
  <2>2. ASSUME NEW size PROVE Trimmed(o, size) \in Seq(Octet)
    <3>1. CASE o = << >>
      BY <3>1 DEF Trimmed
    <3>2. CASE o # << >>
      BY <2>1, <3>2 DEF Trimmed
    <3>3. QED
      BY <3>1, <3>2
  <2>3. QED
    BY <2>2
<1>2. \A t \in Seq(Octet) : ReadWord(t) \in Number32
  <2> SUFFICES ASSUME NEW t \in Seq(Octet) PROVE ReadWord(t) \in Number32
    OBVIOUS
  <2>1. t \in Seq(Nat) /\ Len(t) \in 0..Len(t)
    BY <1>0
  <2>2. ReadWord(t) \in 0..(Half - 1)
    BY <2>1, ReadWordChain
  <2>3. QED
    BY <2>2, Bounds
<1>3. ASSUME ReadUnsigned(string) # Refused, NEW type \in Unsigned
      PROVE  Kept(type, ReadUnsigned(string))
  <2>1. ReadUnsigned(string) = << ReadWord(Trimmed(o, 4)) >>
    BY <1>0, <1>3 DEF ReadUnsigned
  <2>2. ReadWord(Trimmed(o, 4)) \in Number32 /\ ReadWord(Trimmed(o, 4)) \in Int
    BY <1>1, <1>2, Bounds
  <2>3. QED
    BY <2>1, <2>2, KeptNumber
<1>4. ASSUME ReadCounter64(string) # Refused
      PROVE  Kept("Counter64", ReadCounter64(string))
  <2> DEFINE t == Trimmed(o, 8)  n == IF Len(t) > 4 THEN Len(t) - 4 ELSE 0
             a == SubSeq(t, 1, n)  b == SubSeq(t, n + 1, Len(t))
  <2>1. ReadCounter64(string) = << ReadWord(a), ReadWord(b) >>
    BY <1>0, <1>4 DEF ReadCounter64
  <2>2. t \in Seq(Octet) /\ Len(t) \in Nat
    BY <1>1
  <2> HIDE DEF t
  <2>3. n \in Nat /\ n <= Len(t)
    BY <2>2
  <2> HIDE DEF n
  <2>4. a \in Seq(Octet) /\ b \in Seq(Octet)
    BY <2>2, <2>3
  <2>5. ReadWord(a) \in Number32 /\ ReadWord(b) \in Number32
    BY <1>2, <2>4
  <2>6. QED
    BY <2>1, <2>5, KeptPair
<1>5. ASSUME Len(o) \in 1..4
      PROVE  Kept("Integer", << Signed(o) >>)
  <2> DEFINE m == Byte^Len(o)  w == ReadWord(o)  n == Signed(o)
  <2>1. /\ m \in Nat /\ m > 0 /\ m <= Half /\ w \in Nat /\ w < m
        /\ n = IF 2 * w >= m THEN w - m ELSE w
    BY <1>5, SignedForm
  <2> HIDE DEF m, w, n
  <2>2. n \in Int /\ -Half <= 2 * n /\ 2 * n < Half
    BY <2>1, WidthFacts
  <2>3. n \in MIN_INT32..MAX_INT32
    BY <2>2, WidthFacts DEF MIN_INT32, MAX_INT32
  <2>4. QED
    BY <2>2, <2>3, KeptNumber DEF n
<1>6. QED
  BY <1>3, <1>4, <1>5

LEMMA DecodedOf ==
  ASSUME NEW string
  PROVE  /\ Decoded("Integer", string) =
              IF Len(string.octets) \in 1..4 THEN << Signed(string.octets) >> ELSE Refused
         /\ \A type \in Texts : Decoded(type, string) = string.octets
         /\ Decoded("ObjectIdentifier", string) =
              IF Len(string.octets) > 0
              THEN canonicalizeOID(<< string.octets[1] \div 40, string.octets[1] % 40 >> \o Tail(string.octets))
              ELSE Refused
         /\ Decoded("IpAddress", string) =
              IF Len(string.octets) = 4 THEN string.octets ELSE Refused
         /\ \A type \in Unsigned : Decoded(type, string) = ReadUnsigned(string)
         /\ Decoded("Counter64", string) = ReadCounter64(string)
         /\ Decoded("Null", string) = ReadNull(string)
<1>0. /\ \A type \in Texts : type \notin {"Integer", "ObjectIdentifier", "IpAddress", "Counter64", "Null"} \cup Unsigned
      /\ \A type \in Unsigned : type \notin {"Integer", "ObjectIdentifier", "IpAddress", "Counter64", "Null"} \cup Texts
      /\ \A type \in {"Integer", "ObjectIdentifier", "IpAddress", "Counter64", "Null"} : type \notin Texts \cup Unsigned
  BY DEF Texts, Unsigned
<1>1. Decoded("Integer", string) =
              IF Len(string.octets) \in 1..4 THEN << Signed(string.octets) >> ELSE Refused
  BY <1>0, Zenon DEF Decoded
<1>2. \A type \in Texts : Decoded(type, string) = string.octets
  BY <1>0, Zenon DEF Decoded
<1>3. Decoded("ObjectIdentifier", string) =
              IF Len(string.octets) > 0
              THEN canonicalizeOID(<< string.octets[1] \div 40, string.octets[1] % 40 >> \o Tail(string.octets))
              ELSE Refused
  BY <1>0, Zenon DEF Decoded
<1>4. Decoded("IpAddress", string) =
              IF Len(string.octets) = 4 THEN string.octets ELSE Refused
  BY <1>0, Zenon DEF Decoded
<1>5. \A type \in Unsigned : Decoded(type, string) = ReadUnsigned(string)
  BY <1>0, Zenon DEF Decoded
<1>6. Decoded("Counter64", string) = ReadCounter64(string)
  BY <1>0, Zenon DEF Decoded
<1>7. Decoded("Null", string) = ReadNull(string)
  BY <1>0, Zenon DEF Decoded
<1>8. QED
  BY <1>1, <1>2, <1>3, <1>4, <1>5, <1>6, <1>7

(* A string that may be read as a type: octets, or the arcs of an          *)
(* identifier.                                                             *)
Readable(type, octets) ==
  octets \in Seq(Nat) /\ (type # "ObjectIdentifier" => octets \in Seq(Octet))

LEMMA DecodedKept ==
  ASSUME NEW type \in Constructors, NEW string, Readable(type, string.octets),
         Decoded(type, string) # Refused
  PROVE  Kept(type, Decoded(type, string))
<1> DEFINE o == string.octets
<1>1. CASE type = "Integer"
  <2>1. o \in Seq(Octet)
    BY <1>1 DEF Readable
  <2>2. Len(o) \in 1..4 /\ Decoded(type, string) = << Signed(o) >>
    BY <1>1, DecodedOf, Zenon
  <2>3. QED
    BY <1>1, <2>1, <2>2, ReadKept
<1>2. CASE type \in Texts
  <2>1. o \in Seq(Octet)
    BY <1>2 DEF Readable, Texts
  <2>2. QED
    BY <1>2, <2>1, DecodedOf, KeptText
<1>3. CASE type = "ObjectIdentifier"
  <2> DEFINE oid == << o[1] \div 40, o[1] % 40 >> \o Tail(o)
  <2>1. o \in Seq(Nat) /\ Len(o) > 0
    BY <1>3, DecodedOf, Zenon DEF Readable
  <2>2. oid \in Values
    <3>1. Tail(o) \in Seq(Nat) /\ o[1] \in Nat
      BY <2>1
    <3>2. << o[1] \div 40, o[1] % 40 >> \in Seq(Nat)
      BY <3>1
    <3>3. oid \in Seq(Nat)
      BY <3>1, <3>2, ConcatProperties
    <3> HIDE DEF oid
    <3>4. QED
      BY <3>3, SeqMonotonic DEF Values
  <2>3. Decoded(type, string) = canonicalizeOID(oid)
    BY <1>3, DecodedOf, Zenon
  <2> HIDE DEF oid
  <2>4. QED
    BY <1>3, <2>2, <2>3, CanonTyped, KeptOID
<1>4. CASE type = "IpAddress"
  <2>1. o \in Seq(Octet)
    BY <1>4 DEF Readable
  <2>2. Len(o) = 4 /\ Decoded(type, string) = o
    BY <1>4, DecodedOf, Zenon
  <2>3. o \in Seq(Octet \cup {Blank})
    BY <2>1, SeqMonotonic
  <2>4. QED
    BY <1>4, <2>2, <2>3, KeptAddress
<1>5. CASE type \in Unsigned
  <2>1. o \in Seq(Octet)
    BY <1>5 DEF Readable, Unsigned
  <2>2. QED
    BY <1>5, <2>1, DecodedOf, ReadKept
<1>6. CASE type = "Counter64"
  <2>1. o \in Seq(Octet)
    BY <1>6 DEF Readable
  <2>2. QED
    BY <1>6, <2>1, DecodedOf, ReadKept
<1>7. CASE type = "Null"
  <2>1. Decoded(type, string) = ReadNull(string)
    BY <1>7, DecodedOf
  <2>2. Decoded(type, string) = NullValue(string.tag)
    BY <2>1, Zenon DEF ReadNull, Checked
  <2>3. QED
    BY <1>7, <2>2, KeptNull
<1>8. QED
  BY <1>1, <1>2, <1>3, <1>4, <1>5, <1>6, <1>7, Kinds

(* What an object that can be encoded is encoded as.                       *)
LEMMA ObjectOf ==
  ASSUME NEW d, DataObject(d), d # None
  PROVE  /\ d = [type |-> d.type, tag |-> d.tag, value |-> d.value]
         /\ d.type \in Constructors /\ d.tag \in 0..255
         /\ d.value # None => Kept(d.type, d.value)
         /\ d.value # Refused
<1>1. d \in [type : Constructors, tag : 0..255, value : Values \cup {None}]
  BY DEF DataObject, DataObjects
<1>2. d.value \in Values \cup {None}
  BY <1>1
<1>3. d.value # Refused
  BY <1>2, ValuesAssumption
<1>4. d.value # None => Kept(d.type, d.value)
  BY <1>2 DEF DataObject, Kept
<1>5. QED
  BY <1>1, <1>3, <1>4

LEMMA EffectiveKept ==
  ASSUME NEW d, DataObject(d), d # None, Effective(d) # Refused
  PROVE  /\ Kept(d.type, Effective(d))
         /\ d.value = None => d.type \in Unsigned \cup {"Null"}
<1>1. CASE d.value # None
  BY <1>1, ObjectOf DEF Effective
<1>2. CASE d.value = None /\ d.type \in Unsigned
  <2>1. Effective(d) = << 0 >>
    BY <1>2 DEF Effective
  <2>2. 0 \in Number32
    <3>1. 0 \in 0..(Half - 1)
      BY WidthFacts
    <3>2. QED
      BY <3>1, Bounds
  <2>3. QED
    BY <1>2, <2>1, <2>2, KeptNumber
<1>3. CASE d.value = None /\ d.type \notin Unsigned
  <2>1. d.type = "Null" /\ Effective(d) = << noSuchObject >>
    BY <1>3 DEF Effective
  <2>2. 128 \in ErrorTags /\ 128 - Context = noSuchObject
    BY Kinds DEF Context, noSuchObject
  <2>3. QED
    BY <2>1, <2>2, KeptNull
<1>4. QED
  BY <1>1, <1>2, <1>3

LEMMA ContentsReadable ==
  ASSUME NEW d, DataObject(d), d # None, Encodes(d)
  PROVE  Readable(d.type, Contents(d.type, Effective(d)))
<1> DEFINE v == Effective(d)  c == Contents(d.type, v)
<1>1. Kept(d.type, v) /\ d.type \in Constructors
  BY EffectiveKept, ObjectOf DEF Encodes
<1> HIDE DEF v
<1>2. v \in Seq(Int \cup {Blank})
  BY <1>1 DEF Kept, Values
<1>3. SUFFICES c \in Seq(Octet) \/ (d.type = "ObjectIdentifier" /\ c \in Seq(Nat))
  <2>1. Octet \subseteq Nat
    BY Bounds
  <2>2. QED
    BY <1>3, <2>1, SeqMonotonic DEF Readable, v
<1>4. CASE d.type = "Integer"
  <2>1. v[1] \in MIN_INT32..MAX_INT32
    BY <1>1, <1>4, HoldsOf DEF Kept
  <2>2. QED
    BY <1>4, <2>1, IntegerRoundTrip, ContentsOf
<1>5. CASE d.type \in Texts
  <2>1. Range(v) \subseteq Octet /\ c = v
    BY <1>1, <1>5, HoldsOf, ContentsOf DEF Kept
  <2>2. \A i \in 1..Len(v) : v[i] \in Octet
    BY <1>2, <2>1 DEF Range
  <2>3. QED
    BY <1>2, <2>1, <2>2
<1>6. CASE d.type = "ObjectIdentifier"
  <2>1. Range(v) \subseteq 0..MAX_INT32 /\ Len(v) >= 2
    BY <1>1, <1>6, HoldsOf DEF Kept, Encodes, v
  <2>2. \A i \in 1..Len(v) : v[i] \in Nat
    BY <1>2, <2>1, Bounds DEF Range
  <2>3. v \in Seq(Nat) /\ v[1] \in Nat /\ v[2] \in Nat
    BY <1>2, <2>1, <2>2
  <2>4. << 40 * v[1] + v[2] >> \in Seq(Nat) /\ SubSeq(v, 3, Len(v)) \in Seq(Nat)
    BY <2>1, <2>3
  <2>5. c = << 40 * v[1] + v[2] >> \o SubSeq(v, 3, Len(v))
    BY <1>6, ContentsOf
  <2> HIDE DEF c
  <2>6. QED
    BY <1>6, <2>4, <2>5, ConcatProperties
<1>7. CASE d.type = "IpAddress"
  <2>1. Range(v) \subseteq Octet \cup {Blank} /\ Len(v) = 4
    BY <1>1, <1>7, HoldsOf DEF Kept
  <2>2. \A i \in 1..4 : Number(v[i]) \in Octet
    BY <1>2, <2>1, Bounds DEF Range, Number
  <2>3. c = [i \in 1..4 |-> Number(v[i])]
    BY <1>7, ContentsOf
  <2>4. QED
    BY <2>2, <2>3
<1>8. CASE d.type \in Unsigned
  <2>1. v[1] \in 0..(Half - 1)
    BY <1>1, <1>8, HoldsOf, Bounds DEF Kept
  <2>2. QED
    BY <1>8, <2>1, UnsignedRoundTrip, ContentsOf
<1>9. CASE d.type = "Counter64"
  <2>1. Len(v) = 2 /\ Range(v) \subseteq 0..(Half - 1)
    BY <1>1, <1>9, HoldsOf, Bounds DEF Kept
  <2>2. v[1] \in 0..(Half - 1) /\ v[2] \in 0..(Half - 1)
    BY <1>2, <2>1 DEF Range
  <2>3. toOctets(uint64(v[1], v[2])) \in Seq(Octet)
    BY <2>2, Counter64RoundTrip
  <2>4. c = toOctets(uint64(v[1], v[2]))
    BY <1>9, ContentsOf, Zenon
  <2>5. QED
    BY <2>3, <2>4
<1>10. CASE d.type = "Null"
  <2>1. c = << >>
    BY <1>10, ContentsOf, Zenon
  <2>2. QED
    BY <2>1
<1>11. QED
  BY <1>1, <1>4, <1>5, <1>6, <1>7, <1>8, <1>9, <1>10, Kinds

----------------------------------------------------------------------------
(* Every object of the program holds what its type holds, and every tag    *)
(* that is registered leads to a constructor.                              *)
TablesOK ==
  /\ StockTags \subseteq DOMAIN tagType /\ DOMAIN tagType \subseteq 0..255
  /\ Constructors \subseteq DOMAIN typeObj
  /\ \A n \in DOMAIN typeObj : typeObj[n] \in Constructors
  /\ TagsMakeObjects

DataInv == TablesOK /\ DataObject(datum)

LEMMA Making ==
  ASSUME NEW type \in Constructors, NEW tag \in 0..255, NEW value,
         value # None => Kept(type, value)
  PROVE  DataObject([type |-> type, tag |-> tag, value |-> value])
<1> DEFINE d == [type |-> type, tag |-> tag, value |-> value]
<1>1. value \in Values \cup {None}
  BY DEF Kept
<1>2. d \in [type : Constructors, tag : 0..255, value : Values \cup {None}]
  BY <1>1
<1>3. d.value # None => Holds(d.type, d.value)
  BY DEF Kept
<1>4. QED
  BY <1>2, <1>3 DEF DataObject, DataObjects

LEMMA ParseKept ==
  ASSUME TablesOK, NEW string, Parse(string) # Refused,
         string.tag \in DOMAIN tagType => Readable(typeObj[tagType[string.tag]], string.octets)
  PROVE  DataObject(Parse(string))
<1> DEFINE type == typeObj[tagType[string.tag]]  value == Decoded(type, string)
<1>1. /\ string.tag \in DOMAIN tagType /\ value # Refused
      /\ Parse(string) = [type |-> type, tag |-> string.tag, value |-> value]
  BY Zenon DEF Parse
<1>2. type \in Constructors /\ string.tag \in 0..255
  BY <1>1 DEF TablesOK, TagsMakeObjects
<1>3. Kept(type, value)
  BY <1>1, <1>2, DecodedKept
<1> HIDE DEF type, value
<1>4. QED
  BY <1>1, <1>2, <1>3, Making

(* How clone gives a value to its constructor.                             *)
CloneJs(d) == IF d.type = "Null" /\ d.value = << >> THEN "null" ELSE JsOf(d.type)

LEMMA CloneOf ==
  ASSUME NEW d
  PROVE  /\ d.value = None /\ None # Refused =>
              Clone(d) = [type |-> d.type, tag |-> d.tag, value |-> None]
         /\ d.value # None /\ Stored(d.type, CloneJs(d), d.value) = Refused => Clone(d) = Refused
         /\ d.value # None /\ Stored(d.type, CloneJs(d), d.value) # Refused =>
              Clone(d) = [type |-> d.type, tag |-> d.tag,
                          value |-> Stored(d.type, CloneJs(d), d.value)]
BY Zenon DEF Clone, CloneJs

LEMMA CloneJsOf ==
  ASSUME NEW d
  PROVE  /\ d.type \in Unsigned \cup {"Integer"} => CloneJs(d) = "number"
         /\ d.type \in Texts => CloneJs(d) = "text"
         /\ d.type \in {"ObjectIdentifier", "IpAddress"} => CloneJs(d) = "dotted"
         /\ d.type = "Counter64" => CloneJs(d) = "uint64_t"
         /\ d.type = "Null" => CloneJs(d) = IF d.value = << >> THEN "null" ELSE "number"
<1>1. /\ "Null" \notin Texts \cup Unsigned /\ \A type \in Texts : type \notin Unsigned \cup {"Integer"}
      /\ "ObjectIdentifier" \notin Texts \cup Unsigned /\ "IpAddress" \notin Texts \cup Unsigned
      /\ "Counter64" \notin Texts \cup Unsigned
  BY DEF Texts, Unsigned
<1>2. d.type \in Unsigned \cup {"Integer"} => CloneJs(d) = "number"
  BY <1>1 DEF CloneJs, JsOf
<1>3. d.type \in Texts => CloneJs(d) = "text"
  BY <1>1 DEF CloneJs, JsOf
<1>4. d.type \in {"ObjectIdentifier", "IpAddress"} => CloneJs(d) = "dotted"
  BY <1>1 DEF CloneJs, JsOf
<1>5. d.type = "Counter64" => CloneJs(d) = "uint64_t"
  BY <1>1 DEF CloneJs, JsOf
<1>6. d.type = "Null" => CloneJs(d) = IF d.value = << >> THEN "null" ELSE "number"
  BY <1>1 DEF CloneJs, JsOf
<1>7. QED
  BY <1>2, <1>3, <1>4, <1>5, <1>6

LEMMA Elements ==
  ASSUME NEW R, NEW S, NEW s \in Seq(R)
  PROVE  s \in Seq(S) <=> \A i \in 1..Len(s) : s[i] \in S
OBVIOUS

(* canonicalizeOID changes no sequence of numbers: it takes it or not.     *)
LEMMA CanonPlain ==
  ASSUME NEW oid \in Seq(Nat)
  PROVE  /\ canonicalizeOID(oid) # Refused => Plain(oid) /\ canonicalizeOID(oid) = oid
         /\ oid \in Seq(0..MAX_INT32) /\ Plain(oid) => canonicalizeOID(oid) = oid
<1>1. Len(oid) \in Nat /\ DOMAIN oid = 1..Len(oid) /\ \A i \in 1..Len(oid) : oid[i] \in Nat /\ oid[i] # Blank
  BY ValuesAssumption
<1>2. ASSUME canonicalizeOID(oid) # Refused PROVE Plain(oid) /\ canonicalizeOID(oid) = oid
  <2>1. /\ Len(oid) >= 3 /\ \A i \in 1..Len(oid) : ArcAllowed(oid, i)
        /\ canonicalizeOID(oid) = FoldLeft(PushArc, << >>, oid)
    BY <1>1, <1>2, Zenon DEF canonicalizeOID
  <2>2. \A i \in 1..Len(oid) : oid[i] \in 0..MAX_INT32
    BY <1>1, <2>1 DEF ArcAllowed
  <2>3. oid[1] <= 2 /\ oid[2] <= 39
    BY <1>1, <2>1 DEF ArcAllowed
  <2>4. oid \in Seq(0..MAX_INT32)
    BY <2>2, Elements, Zenon
  <2>5. FoldLeft(PushArc, << >>, oid) = oid
    BY <2>4, CanonKeeps
  <2>6. QED
    BY <2>1, <2>3, <2>5 DEF Plain
<1>3. ASSUME oid \in Seq(0..MAX_INT32), Plain(oid) PROVE canonicalizeOID(oid) = oid
  <2>1. \A i \in 1..Len(oid) : oid[i] \in 0..MAX_INT32
    BY <1>3, Elements, Zenon
  <2>2. \A i \in DOMAIN oid : ArcAllowed(oid, i)
    BY <1>1, <1>3, <2>1 DEF ArcAllowed, Plain
  <2>3. canonicalizeOID(oid) = FoldLeft(PushArc, << >>, oid)
    BY <1>3, <2>2, Zenon DEF canonicalizeOID, Plain
  <2>4. QED
    BY <1>3, <2>3, CanonKeeps
<1>4. QED
  BY <1>2, <1>3

LEMMA NullOf ==
  ASSUME NEW tag
  PROVE  /\ tag \in ErrorTags => NullValue(tag) = << tag - Context >>
         /\ tag \notin ErrorTags => NullValue(tag) = << >>
BY DEF NullValue

(* What the setter makes of a value that is already held.                  *)
LEMMA HeldStored ==
  ASSUME NEW d, DataObject(d), d # None, d.value # None
  PROVE  Stored(d.type, CloneJs(d), d.value) = IF Clonable(d) THEN d.value ELSE Refused
<1> DEFINE v == d.value  js == CloneJs(d)
<1>1. d.type \in Constructors /\ Kept(d.type, v) /\ v # Refused
  BY ObjectOf
<1>2. v \in Seq(Int \cup {Blank})
  BY <1>1 DEF Kept, Values
<1>3. ASSUME d.type \notin {"Counter64", "ObjectIdentifier"}
      PROVE  Clonable(d)
  BY <1>3 DEF Clonable
<1>4. CASE d.type = "Integer"
  <2>1. js = "number" /\ v[1] \in MIN_INT32..MAX_INT32
    BY <1>1, <1>4, CloneJsOf, HoldsOf DEF Kept
  <2>2. Stored(d.type, js, v) = SetInteger(js, v)
    BY <1>4, StoredOf
  <2>3. SetInteger(js, v) = v
    BY <2>1, Zenon DEF SetInteger, Checked
  <2>4. QED
    BY <1>3, <1>4, <2>2, <2>3
<1>5. CASE d.type \in Texts
  <2>1. js = "text" /\ d.type \notin {"Counter64", "ObjectIdentifier"}
    BY <1>5, CloneJsOf DEF Texts
  <2>2. Stored(d.type, js, v) = SetText(js, v)
    BY <1>5, StoredOf
  <2>3. SetText(js, v) = v
    BY <2>1, Zenon DEF SetText, Checked
  <2>4. QED
    BY <1>3, <2>1, <2>2, <2>3
<1>6. CASE d.type = "ObjectIdentifier"
  <2>1. js = "dotted" /\ Range(v) \subseteq 0..MAX_INT32
    BY <1>1, <1>6, CloneJsOf, HoldsOf DEF Kept
  <2>2. Stored(d.type, js, v) = canonicalizeOID(v)
    BY <1>6, <2>1, StoredOf DEF SetOID
  <2>3. \A i \in 1..Len(v) : v[i] \in 0..MAX_INT32 /\ v[i] \in Nat
    BY <1>2, <2>1, Bounds DEF Range
  <2>4. v \in Seq(0..MAX_INT32) /\ v \in Seq(Nat)
    BY <1>2, <2>3, Elements, Zenon
  <2>5. canonicalizeOID(v) = IF Plain(v) THEN v ELSE Refused
    BY <2>4, CanonPlain, Zenon
  <2>6. Clonable(d) <=> Plain(v)
    BY <1>6 DEF Clonable
  <2>7. QED
    BY <2>2, <2>5, <2>6
<1>7. CASE d.type = "IpAddress"
  <2>1. js = "dotted" /\ Len(v) = 4 /\ Range(v) \subseteq Octet \cup {Blank}
    BY <1>1, <1>7, CloneJsOf, HoldsOf DEF Kept
  <2>2. Stored(d.type, js, v) = SetIpAddress(js, v)
    BY <1>7, StoredOf
  <2>3. \A i \in 1..4 : ComponentAllowed(v[i])
    BY <1>2, <2>1 DEF Range, ComponentAllowed
  <2>4. SetIpAddress(js, v) = v
    BY <2>1, <2>3, Zenon DEF SetIpAddress, Checked
  <2>5. QED
    BY <1>3, <1>7, <2>2, <2>4
<1>8. CASE d.type \in Unsigned
  <2>1. js = "number" /\ v[1] \in Number32 /\ d.type \notin {"Counter64", "ObjectIdentifier"}
    BY <1>1, <1>8, CloneJsOf, HoldsOf, Kinds DEF Kept
  <2>2. Stored(d.type, js, v) = SetUnsigned(js, v)
    BY <1>8, StoredOf
  <2>3. SetUnsigned(js, v) = v
    BY <2>1, Zenon DEF SetUnsigned, Checked, Number32
  <2>4. QED
    BY <1>3, <2>1, <2>2, <2>3
<1>9. CASE d.type = "Counter64"
  <2>1. js = "uint64_t" /\ ~ Clonable(d)
    BY <1>9, CloneJsOf DEF Clonable
  <2>2. Stored(d.type, js, v) = SetCounter64(js, v)
    BY <1>9, StoredOf
  <2>3. SetCounter64(js, v) = Refused
    BY <2>1 DEF SetCounter64
  <2>4. QED
    BY <2>1, <2>2, <2>3
<1>10. CASE d.type = "Null"
  <2>1. Stored(d.type, js, v) = SetNull(js, v)
    BY <1>10, StoredOf
  <2>2. CASE v = << >>
    <3>1. js = "null"
      BY <1>10, <2>2, CloneJsOf
    <3>2. SetNull(js, v) = v
      BY <2>2, <3>1 DEF SetNull
    <3>3. QED
      BY <1>3, <1>10, <2>1, <3>2
  <2>3. CASE v # << >>
    <3>1. js = "number"
      BY <1>10, <2>3, CloneJsOf
    <3>2. PICK e \in noSuchObject..endOfMibView : v = << e >>
      BY <1>1, <1>10, <2>3, HoldsOf DEF Kept
    <3>3. e \in 0..127
      BY Kinds DEF Context, noSuchObject, endOfMibView
    <3>4. v[1] = e
      BY <3>2
    <3>5. SetNull(js, v) = NullValue(Context + e)
      BY <3>1, <3>3, <3>4 DEF SetNull
    <3>6. NullValue(Context + e) = v
      <4> DEFINE tag == Context + e
      <4>1. tag \in ErrorTags /\ tag - Context = e
        BY Kinds DEF Context, noSuchObject, endOfMibView
      <4> HIDE DEF tag
      <4>2. NullValue(tag) = << tag - Context >>
        BY <4>1, NullOf
      <4>3. QED
        BY <3>2, <4>1, <4>2 DEF tag
    <3>7. QED
      BY <1>3, <1>10, <2>1, <3>5, <3>6
  <2>4. QED
    BY <2>2, <2>3
<1>11. QED
  BY <1>1, <1>4, <1>5, <1>6, <1>7, <1>8, <1>9, <1>10, Kinds

LEMMA CloneCopies ==
  ASSUME NEW d, DataObject(d), d # None
  PROVE  Clone(d) = IF Clonable(d) THEN d ELSE Refused
<1>1. d = [type |-> d.type, tag |-> d.tag, value |-> d.value] /\ d.value # Refused
  BY ObjectOf
<1>2. CASE d.value = None
  <2>1. Clonable(d)
    BY <1>2 DEF Clonable
  <2>2. Clone(d) = [type |-> d.type, tag |-> d.tag, value |-> None]
    BY <1>2, CloneOf, ValuesAssumption
  <2>3. QED
    BY <1>1, <1>2, <2>1, <2>2
<1>3. CASE d.value # None /\ Clonable(d)
  <2>1. Stored(d.type, CloneJs(d), d.value) = d.value
    BY <1>3, HeldStored
  <2>2. Clone(d) = [type |-> d.type, tag |-> d.tag, value |-> d.value]
    BY <1>1, <1>3, <2>1, CloneOf, Zenon
  <2>3. QED
    BY <1>1, <1>3, <2>2
<1>4. CASE d.value # None /\ ~ Clonable(d)
  <2>1. Stored(d.type, CloneJs(d), d.value) = Refused
    BY <1>4, HeldStored
  <2>2. Clone(d) = Refused
    BY <1>4, <2>1, CloneOf, Zenon
  <2>3. QED
    BY <1>4, <2>2
<1>5. QED
  BY <1>2, <1>3, <1>4

----------------------------------------------------------------------------
(* Each step keeps the tables and the object.                              *)
LEMMA DataStarts ==
  ASSUME DataInit
  PROVE  DataInv
<1>1. DOMAIN tagType = StockTags /\ StockTags \subseteq 0..255
  BY Kinds DEF DataInit, StockTables, StockTags
<1>2. DOMAIN typeObj = Constructors /\ \A n \in DOMAIN typeObj : typeObj[n] \in Constructors
  BY DEF DataInit, StockTables
<1>3. ASSUME NEW t \in StockTags PROVE tagType[t] \in Constructors
  <2>1. CASE t \in ErrorTags
    BY <1>3, <2>1, Kinds DEF DataInit, StockTables
  <2>2. CASE t \notin ErrorTags
    <3>1. tagType[t] = CHOOSE c \in Constructors : StockTag[c] = t
      BY <1>3, <2>2, Zenon DEF DataInit, StockTables
    <3>2. \E c \in Constructors : StockTag[c] = t
      BY <1>3, <2>2 DEF StockTags
    <3>3. QED
      BY <3>1, <3>2
  <2>3. QED
    BY <2>1, <2>2
<1>4. DataObject(datum)
  BY DEF DataInit, DataObject
<1>5. QED
  BY <1>1, <1>2, <1>3, <1>4 DEF DataInv, TablesOK, TagsMakeObjects

(* The tables grow, and no tag is given to a type that nothing makes.      *)
LEMMA RegisterKeeps ==
  ASSUME TablesOK, NEW arg \in Registrations, RegisterType(arg)
  PROVE  TablesOK'
<1>1. arg \in [type : STRING, tag : {None} \cup 0..255, f : {None} \cup Constructors]
  BY InputsAssumption
<1>2. arg.tag \in {None} \cup 0..255 /\ arg.f \in {None} \cup Constructors
  BY <1>1
<1>3. /\ DOMAIN tagType' = DOMAIN tagType \cup IF arg.tag = None THEN {} ELSE {arg.tag}
      /\ \A t \in DOMAIN tagType' : tagType'[t] = IF arg.tag # None /\ t = arg.tag
                                                  THEN arg.type ELSE tagType[t]
  BY DEF RegisterType, Put
<1>4. /\ DOMAIN typeObj' = DOMAIN typeObj \cup IF arg.f = None THEN {} ELSE {arg.type}
      /\ \A n \in DOMAIN typeObj' : typeObj'[n] = IF arg.f # None /\ n = arg.type
                                                  THEN arg.f ELSE typeObj[n]
  BY DEF RegisterType, Put
<1>5. arg.tag # None => arg.type \in DOMAIN typeObj'
  BY <1>4 DEF RegisterType, Registrable
<1>6. DOMAIN tagType' \subseteq 0..255 /\ StockTags \subseteq DOMAIN tagType'
  BY <1>2, <1>3 DEF TablesOK
<1>7. Constructors \subseteq DOMAIN typeObj' /\ \A n \in DOMAIN typeObj' : typeObj'[n] \in Constructors
  BY <1>2, <1>4 DEF TablesOK
<1>8. \A t \in DOMAIN tagType' : tagType'[t] \in DOMAIN typeObj'
  <2> SUFFICES ASSUME NEW t \in DOMAIN tagType'
               PROVE  tagType'[t] \in DOMAIN typeObj'
    OBVIOUS
  <2>1. CASE arg.tag # None /\ t = arg.tag
    BY <1>3, <1>5, <2>1
  <2>2. CASE ~ (arg.tag # None /\ t = arg.tag)
    <3>1. tagType'[t] = tagType[t] /\ t \in DOMAIN tagType
      BY <1>3, <2>2
    <3>2. QED
      BY <1>4, <3>1 DEF TablesOK, TagsMakeObjects
  <2>3. QED
    BY <2>1, <2>2
<1>9. QED
  BY <1>6, <1>7, <1>8 DEF TablesOK, TagsMakeObjects

LEMMA AssignKeeps ==
  ASSUME DataInv, NEW a \in Assignments, datum # None, datum.type = a.type, Assign(a.js, a.v)
  PROVE  DataObject(datum)'
<1> DEFINE value == Stored(datum.type, a.js, a.v)  tag == TagAfter(datum.type, datum.tag, a.js, a.v)
<1>1. /\ datum = [type |-> datum.type, tag |-> datum.tag, value |-> datum.value]
      /\ datum.type \in Constructors /\ datum.tag \in 0..255
  BY ObjectOf DEF DataInv
<1>2. /\ a.v \in Values
      /\ a.js = "number" => Len(a.v) = 1 /\ a.v[1] \in Int
      /\ a.js = "words" => Len(a.v) = 2
      /\ a.js = "text" => Range(a.v) \subseteq Octet
  BY InputsAssumption
<1>3. value # Refused
  BY DEF Assign
<1>4. Kept(datum.type, value)
  BY <1>1, <1>2, <1>3, StoredKept
<1>5. tag \in 0..255
  <2>1. CASE datum.type = "Null" /\ a.js = "number"
    <3>1. SetNull(a.js, a.v) # Refused
      BY <1>3, <2>1, StoredOf, Zenon
    <3>2. a.v[1] \in 0..127
      BY <2>1, <3>1 DEF SetNull
    <3>3. tag = Context + a.v[1]
      BY <2>1, Zenon DEF TagAfter
    <3>4. QED
      BY <3>2, <3>3 DEF Context
  <2>2. CASE ~ (datum.type = "Null" /\ a.js = "number")
    BY <1>1, <2>2, Zenon DEF TagAfter
  <2>3. QED
    BY <2>1, <2>2
<1>6. datum' = [type |-> datum.type, tag |-> tag, value |-> value]
  BY <1>1 DEF Assign
<1> HIDE DEF value, tag
<1>7. DataObject([type |-> datum.type, tag |-> tag, value |-> value])
  BY <1>1, <1>4, <1>5, Making
<1>8. QED
  BY <1>6, <1>7 DEF DataObject

LEMMA Strung ==
  ASSUME NEW string \in Strings
  PROVE  /\ string.tag \in 0..255 /\ string.octets \in Seq(Octet)
         /\ \A type : Readable(type, string.octets)
<1>1. string.tag \in 0..255 /\ string.octets \in Seq(Octet)
  BY InputsAssumption
<1>2. Octet \subseteq Nat
  BY Bounds
<1>3. string.octets \in Seq(Nat)
  BY <1>1, <1>2, SeqMonotonic
<1>4. QED
  BY <1>1, <1>3 DEF Readable

LEMMA RereadKeeps ==
  ASSUME DataInv, NEW string \in Strings, Reread(string)
  PROVE  DataObject(datum)'
<1> DEFINE value == Decoded(datum.type, string)
           v == IF value = Refused THEN datum.value ELSE value
<1>1. /\ datum = [type |-> datum.type, tag |-> datum.tag, value |-> datum.value]
      /\ datum.type \in Constructors
      /\ datum.value # None => Kept(datum.type, datum.value)
  BY ObjectOf DEF DataInv, Reread
<1>2. value # Refused => Kept(datum.type, value)
  BY <1>1, Strung, DecodedKept
<1>3. datum' = [type |-> datum.type, tag |-> string.tag, value |-> v]
  BY <1>1 DEF Reread
<1>4. v # None => Kept(datum.type, v)
  BY <1>1, <1>2
<1> HIDE DEF v
<1>5. DataObject([type |-> datum.type, tag |-> string.tag, value |-> v])
  BY <1>1, <1>4, Strung, Making
<1>6. QED
  BY <1>3, <1>5 DEF DataObject

LEMMA ResendKept ==
  ASSUME TablesOK, NEW d, DataObject(d), d # None, Encodes(d), Parse(Encode(d)) # Refused,
         d.type = "ObjectIdentifier" => MeansType(d.tag, d.type)
  PROVE  DataObject(Parse(Encode(d)))
<1> DEFINE c == Contents(d.type, Effective(d))
<1>1. Encode(d) = [tag |-> WrittenTag(d), long |-> FALSE, octets |-> c]
  BY DEF Encode
<1>2. Encode(d).tag = WrittenTag(d) /\ Encode(d).octets = c
  BY <1>1
<1>3. Readable(d.type, c)
  BY ContentsReadable
<1>4. CASE d.type = "ObjectIdentifier"
  <2>1. WrittenTag(d) = d.tag
    BY <1>4 DEF WrittenTag
  <2>2. typeObj[tagType[WrittenTag(d)]] = d.type
    BY <1>4, <2>1 DEF MeansType
  <2>3. QED
    BY <1>2, <1>3, <2>2, ParseKept
<1>5. CASE d.type # "ObjectIdentifier"
  <2>1. \A type : Readable(type, c)
    BY <1>3, <1>5 DEF Readable
  <2>2. QED
    BY <1>2, <2>1, ParseKept
<1>6. QED
  BY <1>4, <1>5

LEMMA DataSteps ==
  ASSUME DataInv, [DataNext]_dvars
  PROVE  DataInv'
<1>1. ASSUME NEW arg \in Registrations, RegisterType(arg) PROVE DataInv'
  <2>1. TablesOK'
    BY <1>1, RegisterKeeps DEF DataInv
  <2>2. datum' = datum
    BY <1>1 DEF RegisterType
  <2>3. QED
    BY <2>1, <2>2 DEF DataInv, DataObject
<1>2. ASSUME UNCHANGED tables, DataObject(datum)' PROVE DataInv'
  BY <1>2 DEF DataInv, TablesOK, TagsMakeObjects, tables
<1>3. ASSUME NEW name \in DOMAIN typeObj, CreateEmpty(name) PROVE DataInv'
  <2> DEFINE type == typeObj[name]
  <2>1. type \in Constructors
    BY DEF DataInv, TablesOK
  <2> HIDE DEF type
  <2>2. StockTag[type] \in 0..255
    BY <2>1, Kinds
  <2>3. DataObject([type |-> type, tag |-> StockTag[type], value |-> None])
    BY <2>1, <2>2, Making
  <2>4. datum' = [type |-> type, tag |-> StockTag[type], value |-> None]
    BY <1>3 DEF CreateEmpty, type
  <2>5. QED
    BY <1>2, <1>3, <2>3, <2>4 DEF CreateEmpty, DataObject
<1>4. ASSUME NEW a \in Assignments, datum # None /\ datum.type = a.type /\ Assign(a.js, a.v)
      PROVE  DataInv'
  BY <1>2, <1>4, AssignKeeps DEF Assign
<1>5. ASSUME NEW string \in Strings, CreateParsed(string) PROVE DataInv'
  <2>1. DataObject(Parse(string))
    BY <1>5, Strung, ParseKept DEF CreateParsed, DataInv
  <2>2. QED
    BY <1>2, <1>5, <2>1 DEF CreateParsed, DataObject
<1>6. ASSUME NEW string \in Strings, Reread(string) PROVE DataInv'
  BY <1>2, <1>6, RereadKeeps DEF Reread
<1>7. ASSUME CloneIt PROVE DataInv'
  <2>1. datum' = datum
    BY <1>7, CloneCopies DEF CloneIt, DataInv
  <2>2. QED
    BY <1>2, <1>7, <2>1 DEF CloneIt, DataInv, DataObject
<1>8. ASSUME Resend PROVE DataInv'
  <2>1. DataObject(Parse(Encode(datum)))
    BY <1>8, ResendKept DEF Resend, DataInv
  <2>2. QED
    BY <1>2, <1>8, <2>1 DEF Resend, DataObject
<1>9. ASSUME UNCHANGED dvars PROVE DataInv'
  BY <1>2, <1>9 DEF dvars, DataInv, DataObject
<1>10. QED
  BY <1>1, <1>3, <1>4, <1>5, <1>6, <1>7, <1>8, <1>9 DEF DataNext

(***************************************************************************)
(* What the setters, the readers, clone and registerType keep, one after   *)
(* another and in any order.                                               *)
(***************************************************************************)
THEOREM DataInvariant == DataSpec => []DataInv
<1>1. DataInit => DataInv
  BY DataStarts
<1>2. DataInv /\ [DataNext]_dvars => DataInv'
  BY DataSteps
<1>3. QED
  BY <1>1, <1>2, PTL DEF DataSpec

(* Every data object is typed: createData, the value setters and clone     *)
(* leave in it only what its type holds, and its tag is an octet.          *)
THEOREM DataTyped == DataSpec => []DataTypeOK
<1>1. DataInv => DataTypeOK
  <2> SUFFICES ASSUME DataInv PROVE DataTypeOK
    OBVIOUS
  <2>1. Range(typeObj) \subseteq Constructors
    BY DEF DataInv, TablesOK, Range
  <2>2. QED
    BY <2>1 DEF DataInv, TablesOK, DataTypeOK
<1>2. QED
  BY <1>1, DataInvariant, PTL

(* However types are registered, the type of a registered tag can be       *)
(* constructed: createData does not fail on a tag it knows.                *)
THEOREM TagsAlwaysMakeObjects == DataSpec => []TagsMakeObjects
<1>1. DataInv => TagsMakeObjects
  BY DEF DataInv, TablesOK
<1>2. QED
  BY <1>1, DataInvariant, PTL

(* clone makes an equal object of all but a Counter64 and an identifier    *)
(* that only passed because of a dot in front, and refuses these.          *)
THEOREM ClonesEqual == DataSpec => []CloneIsCopy
<1>1. DataInv => CloneIsCopy
  BY CloneCopies DEF DataInv, CloneIsCopy
<1>2. QED
  BY <1>1, DataInvariant, PTL

(* The octets of an unsigned number, of four bytes or of eight, are the    *)
(* fewest that hold it.                                                    *)
THEOREM WritesShortest == DataSpec => []ShortestForm
<1>1. ASSUME DataObject(datum), datum # None, Encodes(datum),
             datum.type \in Unsigned \cup {"Counter64"}
      PROVE  LET octets == Encode(datum).octets
             IN /\ Len(octets) \in 1..(IF datum.type = "Counter64" THEN 8 ELSE 4)
                /\ Len(octets) > 1 => octets[1] # 0
  <2> DEFINE v == Effective(datum)  octets == Encode(datum).octets
  <2>1. Kept(datum.type, v)
    BY <1>1, EffectiveKept DEF Encodes
  <2>2. octets = Contents(datum.type, v)
    BY DEF Encode
  <2> HIDE DEF v, octets
  <2>3. v \in Seq(Int \cup {Blank})
    BY <2>1 DEF Kept, Values
  <2>4. CASE datum.type \in Unsigned
    <3>1. v[1] \in 0..(Half - 1)
      BY <2>1, <2>4, HoldsOf, Bounds DEF Kept
    <3>2. octets = UnsignedOctets(v[1])
      BY <2>2, <2>4, ContentsOf, Zenon
    <3>3. Len(octets) \in Nat /\ Len(octets) >= 1 /\ Len(octets) <= 4 /\ (Len(octets) > 1 => octets[1] # 0)
      BY <3>1, <3>2, UnsignedRoundTrip, Zenon
    <3>4. datum.type # "Counter64"
      BY <2>4, Kinds
    <3>5. QED
      BY <3>3, <3>4 DEF octets
  <2>5. CASE datum.type = "Counter64"
    <3>1. Len(v) = 2 /\ Range(v) \subseteq 0..(Half - 1)
      BY <2>1, <2>5, HoldsOf, Bounds DEF Kept
    <3>2. v[1] \in 0..(Half - 1) /\ v[2] \in 0..(Half - 1)
      BY <2>3, <3>1 DEF Range
    <3>3. octets = toOctets(uint64(v[1], v[2]))
      BY <2>2, <2>5, ContentsOf, Zenon
    <3>4. Len(octets) \in Nat /\ Len(octets) >= 1 /\ Len(octets) <= 8 /\ (Len(octets) > 1 => octets[1] # 0)
      BY <3>2, <3>3, Counter64RoundTrip, Zenon
    <3> DEFINE n == Len(octets)
    <3>5. n \in Nat /\ n >= 1 /\ n <= 8
      BY <3>4
    <3> HIDE DEF n
    <3>6. n \in 1..(IF datum.type = "Counter64" THEN 8 ELSE 4)
      BY <2>5, <3>5
    <3>7. QED
      BY <3>4, <3>6, Zenon DEF octets, n
  <2>6. QED
    BY <1>1, <2>4, <2>5
<1>2. DataInv => ShortestForm
  BY <1>1 DEF DataInv, ShortestForm
<1>3. QED
  BY <1>2, DataInvariant, PTL

----------------------------------------------------------------------------
(* Every type but an identifier is read as what it means.                  *)
LEMMA WireForm ==
  ASSUME NEW d
  PROVE  /\ Encode(d).octets = Contents(d.type, Effective(d))
         /\ Encode(d).tag = WrittenTag(d)
         /\ Encode(d) = [tag |-> WrittenTag(d), long |-> FALSE,
                         octets |-> Contents(d.type, Effective(d))]
BY DEF Encode

LEMMA NullComesBack ==
  ASSUME NEW d, d.type = "Null", Kept("Null", Effective(d))
  PROVE  ReadNull(Encode(d)) = Effective(d)
<1> DEFINE v == Effective(d)
<1>1. Encode(d).octets = << >> /\ Encode(d).tag = WrittenTag(d)
  <2>1. Contents("Null", v) = << >>
    BY ContentsOf
  <2>2. Contents(d.type, v) = << >>
    BY <2>1
  <2>3. QED
    BY <2>2, WireForm
<1>2. ReadNull(Encode(d)) = NullValue(WrittenTag(d))
  BY <1>1, Zenon DEF ReadNull, Checked
<1>3. CASE v = << >>
  <2>1. WrittenTag(d) = StockTag["Null"]
    BY <1>3 DEF WrittenTag
  <2>2. StockTag["Null"] = 5
    BY DEF StockTag
  <2>3. NullValue(WrittenTag(d)) = << >>
    BY <2>1, <2>2, Kinds, NullOf
  <2>4. QED
    BY <1>2, <1>3, <2>3
<1>4. CASE v # << >>
  <2>1. PICK e \in noSuchObject..endOfMibView : v = << e >>
    BY <1>4, HoldsOf DEF Kept
  <2>2. WrittenTag(d) = Context + e
    BY <1>4, <2>1 DEF WrittenTag
  <2> DEFINE tag == Context + e
  <2>3. tag \in ErrorTags /\ tag - Context = e
    BY Kinds DEF Context, noSuchObject, endOfMibView
  <2> HIDE DEF tag
  <2>4. NullValue(tag) = << tag - Context >>
    BY <2>3, NullOf
  <2>5. QED
    BY <1>2, <2>1, <2>2, <2>3, <2>4 DEF tag
<1>5. QED
  BY <1>3, <1>4

LEMMA OthersComeBack ==
  ASSUME NEW d, DataObject(d), d # None, Encodes(d), d.type # "ObjectIdentifier"
  PROVE  Decoded(d.type, Encode(d)) = Meaning(d) /\ Meaning(d) # Refused
<1> DEFINE v == Effective(d)  s == Encode(d)
<1>1. Kept(d.type, v) /\ d.type \in Constructors /\ v # Refused
  BY EffectiveKept, ObjectOf DEF Encodes
<1>2. v \in Seq(Int \cup {Blank})
  BY <1>1 DEF Kept, Values
<1>3. s.octets = Contents(d.type, v) /\ s = [tag |-> WrittenTag(d), long |-> FALSE, octets |-> s.octets]
  BY WireForm
<1>4. d.type # "IpAddress" => Meaning(d) = v
  BY DEF Meaning
<1> HIDE DEF s, v
<1>5. CASE d.type = "Integer"
  <2>1. v[1] \in MIN_INT32..MAX_INT32 /\ v = << v[1] >>
    BY <1>1, <1>2, <1>5, HoldsOf DEF Kept
  <2>2. s.octets = IntOctets(v[1])
    BY <1>3, <1>5, ContentsOf, Zenon
  <2>3. Len(s.octets) \in 1..4 /\ Signed(s.octets) = v[1]
    BY <2>1, <2>2, IntegerRoundTrip, Zenon
  <2>4. Decoded(d.type, s) = << v[1] >>
    BY <1>5, <2>3, DecodedOf, Zenon
  <2>5. QED
    BY <1>1, <1>4, <1>5, <2>1, <2>4 DEF s
<1>6. CASE d.type \in Texts
  <2>1. s.octets = v
    BY <1>3, <1>6, ContentsOf, Zenon
  <2>2. Decoded(d.type, s) = v
    BY <1>6, <2>1, DecodedOf, Zenon
  <2>3. QED
    BY <1>1, <1>4, <1>6, <2>2 DEF s, Texts
<1>7. CASE d.type = "IpAddress"
  <2>1. Len(v) = 4 /\ Range(v) \subseteq Octet \cup {Blank}
    BY <1>1, <1>7, HoldsOf DEF Kept
  <2>2. s.octets = [i \in 1..4 |-> Number(v[i])]
    BY <1>3, <1>7, ContentsOf, Zenon
  <2>3. Len(s.octets) = 4
    BY <2>2
  <2>4. Decoded(d.type, s) = s.octets
    BY <1>7, <2>3, DecodedOf, Zenon
  <2>5. d.value = v
    BY <1>7 DEF v, Effective, Encodes, Unsigned
  <2>6. Meaning(d) = s.octets
    BY <1>7, <2>2, <2>5 DEF Meaning
  <2>7. s.octets \in Values
    <3>1. \A i \in 1..4 : Number(v[i]) \in Int
      BY <1>2, <2>1, Bounds DEF Range, Number
    <3>2. s.octets \in Seq(Int \cup {Blank})
      BY <2>2, <3>1
    <3>3. QED
      BY <3>2 DEF Values
  <2>8. QED
    BY <2>4, <2>6, <2>7, ValuesAssumption DEF s
<1>8. CASE d.type \in Unsigned
  <2>1. v[1] \in 0..(Half - 1) /\ v = << v[1] >>
    BY <1>1, <1>2, <1>8, HoldsOf, Bounds DEF Kept
  <2>2. s.octets = UnsignedOctets(v[1])
    BY <1>3, <1>8, ContentsOf, Zenon
  <2>3. ReadUnsigned(s) = << v[1] >>
    BY <1>3, <2>1, <2>2, UnsignedRoundTrip, Zenon
  <2>4. Decoded(d.type, s) = << v[1] >>
    BY <1>8, <2>3, DecodedOf, Zenon
  <2>5. QED
    BY <1>1, <1>4, <1>8, <2>1, <2>4 DEF s, Unsigned
<1>9. CASE d.type = "Counter64"
  <2>1. Len(v) = 2 /\ Range(v) \subseteq 0..(Half - 1)
    BY <1>1, <1>9, HoldsOf, Bounds DEF Kept
  <2>2. v[1] \in 0..(Half - 1) /\ v[2] \in 0..(Half - 1) /\ v = << v[1], v[2] >>
    <3>1. DOMAIN v = 1..2
      BY <1>2, <2>1
    <3>2. v[1] \in Range(v) /\ v[2] \in Range(v)
      BY <3>1 DEF Range
    <3>3. v = << v[1], v[2] >>
      BY <1>2, <2>1
    <3>4. QED
      BY <2>1, <3>2, <3>3
  <2>3. s.octets = toOctets(uint64(v[1], v[2]))
    BY <1>3, <1>9, ContentsOf, Zenon
  <2>4. ReadCounter64(s) = << v[1], v[2] >>
    BY <1>3, <2>2, <2>3, Counter64RoundTrip, Zenon
  <2>5. Decoded(d.type, s) = << v[1], v[2] >>
    BY <1>9, <2>4, DecodedOf, Zenon
  <2>6. QED
    BY <1>1, <1>4, <1>9, <2>2, <2>5 DEF s
<1>10. CASE d.type = "Null"
  <2>1. Decoded(d.type, s) = ReadNull(s)
    BY <1>10, DecodedOf, Zenon
  <2>2. ReadNull(s) = v
    BY <1>1, <1>10, NullComesBack DEF s, v
  <2>3. QED
    BY <1>1, <1>4, <1>10, <2>1, <2>2 DEF s
<1>11. QED
  BY <1>1, <1>5, <1>6, <1>7, <1>8, <1>9, <1>10, Kinds

LEMMA FirstArcs ==
  ASSUME NEW a \in Nat, NEW b \in Nat, b <= 39
  PROVE  (40 * a + b) \div 40 = a /\ (40 * a + b) % 40 = b
OBVIOUS

(* An identifier comes back as it was exactly when it needs no dot.        *)
LEMMA IdentifierComesBack ==
  ASSUME NEW d, DataObject(d), d # None, Encodes(d), d.type = "ObjectIdentifier"
  PROVE  /\ Meaning(d) = d.value /\ d.value # Refused
         /\ Plain(d.value) => Decoded(d.type, Encode(d)) = d.value
         /\ Decoded(d.type, Encode(d)) = d.value => Plain(d.value)
<1> DEFINE v == d.value  s == Encode(d)  o == s.octets
           rest == SubSeq(v, 3, Len(v))
           oid == << o[1] \div 40, o[1] % 40 >> \o Tail(o)
<1>1. Effective(d) = v /\ v # None /\ v # Refused /\ Len(v) >= 2
  BY ValuesAssumption DEF Effective, Encodes, Unsigned
<1>2. Kept("ObjectIdentifier", v)
  BY <1>1, ObjectOf
<1>3. v \in Seq(Int \cup {Blank}) /\ Range(v) \subseteq 0..MAX_INT32
  BY <1>2, HoldsOf DEF Kept, Values
<1>4. \A i \in 1..Len(v) : v[i] \in 0..MAX_INT32 /\ v[i] \in Nat
  BY <1>3, Bounds DEF Range
<1>5. v \in Seq(0..MAX_INT32) /\ v \in Seq(Nat) /\ Len(v) \in Nat
  <2>1. v \in Seq(0..MAX_INT32) /\ v \in Seq(Nat)
    BY <1>3, <1>4, Elements, Zenon
  <2>2. QED
    BY <1>3, <2>1
<1>6. v[1] \in Nat /\ v[2] \in Nat
  BY <1>1, <1>4, <1>5
<1>7. rest \in Seq(Nat)
  BY <1>1, <1>5
<1>8. o = << 40 * v[1] + v[2] >> \o rest
  BY <1>1, WireForm, ContentsOf, Zenon
<1> HIDE DEF rest
<1>9. o \in Seq(Nat) /\ Len(o) > 0 /\ o[1] = 40 * v[1] + v[2] /\ Tail(o) = rest
  <2> DEFINE n == 40 * v[1] + v[2]
  <2>1. n \in Nat
    BY <1>6
  <2> HIDE DEF n
  <2>2. << n >> \o rest \in Seq(Nat) /\ Len(<< n >> \o rest) > 0
    BY <1>7, <2>1
  <2>3. (<< n >> \o rest)[1] = n /\ Tail(<< n >> \o rest) = rest
    BY <1>7, <2>1
  <2>4. QED
    BY <1>8, <2>2, <2>3, Zenon DEF n
<1>10. Meaning(d) = v
  BY <1>1 DEF Meaning
<1>11. Decoded(d.type, s) = canonicalizeOID(oid)
  BY <1>9, DecodedOf, Zenon
<1>12. oid = << o[1] \div 40, o[1] % 40 >> \o rest
  BY <1>9
<1> HIDE DEF o, s
<1>13. << o[1] \div 40, o[1] % 40 >> \in Seq(Nat)
  BY <1>6, <1>9
<1>14. oid \in Seq(Nat)
  BY <1>7, <1>12, <1>13, ConcatProperties
<1> HIDE DEF oid
<1>15. ASSUME Plain(v) PROVE canonicalizeOID(oid) = v
  <2>1. v[2] <= 39
    BY <1>15 DEF Plain
  <2>2. o[1] \div 40 = v[1] /\ o[1] % 40 = v[2]
    <3>1. (40 * v[1] + v[2]) \div 40 = v[1] /\ (40 * v[1] + v[2]) % 40 = v[2]
      BY <1>6, <2>1, FirstArcs
    <3>2. QED
      BY <1>9, <3>1, Zenon
  <2>3. oid = << v[1], v[2] >> \o rest
    BY <1>12, <2>2, Zenon
  <2>4. << v[1], v[2] >> \o rest = v
    BY <1>1, <1>5, <1>6 DEF rest
  <2>5. QED
    BY <1>5, <1>15, <2>3, <2>4, CanonPlain
<1>16. ASSUME canonicalizeOID(oid) = v PROVE Plain(v)
  BY <1>1, <1>14, <1>16, CanonPlain
<1>17. QED
  BY <1>1, <1>10, <1>11, <1>15, <1>16 DEF s

LEMMA WireKeeps ==
  ASSUME NEW d, DataObject(d), d # None, Encodes(d), MeansType(WrittenTag(d), d.type), TablesOK
  PROVE  LET back == Parse(Encode(d))
             same == /\ back # Refused
                     /\ back.type = d.type
                     /\ back.value = Meaning(d)
                     /\ back.tag = d.tag \/ d.type = "Null"
         IN same <=> (d.type = "ObjectIdentifier" => Plain(d.value))
<1> DEFINE value == Decoded(d.type, Encode(d))
           made == [type |-> d.type, tag |-> WrittenTag(d), value |-> value]
           back == Parse(Encode(d))
           same == /\ back # Refused
                   /\ back.type = d.type
                   /\ back.value = Meaning(d)
                   /\ back.tag = d.tag \/ d.type = "Null"
<1>1. /\ Encode(d).tag = WrittenTag(d) /\ WrittenTag(d) \in DOMAIN tagType
      /\ typeObj[tagType[WrittenTag(d)]] = d.type
      /\ WrittenTag(d) = d.tag \/ d.type = "Null"
  BY WireForm DEF MeansType, WrittenTag
<1>2. /\ value = Refused => back = Refused
      /\ value # Refused => back = made
  BY <1>1, Zenon DEF Parse
<1>3. value # Refused => made # Refused
  <2>1. ASSUME value # Refused PROVE Kept(d.type, value)
    <3>1. Readable(d.type, Encode(d).octets)
      BY ContentsReadable, WireForm
    <3>2. QED
      BY <2>1, <3>1, ObjectOf, DecodedKept
  <2>2. WrittenTag(d) \in 0..255 /\ d.type \in Constructors
    BY <1>1, ObjectOf DEF TablesOK
  <2> HIDE DEF value
  <2>3. value # Refused => made \in DataObjects
    BY <2>1, <2>2 DEF Kept, DataObjects
  <2>4. QED
    BY <2>3, ObjectsAssumption
<1>4. made.type = d.type /\ made.tag = WrittenTag(d) /\ made.value = value
  OBVIOUS
<1> HIDE DEF made, value
<1>5. same <=> value # Refused /\ value = Meaning(d)
  BY <1>1, <1>2, <1>3, <1>4
<1>6. CASE d.type = "ObjectIdentifier"
  BY <1>5, <1>6, IdentifierComesBack DEF value
<1>7. CASE d.type # "ObjectIdentifier"
  BY <1>5, <1>7, OthersComeBack DEF value
<1>8. QED
  BY <1>6, <1>7

(* A data object survives the wire: encoded and parsed it has the same     *)
(* type, tag and value, if its tag means its type, and unless it is an     *)
(* identifier that only passed because of a dot in front.                  *)
THEOREM DataSurvives == DataSpec => []SurvivesTheWire
<1>1. DataInv => SurvivesTheWire
  <2>1. ASSUME DataInv, datum # None, Encodes(datum), MeansType(WrittenTag(datum), datum.type)
        PROVE  LET back == Parse(Encode(datum))
                   same == /\ back # Refused
                           /\ back.type = datum.type
                           /\ back.value = Meaning(datum)
                           /\ back.tag = datum.tag \/ datum.type = "Null"
               IN same <=> (datum.type = "ObjectIdentifier" => Plain(datum.value))
    BY <2>1, WireKeeps DEF DataInv
  <2>2. QED
    BY <2>1 DEF SurvivesTheWire
<1>2. QED
  BY <1>1, DataInvariant, PTL

----------------------------------------------------------------------------
(* Arithmetic.  Sums and differences, limb by limb, with their carries.    *)
(* Digits x and y to the base B and a carry c make a carry and a digit.    *)
DigitSum(B, x, y, c, carry, digit) == x + y + c = carry * B + digit

LEMMA TwoDigits ==
  ASSUME NEW B \in Nat, NEW x1 \in Nat, NEW x2 \in Nat, NEW y1 \in Nat, NEW y2 \in Nat,
         NEW r1 \in Nat, NEW r2 \in Nat, NEW c0 \in Nat, NEW c1 \in Nat, NEW c2 \in Nat,
         DigitSum(B, x1, y1, c0, c1, r1), DigitSum(B, x2, y2, c1, c2, r2)
  PROVE  DigitSum(B * B, x2 * B + x1, y2 * B + y1, c0, c2, r2 * B + r1)
<1>0. x1 + y1 + c0 = c1 * B + r1 /\ x2 + y2 + c1 = c2 * B + r2
  BY DEF DigitSum
<1>1. (x2 + y2 + c1) * B = x2 * B + y2 * B + c1 * B
  BY SMT
<1>2. (c2 * B + r2) * B = c2 * (B * B) + r2 * B
  BY SMT
<1> DEFINE p == x2 * B  q == y2 * B  r == c1 * B  s == c2 * (B * B)  t == r2 * B
<1>3. p \in Nat /\ q \in Nat /\ r \in Nat /\ s \in Nat /\ t \in Nat
  BY SMT
<1>4. p + q + r = s + t
  BY <1>0, <1>1, <1>2
<1>5. x1 + y1 + c0 = r + r1
  BY <1>0
<1> HIDE DEF p, q, r, s, t
<1>6. (p + x1) + (q + y1) + c0 = s + (t + r1)
  BY <1>3, <1>4, <1>5
<1>7. QED
  BY <1>6 DEF p, q, r, s, t, DigitSum

LEMMA CarryOf ==
  ASSUME NEW s \in Nat, s < 2 * Limb
  PROVE  /\ Carry(s) \in {0, 1} /\ s % Limb \in 0..(Limb - 1)
         /\ s = Carry(s) * Limb + (s % Limb)
<1>1. s < Limb => s \div Limb = 0 /\ s % Limb = s
  BY Widths, SMT
<1>2. s >= Limb => s \div Limb = 1 /\ s % Limb = s - Limb
  BY Widths, SMT
<1>3. 0 % 2 = 0 /\ 1 % 2 = 1
  OBVIOUS
<1>4. Limb \in Nat
  BY WidthFacts
<1>5. CASE s < Limb
  BY <1>1, <1>3, <1>4, <1>5 DEF Carry
<1>6. CASE s >= Limb
  BY <1>2, <1>3, <1>4, <1>6 DEF Carry
<1>7. QED
  BY <1>4, <1>5, <1>6

(* A number made of four limbs.                                            *)
MadeOf(a, x) == a.lo = x[2] * Limb + x[1] /\ a.hi = x[4] * Limb + x[3]

LEMMA LimbsOf ==
  ASSUME NEW a \in Words
  PROVE  Limbs(a) \in [1..4 -> 0..(Limb - 1)] /\ MadeOf(a, Limbs(a))
<1> DEFINE x == Limbs(a)
<1>1. a.lo \in Nat /\ a.lo < Half /\ a.hi \in Nat /\ a.hi < Half
  BY WidthFacts DEF Words
<1>2. /\ \A w \in Nat : w < Half => w % Limb \in 0..(Limb - 1) /\ w \div Limb \in 0..(Limb - 1)
                                    /\ w = (w \div Limb) * Limb + (w % Limb)
  BY Widths, SMT
<1>3. x[1] = a.lo % Limb /\ x[2] = a.lo \div Limb /\ x[3] = a.hi % Limb /\ x[4] = a.hi \div Limb
  BY DEF Limbs
<1>4. DOMAIN x = 1..4 /\ x = [k \in 1..4 |-> x[k]]
  BY DEF Limbs
<1> HIDE DEF x
<1>5. /\ x[1] \in 0..(Limb - 1) /\ x[2] \in 0..(Limb - 1) /\ a.lo = x[2] * Limb + x[1]
      /\ x[3] \in 0..(Limb - 1) /\ x[4] \in 0..(Limb - 1) /\ a.hi = x[4] * Limb + x[3]
  BY <1>1, <1>2, <1>3
<1>6. x \in [1..4 -> 0..(Limb - 1)]
  <2>1. \A k \in 1..4 : x[k] \in 0..(Limb - 1)
    BY <1>5
  <2>2. QED
    BY <1>4, <2>1
<1>7. QED
  BY <1>5, <1>6 DEF x, MadeOf

LEMMA OfLimbsForm ==
  ASSUME NEW l, l[1] \in Int, l[2] \in Int, l[3] \in Int, l[4] \in Int
  PROVE  LET r == OfLimbs(l)
         IN /\ r \in Words
            /\ r.lo = (l[2] % Limb) * Limb + (l[1] % Limb)
            /\ r.hi = (l[4] % Limb) * Limb + (l[3] % Limb)
<1> DEFINE word(high, low) == (high % Limb) * Limb + (low % Limb)
<1>1. \A m, n \in Int : word(m, n) \in 0..(Half - 1)
  <2>1. \A m \in Int : m % Limb \in 0..(Limb - 1)
    BY Widths, SMT
  <2>2. \A m, n \in 0..(Limb - 1) : m * Limb + n \in 0..(Half - 1)
    BY Widths, SMT
  <2>3. QED
    BY <2>1, <2>2, Zenon
<1>2. \A w \in 0..(Half - 1) : w % Half = w
  BY Widths, SMT
<1>3. OfLimbs(l) = [hi |-> word(l[4], l[3]) % Half, lo |-> word(l[2], l[1]) % Half]
  BY DEF OfLimbs, uint64
<1> DEFINE r == OfLimbs(l)
<1> HIDE DEF word
<1>4. r = [hi |-> word(l[4], l[3]), lo |-> word(l[2], l[1])]
  BY <1>1, <1>2, <1>3, Zenon
<1> HIDE DEF r
<1>5. r \in Words /\ r.lo = word(l[2], l[1]) /\ r.hi = word(l[4], l[3])
  BY <1>1, <1>4 DEF Words
<1>6. QED
  BY <1>5, Zenon DEF r, word

(* Four limbs that are added to four, with the carries out of each.        *)
Carried(x, y, d, c1, c2, c3, c4) ==
  /\ DigitSum(Limb, x[1], y[1], 0, c1, d[1]) /\ DigitSum(Limb, x[2], y[2], c1, c2, d[2])
  /\ DigitSum(Limb, x[3], y[3], c2, c3, d[3]) /\ DigitSum(Limb, x[4], y[4], c3, c4, d[4])

Summed(a, b, c, r) == Val(a) + Val(b) = c * Modulus + Val(r)

LEMMA FourDigits ==
  ASSUME NEW a \in Words, NEW b \in Words, NEW r \in Words,
         NEW x \in [1..4 -> Nat], NEW y \in [1..4 -> Nat], NEW d \in [1..4 -> Nat],
         MadeOf(a, x), MadeOf(b, y), MadeOf(r, d),
         NEW c1 \in {0, 1}, NEW c2 \in {0, 1}, NEW c3 \in {0, 1}, NEW c4 \in {0, 1},
         Carried(x, y, d, c1, c2, c3, c4)
  PROVE  Summed(a, b, c4, r)
<1> USE DEF Carried, MadeOf
<1>1. Limb \in Nat /\ Half \in Nat /\ 0 \in Nat /\ Limb * Limb = Half
  BY WidthFacts
<1>2. c1 \in Nat /\ c2 \in Nat /\ c3 \in Nat /\ c4 \in Nat
  OBVIOUS
<1>3. /\ x[1] \in Nat /\ x[2] \in Nat /\ x[3] \in Nat /\ x[4] \in Nat
      /\ y[1] \in Nat /\ y[2] \in Nat /\ y[3] \in Nat /\ y[4] \in Nat
      /\ d[1] \in Nat /\ d[2] \in Nat /\ d[3] \in Nat /\ d[4] \in Nat
  OBVIOUS
<1>4. DigitSum(Half, a.lo, b.lo, 0, c2, r.lo)
  <2>1. DigitSum(Limb * Limb, x[2] * Limb + x[1], y[2] * Limb + y[1], 0, c2, d[2] * Limb + d[1])
    BY <1>1, <1>2, <1>3, TwoDigits, Zenon
  <2>2. QED
    BY <1>1, <2>1, Zenon
<1>5. DigitSum(Half, a.hi, b.hi, c2, c4, r.hi)
  <2>1. DigitSum(Limb * Limb, x[4] * Limb + x[3], y[4] * Limb + y[3], c2, c4, d[4] * Limb + d[3])
    BY <1>1, <1>2, <1>3, TwoDigits, Zenon
  <2>2. QED
    BY <1>1, <2>1, Zenon
<1>6. /\ a.hi \in Nat /\ a.lo \in Nat /\ b.hi \in Nat /\ b.lo \in Nat
      /\ r.hi \in Nat /\ r.lo \in Nat
  BY DEF Words
<1>7. DigitSum(Half * Half, a.hi * Half + a.lo, b.hi * Half + b.lo, 0, c4, r.hi * Half + r.lo)
  BY <1>1, <1>2, <1>4, <1>5, <1>6, TwoDigits, Zenon
<1>8. Val(a) + Val(b) + 0 = c4 * Modulus + Val(r)
  BY <1>7, Zenon DEF Val, Modulus, DigitSum
<1>9. Val(a) \in Nat /\ Val(b) \in Nat
  BY <1>1, <1>6, SMT DEF Val
<1>10. QED
  BY <1>8, <1>9 DEF Summed

(* addq computes modulo 2^64: the carry out of the highest limb is lost.   *)
LEMMA AddExact ==
  ASSUME NEW a \in Words, NEW b \in Words
  PROVE  /\ addq(a, b) \in Words
         /\ \E c \in {0, 1} : Summed(a, b, c, addq(a, b))
<1> DEFINE x == Limbs(a)  y == Limbs(b)
           s1 == x[1] + y[1]
           s2 == x[2] + y[2] + Carry(s1)
           s3 == x[3] + y[3] + Carry(s2)
           s4 == x[4] + y[4] + Carry(s3)
           l == << s1, s2, s3, s4 >>
           d == [k \in 1..4 |-> l[k] % Limb]
           r == addq(a, b)
<1>1. r = OfLimbs(l)
  BY DEF addq
<1>2. x \in [1..4 -> 0..(Limb - 1)] /\ MadeOf(a, x) /\ y \in [1..4 -> 0..(Limb - 1)] /\ MadeOf(b, y)
  BY LimbsOf
<1> HIDE DEF x, y, r
<1>3. \A k \in 1..4 : \A c \in {0, 1} :
         /\ x[k] + y[k] + c \in Nat /\ x[k] + y[k] + c < 2 * Limb
         /\ x[k] + y[k] \in Nat /\ x[k] + y[k] < 2 * Limb /\ x[k] + y[k] = x[k] + y[k] + 0
  <2> SUFFICES ASSUME NEW k \in 1..4, NEW c \in {0, 1}
               PROVE  /\ x[k] + y[k] + c \in Nat /\ x[k] + y[k] + c < 2 * Limb
                      /\ x[k] + y[k] \in Nat /\ x[k] + y[k] < 2 * Limb
                      /\ x[k] + y[k] = x[k] + y[k] + 0
    OBVIOUS
  <2>1. x[k] \in 0..(Limb - 1) /\ y[k] \in 0..(Limb - 1)
    BY <1>2
  <2>2. QED
    BY <2>1, WidthFacts
<1>4. s1 \in Nat /\ Carry(s1) \in {0, 1} /\ DigitSum(Limb, x[1], y[1], 0, Carry(s1), s1 % Limb)
  BY <1>3, CarryOf DEF DigitSum
<1>5. s2 \in Nat /\ Carry(s2) \in {0, 1}
      /\ DigitSum(Limb, x[2], y[2], Carry(s1), Carry(s2), s2 % Limb)
  BY <1>3, <1>4, CarryOf DEF DigitSum
<1>6. s3 \in Nat /\ Carry(s3) \in {0, 1}
      /\ DigitSum(Limb, x[3], y[3], Carry(s2), Carry(s3), s3 % Limb)
  BY <1>3, <1>5, CarryOf DEF DigitSum
<1>7. s4 \in Nat /\ Carry(s4) \in {0, 1}
      /\ DigitSum(Limb, x[4], y[4], Carry(s3), Carry(s4), s4 % Limb)
  BY <1>3, <1>6, CarryOf DEF DigitSum
<1> HIDE DEF s1, s2, s3, s4
<1>8. /\ l[1] = s1 /\ l[2] = s2 /\ l[3] = s3 /\ l[4] = s4
      /\ d[1] = s1 % Limb /\ d[2] = s2 % Limb /\ d[3] = s3 % Limb /\ d[4] = s4 % Limb
  OBVIOUS
<1>9. d \in [1..4 -> Nat]
  <2>1. \A k \in 1..4 : l[k] \in Nat
    BY <1>4, <1>5, <1>6, <1>7, <1>8
  <2> HIDE DEF l
  <2>2. QED
    BY <2>1, WidthFacts
<1>10. l[1] \in Int /\ l[2] \in Int /\ l[3] \in Int /\ l[4] \in Int
  BY <1>4, <1>5, <1>6, <1>7, <1>8
<1> HIDE DEF l
<1>11. r \in Words /\ MadeOf(r, d)
  BY <1>1, <1>8, <1>10, OfLimbsForm, Zenon DEF MadeOf
<1> HIDE DEF d
<1>12. x \in [1..4 -> Nat] /\ y \in [1..4 -> Nat]
  BY <1>2
<1>13. Carried(x, y, d, Carry(s1), Carry(s2), Carry(s3), Carry(s4))
  BY <1>4, <1>5, <1>6, <1>7, <1>8, Zenon DEF Carried
<1>14. Summed(a, b, Carry(s4), r)
  BY <1>2, <1>4, <1>5, <1>6, <1>7, <1>9, <1>11, <1>12, <1>13, FourDigits
<1>15. QED
  BY <1>7, <1>11, <1>14, Zenon DEF r

----------------------------------------------------------------------------
(* Subtraction is addition backwards: what is borrowed is a carry.         *)
Lowered(L, v) == IF v = 0 THEN L - 1 ELSE v - 1

(* The limbs p after y was made payable from limbs x at place 1, 2 or 3.   *)
Repaid(L, k, x, y, p) ==
  IF y[k] > x[k]
    THEN \A j \in 1..4 :
           p[j] = IF j = k THEN x[j] + L
                  ELSE IF j > k /\ \A i \in 1..4 : k < i /\ i < j => x[i] = 0
                  THEN Lowered(L, x[j]) ELSE x[j]
    ELSE p = x

LEMMA RepayForm ==
  ASSUME NEW x \in [1..4 -> Int], NEW y, NEW k \in {1, 2, 3}
  PROVE  Repay(x, y, k) \in [1..4 -> Int] /\ Repaid(Limb, k, x, y, Repay(x, y, k))
<1> DEFINE takes == { j \in (k + 1)..4 : \A i \in (k + 1)..j : i < j => x[i] = 0 }
           b == [j \in 1..4 |-> IF j \notin takes THEN x[j]
                                ELSE IF x[j] = 0 THEN Limb - 1 ELSE x[j] - 1]
<1>1. Borrow(x, k + 1) = b
  BY DEF Borrow
<1>2. b \in [1..4 -> Int]
  BY WidthFacts
<1>3. \A j \in 1..4 : j \in takes <=> j > k /\ \A i \in 1..4 : k < i /\ i < j => x[i] = 0
  <2> SUFFICES ASSUME NEW j \in 1..4
               PROVE  j \in takes <=> j > k /\ \A i \in 1..4 : k < i /\ i < j => x[i] = 0
    OBVIOUS
  <2>1. j \in (k + 1)..4 <=> j > k
    OBVIOUS
  <2>2. (\A i \in (k + 1)..j : i < j => x[i] = 0) <=> (\A i \in 1..4 : k < i /\ i < j => x[i] = 0)
    OBVIOUS
  <2>3. QED
    BY <2>1, <2>2
<1> HIDE DEF takes
<1>4. CASE y[k] > x[k]
  <2>1. Repay(x, y, k) = [b EXCEPT ![k] = b[k] + Limb]
    BY <1>1, <1>4 DEF Repay
  <2>2. b[k] = x[k]
    BY <1>3
  <2>3. \A j \in 1..4 : j # k => b[j] = IF j > k /\ \A i \in 1..4 : k < i /\ i < j => x[i] = 0
                                         THEN Lowered(Limb, x[j]) ELSE x[j]
    BY <1>3 DEF Lowered
  <2> HIDE DEF b
  <2>4. \A j \in 1..4 : Repay(x, y, k)[j] = IF j = k THEN b[j] + Limb ELSE b[j]
    BY <1>2, <2>1
  <2>5. Repay(x, y, k) \in [1..4 -> Int]
    BY <1>2, <2>1, WidthFacts
  <2>6. QED
    BY <1>4, <2>2, <2>3, <2>4, <2>5 DEF Repaid
<1>5. CASE ~ (y[k] > x[k])
  BY <1>5 DEF Repay, Repaid
<1>6. QED
  BY <1>4, <1>5

(* What is borrowed from the next limb.                                    *)
Owed(x, y, c) == IF y + c > x THEN 1 ELSE 0

Borrowed(L, x, y, r) ==
  LET c1 == Owed(x[1], y[1], 0)  c2 == Owed(x[2], y[2], c1)
      c3 == Owed(x[3], y[3], c2)
  IN /\ r[1] - y[1] = x[1] - y[1] + (IF c1 = 1 THEN L ELSE 0)
     /\ r[2] - y[2] = x[2] - y[2] - c1 + (IF c2 = 1 THEN L ELSE 0)
     /\ r[3] - y[3] = x[3] - y[3] - c2 + (IF c3 = 1 THEN L ELSE 0)
     /\ r[4] = x[4] - c3 \/ (r[4] = x[4] - c3 + L /\ x[4] = 0)

LEMMA SubLimbs ==
  ASSUME NEW L \in Nat, L >= 2, NEW x \in [1..4 -> 0..(L - 1)], NEW y \in [1..4 -> 0..(L - 1)],
         NEW p \in [1..4 -> Int], Repaid(L, 1, x, y, p),
         NEW q \in [1..4 -> Int], Repaid(L, 2, p, y, q),
         NEW r \in [1..4 -> Int], Repaid(L, 3, q, y, r)
  PROVE  Borrowed(L, x, y, r)
<1>1. /\ x[1] \in 0..(L - 1) /\ x[2] \in 0..(L - 1) /\ x[3] \in 0..(L - 1) /\ x[4] \in 0..(L - 1)
      /\ y[1] \in 0..(L - 1) /\ y[2] \in 0..(L - 1) /\ y[3] \in 0..(L - 1) /\ y[4] \in 0..(L - 1)
  OBVIOUS
<1>2. IF y[1] > x[1]
        THEN /\ p[1] = x[1] + L /\ p[2] = Lowered(L, x[2])
             /\ p[3] = IF x[2] = 0 THEN Lowered(L, x[3]) ELSE x[3]
             /\ p[4] = IF x[2] = 0 /\ x[3] = 0 THEN Lowered(L, x[4]) ELSE x[4]
        ELSE p[1] = x[1] /\ p[2] = x[2] /\ p[3] = x[3] /\ p[4] = x[4]
  BY DEF Repaid
<1>3. IF y[2] > p[2]
        THEN /\ q[1] = p[1] /\ q[2] = p[2] + L /\ q[3] = Lowered(L, p[3])
             /\ q[4] = IF p[3] = 0 THEN Lowered(L, p[4]) ELSE p[4]
        ELSE q[1] = p[1] /\ q[2] = p[2] /\ q[3] = p[3] /\ q[4] = p[4]
  BY DEF Repaid
<1>4. IF y[3] > q[3]
        THEN r[1] = q[1] /\ r[2] = q[2] /\ r[3] = q[3] + L /\ r[4] = Lowered(L, q[4])
        ELSE r[1] = q[1] /\ r[2] = q[2] /\ r[3] = q[3] /\ r[4] = q[4]
  BY DEF Repaid
<1>5. QED
  BY <1>1, <1>2, <1>3, <1>4, SMT DEF Lowered, Owed, Borrowed

(* The limb of a difference, and what it owes.                             *)
LEMMA LimbOwed ==
  ASSUME NEW x \in 0..(Limb - 1), NEW y \in 0..(Limb - 1), NEW c \in {0, 1}, NEW d \in Int,
         \/ d = x - y - c + 2 * Limb
         \/ d = x - y - c + 3 * Limb
  PROVE  Owed(x, y, c) \in {0, 1} /\ DigitSum(Limb, d % Limb, y, c, Owed(x, y, c), x)
<1>1. x - y - c \in Int /\ -Limb <= x - y - c /\ x - y - c < Limb
  BY WidthFacts
<1> DEFINE e == x - y - c
<1>2. /\ e + 2 * Limb \in Int /\ e + 3 * Limb \in Int
      /\ (e + 2 * Limb) % Limb = IF e < 0 THEN e + Limb ELSE e
      /\ (e + 3 * Limb) % Limb = IF e < 0 THEN e + Limb ELSE e
  <2>1. e \in Int /\ -Limb <= e /\ e < Limb
    BY <1>1
  <2> HIDE DEF e
  <2>2. QED
    BY <2>1, Widths, SMT
<1>3. d % Limb = IF e < 0 THEN e + Limb ELSE e
  BY <1>2
<1>4. Owed(x, y, c) = IF e < 0 THEN 1 ELSE 0
  BY WidthFacts DEF Owed
<1>5. x = e + y + c
  BY WidthFacts
<1>6. CASE e < 0
  <2>1. (d % Limb) + y + c = 1 * Limb + x
    BY <1>1, <1>3, <1>5, <1>6, WidthFacts
  <2>2. QED
    BY <1>4, <1>6, <2>1 DEF DigitSum
<1>7. CASE ~ (e < 0)
  <2>1. (d % Limb) + y + c = 0 * Limb + x
    BY <1>1, <1>3, <1>5, <1>7, WidthFacts
  <2>2. QED
    BY <1>4, <1>7, <2>1 DEF DigitSum
<1>8. QED
  BY <1>6, <1>7

(* subq computes modulo 2^64.                                              *)
LEMMA SubExact ==
  ASSUME NEW a \in Words, NEW b \in Words
  PROVE  /\ subq(a, b) \in Words
         /\ \E c \in {0, 1} : Summed(subq(a, b), b, c, a)
<1> DEFINE x == Limbs(a)  y == Limbs(b)
           p == Repay(x, y, 1)  q == Repay(p, y, 2)  u == Repay(q, y, 3)
           l == [k \in 1..4 |-> u[k] + 2 * Limb - y[k]]
           d == [k \in 1..4 |-> l[k] % Limb]
           r == subq(a, b)
           c1 == Owed(x[1], y[1], 0)  c2 == Owed(x[2], y[2], c1)
           c3 == Owed(x[3], y[3], c2) c4 == Owed(x[4], y[4], c3)
<1>1. r = OfLimbs(l)
  BY DEF subq
<1>2. x \in [1..4 -> 0..(Limb - 1)] /\ MadeOf(a, x) /\ y \in [1..4 -> 0..(Limb - 1)] /\ MadeOf(b, y)
  BY LimbsOf
<1> HIDE DEF x, y, r
<1>3. x \in [1..4 -> Int] /\ x \in [1..4 -> Nat] /\ y \in [1..4 -> Nat]
  BY <1>2
<1>4. p \in [1..4 -> Int] /\ Repaid(Limb, 1, x, y, p)
  BY <1>3, RepayForm
<1> HIDE DEF p
<1>5. q \in [1..4 -> Int] /\ Repaid(Limb, 2, p, y, q)
  BY <1>4, RepayForm
<1> HIDE DEF q
<1>6. u \in [1..4 -> Int] /\ Repaid(Limb, 3, q, y, u)
  BY <1>5, RepayForm
<1> HIDE DEF u
<1>7. Limb \in Nat /\ Limb >= 2
  BY WidthFacts, SMT
<1>8. /\ u[1] - y[1] = x[1] - y[1] + (IF c1 = 1 THEN Limb ELSE 0)
      /\ u[2] - y[2] = x[2] - y[2] - c1 + (IF c2 = 1 THEN Limb ELSE 0)
      /\ u[3] - y[3] = x[3] - y[3] - c2 + (IF c3 = 1 THEN Limb ELSE 0)
      /\ u[4] = x[4] - c3 \/ (u[4] = x[4] - c3 + Limb /\ x[4] = 0)
  <2>1. Borrowed(Limb, x, y, u)
    BY <1>2, <1>4, <1>5, <1>6, <1>7, SubLimbs, Zenon
  <2>2. QED
    BY <2>1, Zenon DEF Borrowed
<1>9. /\ c1 \in {0, 1} /\ c2 \in {0, 1} /\ c3 \in {0, 1} /\ c4 \in {0, 1}
  BY DEF Owed
<1>10. /\ x[1] \in 0..(Limb - 1) /\ x[2] \in 0..(Limb - 1) /\ x[3] \in 0..(Limb - 1) /\ x[4] \in 0..(Limb - 1)
       /\ y[1] \in 0..(Limb - 1) /\ y[2] \in 0..(Limb - 1) /\ y[3] \in 0..(Limb - 1) /\ y[4] \in 0..(Limb - 1)
       /\ u[1] \in Int /\ u[2] \in Int /\ u[3] \in Int /\ u[4] \in Int
  BY <1>2, <1>6
<1>11. /\ l[1] = u[1] + 2 * Limb - y[1] /\ l[2] = u[2] + 2 * Limb - y[2]
       /\ l[3] = u[3] + 2 * Limb - y[3] /\ l[4] = u[4] + 2 * Limb - y[4]
  OBVIOUS
<1>12. d[1] = l[1] % Limb /\ d[2] = l[2] % Limb /\ d[3] = l[3] % Limb /\ d[4] = l[4] % Limb
  OBVIOUS
<1>13. /\ l[1] \in Int /\ l[2] \in Int /\ l[3] \in Int /\ l[4] \in Int
  BY <1>7, <1>10, <1>11
<1>14. d \in [1..4 -> Nat]
  <2>1. \A k \in 1..4 : l[k] \in Int
    BY <1>13
  <2> HIDE DEF l
  <2>2. QED
    BY <2>1, <1>7
<1> HIDE DEF l, d
<1>15. r \in Words /\ MadeOf(r, d)
  BY <1>1, <1>12, <1>13, OfLimbsForm, Zenon DEF MadeOf
<1> HIDE DEF c1, c2, c3, c4
<1>16. /\ l[1] = x[1] - y[1] - 0 + 2 * Limb \/ l[1] = x[1] - y[1] - 0 + 3 * Limb
       /\ l[2] = x[2] - y[2] - c1 + 2 * Limb \/ l[2] = x[2] - y[2] - c1 + 3 * Limb
       /\ l[3] = x[3] - y[3] - c2 + 2 * Limb \/ l[3] = x[3] - y[3] - c2 + 3 * Limb
       /\ l[4] = x[4] - y[4] - c3 + 2 * Limb \/ l[4] = x[4] - y[4] - c3 + 3 * Limb
  BY <1>7, <1>8, <1>9, <1>10, <1>11
<1>17. Carried(d, y, x, c1, c2, c3, c4)
  <2>1. /\ c1 = Owed(x[1], y[1], 0) /\ c2 = Owed(x[2], y[2], c1)
        /\ c3 = Owed(x[3], y[3], c2) /\ c4 = Owed(x[4], y[4], c3)
    BY DEF c1, c2, c3, c4
  <2>2. DigitSum(Limb, d[1], y[1], 0, c1, x[1])
    <3>1. 0 \in {0, 1}
      OBVIOUS
    <3>2. QED
      BY <1>10, <1>12, <1>13, <1>16, <2>1, <3>1, LimbOwed
  <2>3. DigitSum(Limb, d[2], y[2], c1, c2, x[2])
    BY <1>9, <1>10, <1>12, <1>13, <1>16, <2>1, LimbOwed
  <2>4. DigitSum(Limb, d[3], y[3], c2, c3, x[3])
    BY <1>9, <1>10, <1>12, <1>13, <1>16, <2>1, LimbOwed
  <2>5. DigitSum(Limb, d[4], y[4], c3, c4, x[4])
    BY <1>9, <1>10, <1>12, <1>13, <1>16, <2>1, LimbOwed
  <2>6. QED
    BY <2>2, <2>3, <2>4, <2>5, Zenon DEF Carried
<1>18. Summed(r, b, c4, a)
  BY <1>2, <1>3, <1>9, <1>14, <1>15, <1>17, FourDigits
<1>19. QED
  BY <1>9, <1>15, <1>18, Zenon DEF r

----------------------------------------------------------------------------
(* Powers of two, as far as a word has bits.                               *)
Doubles(k) == 2^k \in Nat /\ 2^(k + 1) = 2 * 2^k

LEMMA Doubling == \A k \in 0..31 : Doubles(k)
<1>1. \A k \in 0..7 : Doubles(k)
  <2>1. /\ Doubles(0) /\ Doubles(1) /\ Doubles(2) /\ Doubles(3)
        /\ Doubles(4) /\ Doubles(5) /\ Doubles(6) /\ Doubles(7)
    BY SMT DEF Doubles
  <2>2. \A k \in 0..7 : \/ k = 0 \/ k = 1 \/ k = 2 \/ k = 3
                        \/ k = 4 \/ k = 5 \/ k = 6 \/ k = 7
    BY SMT
  <2>3. QED
    BY <2>1, <2>2, Zenon
<1>2. \A k \in 8..15 : Doubles(k)
  <2>1. /\ Doubles(8) /\ Doubles(9) /\ Doubles(10) /\ Doubles(11)
        /\ Doubles(12) /\ Doubles(13) /\ Doubles(14) /\ Doubles(15)
    BY SMT DEF Doubles
  <2>2. \A k \in 8..15 : \/ k = 8 \/ k = 9 \/ k = 10 \/ k = 11
                         \/ k = 12 \/ k = 13 \/ k = 14 \/ k = 15
    BY SMT
  <2>3. QED
    BY <2>1, <2>2, Zenon
<1>3. \A k \in 16..23 : Doubles(k)
  <2>1. /\ Doubles(16) /\ Doubles(17) /\ Doubles(18) /\ Doubles(19)
        /\ Doubles(20) /\ Doubles(21) /\ Doubles(22) /\ Doubles(23)
    BY SMT DEF Doubles
  <2>2. \A k \in 16..23 : \/ k = 16 \/ k = 17 \/ k = 18 \/ k = 19
                          \/ k = 20 \/ k = 21 \/ k = 22 \/ k = 23
    BY SMT
  <2>3. QED
    BY <2>1, <2>2, Zenon
<1>4. \A k \in 24..31 : Doubles(k)
  <2>1. /\ Doubles(24) /\ Doubles(25) /\ Doubles(26) /\ Doubles(27)
        /\ Doubles(28) /\ Doubles(29) /\ Doubles(30) /\ Doubles(31)
    BY SMT DEF Doubles
  <2>2. \A k \in 24..31 : \/ k = 24 \/ k = 25 \/ k = 26 \/ k = 27
                          \/ k = 28 \/ k = 29 \/ k = 30 \/ k = 31
    BY SMT
  <2>3. QED
    BY <2>1, <2>2, Zenon
<1>5. \A k \in 0..31 : k \in 0..7 \/ k \in 8..15 \/ k \in 16..23 \/ k \in 24..31
  BY SMT
<1>6. QED
  BY <1>1, <1>2, <1>3, <1>4, <1>5, Zenon

(* The bits of a word, divided in two.                                     *)
Factors(p, q) == p \in Nat /\ p > 0 /\ q \in Nat /\ q > 0 /\ p * q = Half

LEMMA MoveFactor ==
  ASSUME NEW m, NEW n, NEW p \in Nat, NEW q \in Nat,
         Factors(m, n), p = 2 * m, n = 2 * q
  PROVE  Factors(p, q)
<1>1. m \in Nat /\ m > 0 /\ n > 0 /\ m * n = Half
  BY DEF Factors
<1>2. p > 0 /\ q > 0
  BY <1>1, SMT
<1>3. m * (2 * q) = (2 * m) * q
  BY <1>1, SMT
<1>4. QED
  BY <1>1, <1>2, <1>3, Zenon DEF Factors

LEMMA WordPowers == \A c \in 0..WordBits : Factors(2^c, 2^(WordBits - c))
<1>1. WordBits \in Nat /\ WordBits <= 32
  BY Widths, SMT
<1>2. 2^0 = 1 /\ 2^WordBits = Half
  BY Widths, SMT DEF WordBits, Half
<1> DEFINE Has(c) == Factors(2^c, 2^(WordBits - c))
           Bad == { c \in 0..WordBits : ~ Has(c) }
<1> HIDE DEF Has
<1>3. SUFFICES ASSUME Bad # {} PROVE FALSE
  <2>1. Bad = {}
    BY <1>3
  <2>2. QED
    BY <2>1, Zenon DEF Has
<1>4. PICK c \in Bad : \A j \in Bad : c <= j
  <2>1. Bad \in SUBSET Nat
    BY <1>1
  <2>2. QED
    BY <1>3, <2>1, NatMin
<1>5. Has(0)
  <2>1. WordBits - 0 = WordBits
    BY <1>1
  <2>2. Factors(1, Half)
    BY WidthFacts, Widths, SMT DEF Factors
  <2>3. QED
    BY <1>2, <2>1, <2>2, Zenon DEF Has
<1>6. c # 0 /\ c - 1 \in 0..31 /\ WordBits - c \in 0..31 /\ c - 1 \in 0..WordBits
      /\ (c - 1) + 1 = c /\ (WordBits - c) + 1 = WordBits - (c - 1)
  BY <1>1, <1>4, <1>5
<1>7. Has(c - 1)
  BY <1>1, <1>4, <1>6
<1>8. Doubles(c - 1) /\ Doubles(WordBits - c)
  BY <1>6, Doubling, Zenon
<1>9. c = WordBits \/ c \in 0..31
  BY <1>1, <1>4
<1>10. 2^c = 2 * 2^(c - 1) /\ 2^(WordBits - (c - 1)) = 2 * 2^(WordBits - c) /\ 2^(WordBits - c) \in Nat
  BY <1>6, <1>8, Zenon DEF Doubles
<1>11. 2^c \in Nat
  BY <1>2, <1>9, Doubling, WidthFacts, Zenon DEF Doubles
<1>12. Has(c)
  BY <1>7, <1>10, <1>11, MoveFactor, Zenon DEF Has
<1>13. QED
  BY <1>4, <1>12

LEMMA Quotients ==
  ASSUME NEW v \in Nat, NEW n \in Nat, n > 0
  PROVE  /\ v \div n \in Nat /\ v % n \in Nat /\ v % n < n /\ v = (v \div n) * n + (v % n)
BY SMT

(* The quotient and the remainder are the only numbers that make v so.     *)
LEMMA Remainder ==
  ASSUME NEW n \in Nat, n > 0, NEW k \in Nat, NEW r \in Nat, r < n
  PROVE  (k * n + r) % n = r /\ (k * n + r) \div n = k
BY SMT

(* A word moved by p: what leaves it at the top, and what is left.         *)
LEMMA Moved ==
  ASSUME NEW p, NEW q, Factors(p, q), NEW v \in 0..(Half - 1)
  PROVE  /\ v % q \in Nat /\ v \div q \in Nat /\ v \div q < p
         /\ v * p = (v \div q) * Half + (v % q) * p
         /\ (v % q) * p \in Nat /\ (v % q) * p + p <= Half
         /\ (v * p) % Half = (v % q) * p
<1> DEFINE k == v \div q  r == v % q
<1>1. p \in Nat /\ p > 0 /\ q \in Nat /\ q > 0 /\ p * q = Half /\ Half \in Nat /\ v \in Nat /\ v < Half
  BY WidthFacts DEF Factors
<1>2. k \in Nat /\ r \in Nat /\ r < q /\ v = k * q + r
  BY <1>1, Quotients
<1> HIDE DEF k, r
<1>3. v * p = k * (p * q) + r * p
  BY <1>1, <1>2, SMT
<1>4. (r + 1) * p <= q * p
  BY <1>1, <1>2, SMT
<1>5. r * p \in Nat /\ (r + 1) * p = r * p + p /\ q * p = p * q
  BY <1>1, <1>2, SMT
<1>6. r * p + p <= Half
  BY <1>1, <1>4, <1>5
<1>7. k < p
  <2>1. k >= p => k * q >= p * q
    BY <1>1, <1>2, SMT
  <2>2. k * q \in Nat
    BY <1>1, <1>2, SMT
  <2>3. QED
    BY <1>1, <1>2, <2>1, <2>2
<1>8. v * p = k * Half + r * p
  BY <1>1, <1>3
<1>9. (k * Half + r * p) % Half = r * p
  <2>1. r * p < Half /\ Half > 0
    BY <1>1, <1>5, <1>6
  <2>2. QED
    BY <1>1, <1>2, <1>5, <2>1, Remainder
<1>10. QED
  BY <1>2, <1>5, <1>6, <1>7, <1>8, <1>9 DEF k, r

LEMMA Word ==
  ASSUME NEW m \in Nat, m < Half, NEW n \in Nat, n < Half
  PROVE  uint64(m, n) = [hi |-> m, lo |-> n] /\ uint64(m, n) \in Words
<1>1. m % Half = m /\ n % Half = n
  BY WidthFacts, SMT
<1>2. uint64(m, n) = [hi |-> m, lo |-> n]
  BY <1>1, Zenon DEF uint64
<1>3. m \in 0..(Half - 1) /\ n \in 0..(Half - 1)
  BY WidthFacts
<1>4. QED
  BY <1>2, <1>3 DEF Words

LEMMA Parts ==
  ASSUME NEW a \in Words
  PROVE  /\ a.hi \in 0..(Half - 1) /\ a.lo \in 0..(Half - 1)
         /\ a.hi \in Nat /\ a.lo \in Nat /\ a.hi < Half /\ a.lo < Half
         /\ Val(a) \in Nat /\ Val(a) < Modulus
<1>1. a.hi \in 0..(Half - 1) /\ a.lo \in 0..(Half - 1)
  BY DEF Words
<1>2. \A m, n \in 0..(Half - 1) : m * Half + n \in Nat /\ m * Half + n < Half * Half
  BY Widths, SMT
<1>3. QED
  BY <1>1, <1>2, WidthFacts DEF Val, Modulus

(* Left by less than a word: the bits that leave the low word arrive.      *)
LEMMA LeftInWord ==
  ASSUME NEW a \in Words, NEW c \in Nat, c < WordBits,
         NEW p, p = 2^c, NEW q, q = 2^(WordBits - c)
  PROVE  /\ shlq(a, c) \in Words
         /\ Val(shlq(a, c)) = (Val(a) % (Half * q)) * p
<1> DEFINE h0 == a.hi % q  l1 == a.lo \div q  l0 == a.lo % q
<1>1. Factors(p, q)
  <2>1. c \in 0..WordBits
    BY WidthFacts, Widths, SMT
  <2>2. QED
    BY <2>1, WordPowers, Zenon
<1>2. p \in Nat /\ p > 0 /\ q \in Nat /\ q > 0 /\ p * q = Half /\ Half \in Nat
  BY <1>1, WidthFacts DEF Factors
<1>3. /\ h0 \in Nat /\ l0 \in Nat /\ l1 \in Nat /\ l1 < p /\ h0 < q
      /\ h0 * p \in Nat /\ h0 * p + p <= Half /\ l0 * p \in Nat /\ l0 * p + p <= Half
      /\ (a.hi * p) % Half = h0 * p /\ (a.lo * p) % Half = l0 * p
      /\ a.lo * p = l1 * Half + l0 * p
  <2>1. h0 < q
    BY <1>2, Parts, Quotients
  <2>2. QED
    BY <1>1, <2>1, Parts, Moved
<1>4. shlq(a, c) = uint64(((a.hi * p) % Half) + l1, a.lo * p)
  <2>1. ~ (c >= 2 * WordBits) /\ ~ (c >= WordBits)
    BY Widths, SMT
  <2>2. QED
    BY <2>1, Zenon DEF shlq
<1>5. a.hi \in Nat /\ a.lo \in Nat /\ a.lo < Half /\ Val(a) = a.hi * Half + a.lo
  BY Parts DEF Val
<1>6. a.hi = (a.hi \div q) * q + h0 /\ a.hi \div q \in Nat
  BY <1>2, <1>5, Quotients
<1> DEFINE k == a.hi \div q
<1> HIDE DEF h0, l0, l1, k
<1>7. shlq(a, c) = [hi |-> h0 * p + l1, lo |-> l0 * p] /\ shlq(a, c) \in Words
  <2>1. h0 * p + l1 \in Nat /\ h0 * p + l1 < Half /\ l0 * p < Half
    BY <1>2, <1>3
  <2>2. shlq(a, c) = [hi |-> (h0 * p + l1) % Half, lo |-> l0 * p]
    BY <1>3, <1>4, Zenon DEF uint64
  <2>3. shlq(a, c) = uint64(h0 * p + l1, l0 * p)
    <3>1. (l0 * p) % Half = l0 * p
      BY <1>2, <1>3, <2>1, SMT
    <3>2. QED
      BY <2>2, <3>1, Zenon DEF uint64
  <2>4. QED
    BY <1>3, <2>1, <2>3, Word
<1>8. Val(shlq(a, c)) = (h0 * p + l1) * Half + l0 * p
  BY <1>7 DEF Val
<1>9. (h0 * p + l1) * Half + l0 * p = (h0 * Half + a.lo) * p
  <2>1. (h0 * p + l1) * Half = (h0 * Half) * p + l1 * Half
    BY <1>2, <1>3, SMT
  <2>2. (h0 * Half + a.lo) * p = (h0 * Half) * p + a.lo * p
    BY <1>2, <1>3, <1>5, SMT
  <2>3. (h0 * Half) * p \in Nat /\ l1 * Half \in Nat /\ a.lo * p \in Nat
    <3>1. \A m, n \in Nat : m * n \in Nat
      BY SMT
    <3>2. QED
      BY <1>2, <1>3, <1>5, <3>1, Zenon
  <2>4. QED
    BY <1>3, <2>1, <2>2, <2>3
<1>10. Val(a) % (Half * q) = h0 * Half + a.lo
  <2>1. a.hi * Half = k * (Half * q) + h0 * Half
    BY <1>2, <1>3, <1>6, SMT DEF k
  <2>2. (h0 + 1) * Half <= q * Half
    BY <1>2, <1>3, SMT
  <2>3. /\ (h0 + 1) * Half = h0 * Half + Half /\ q * Half = Half * q /\ h0 * Half \in Nat
        /\ Half * q \in Nat /\ k * (Half * q) \in Nat /\ Half * q > 0
    BY <1>2, <1>3, <1>6, SMT DEF k
  <2> DEFINE n == Half * q  r == h0 * Half + a.lo
  <2>4. n \in Nat /\ n > 0 /\ r \in Nat /\ r < n /\ Val(a) = k * n + r
    BY <1>2, <1>5, <2>1, <2>2, <2>3
  <2>5. k \in Nat
    BY <1>6 DEF k
  <2> HIDE DEF n, r
  <2>6. (k * n + r) % n = r
    BY <2>4, <2>5, Remainder
  <2>7. QED
    BY <2>4, <2>6, Zenon DEF n, r
<1>11. QED
  BY <1>7, <1>8, <1>9, <1>10, Zenon

(* Left by a word or more: the low word moves up.                          *)
LEMMA LeftByWord ==
  ASSUME NEW a \in Words, NEW c \in Nat, c >= WordBits, c < 2 * WordBits,
         NEW p, p = 2^(c - WordBits), NEW q, q = 2^(2 * WordBits - c)
  PROVE  /\ shlq(a, c) \in Words
         /\ Val(shlq(a, c)) = (Val(a) % q) * (Half * p)
<1> DEFINE l0 == a.lo % q  k == a.lo \div q
<1>1. Factors(p, q)
  <2>1. c - WordBits \in 0..WordBits /\ WordBits - (c - WordBits) = 2 * WordBits - c
    BY WidthFacts, Widths, SMT
  <2>2. QED
    BY <2>1, WordPowers, Zenon
<1>2. p \in Nat /\ p > 0 /\ q \in Nat /\ q > 0 /\ p * q = Half /\ Half \in Nat
  BY <1>1, WidthFacts DEF Factors
<1>3. /\ l0 \in Nat /\ l0 < q /\ l0 * p \in Nat /\ l0 * p + p <= Half /\ (a.lo * p) % Half = l0 * p
      /\ k \in Nat /\ a.lo = k * q + l0
  <2>1. l0 < q /\ k \in Nat /\ a.lo = k * q + l0
    BY <1>2, Parts, Quotients
  <2>2. QED
    BY <1>1, <2>1, Parts, Moved
<1>4. shlq(a, c) = uint64(a.lo * p, 0)
  <2>1. ~ (c >= 2 * WordBits)
    BY Widths, SMT
  <2>2. QED
    BY <2>1, Zenon DEF shlq
<1>5. a.hi \in Nat /\ a.lo \in Nat /\ Val(a) = a.hi * Half + a.lo
  BY Parts DEF Val
<1> HIDE DEF l0, k
<1>6. shlq(a, c) = [hi |-> l0 * p, lo |-> 0] /\ shlq(a, c) \in Words
  <2>1. l0 * p < Half /\ 0 \in Nat /\ 0 < Half
    BY <1>2, <1>3
  <2>2. (l0 * p) % Half = l0 * p
    BY <1>2, <1>3, <2>1, SMT
  <2>3. shlq(a, c) = uint64(l0 * p, 0)
    BY <1>3, <1>4, <2>2, Zenon DEF uint64
  <2>4. QED
    BY <1>3, <2>1, <2>3, Word
<1>7. Val(shlq(a, c)) = l0 * (Half * p)
  <2>1. Val(shlq(a, c)) = (l0 * p) * Half + 0
    BY <1>6 DEF Val
  <2>2. (l0 * p) * Half = l0 * (Half * p)
    BY <1>2, <1>3, SMT
  <2>3. (l0 * p) * Half \in Nat
    BY <1>2, <1>3, SMT
  <2>4. QED
    BY <2>1, <2>2, <2>3
<1>8. Val(a) % q = l0
  <2> DEFINE m == a.hi * p + k
  <2>1. a.hi * Half = (a.hi * p) * q
    BY <1>2, <1>5, SMT
  <2>2. a.hi * p \in Nat
    BY <1>2, <1>5, SMT
  <2>3. m \in Nat /\ m * q = (a.hi * p) * q + k * q
    BY <1>2, <1>3, <2>2, SMT
  <2>4. (a.hi * p) * q \in Nat /\ k * q \in Nat
    BY <1>2, <1>3, <2>2, SMT
  <2>5. Val(a) = m * q + l0
    BY <1>3, <1>5, <2>1, <2>3, <2>4
  <2> HIDE DEF m
  <2>6. (m * q + l0) % q = l0
    BY <1>2, <1>3, <2>3, Remainder
  <2>7. QED
    BY <2>5, <2>6, Zenon
<1>9. QED
  BY <1>6, <1>7, <1>8, Zenon

LEMMA Regroup == \A k, m, n \in Nat : (k * m) * n = k * (n * m)
BY SMT

LEMMA Spread == \A k, l, m, n \in Nat : (k + (l + m)) * n = k * n + l * n + m * n
BY SMT

LEMMA Times == \A m, n \in Nat : m * n \in Nat
BY SMT

LEMMA NoGreater ==
  ASSUME NEW v \in Nat, NEW n \in Nat, n > 0
  PROVE  v \div n <= v
<1> DEFINE k == v \div n
<1>1. k \in Nat /\ v % n \in Nat /\ v = k * n + (v % n)
  BY Quotients
<1> HIDE DEF k
<1>2. k <= k * n /\ k * n \in Nat
  BY <1>1, SMT
<1>3. QED
  BY <1>1, <1>2 DEF k

(* Right by less than a word: the bits that leave the high word arrive.    *)
LEMMA RightInWord ==
  ASSUME NEW a \in Words, NEW c \in Nat, c < WordBits,
         NEW p, p = 2^c, NEW q, q = 2^(WordBits - c)
  PROVE  /\ shrlq(a, c) \in Words
         /\ Val(shrlq(a, c)) = Val(a) \div p
<1> DEFINE h1 == a.hi \div p  h0 == a.hi % p  l1 == a.lo \div p  l0 == a.lo % p
<1>1. Factors(p, q) /\ Factors(q, p)
  <2>1. c \in 0..WordBits
    BY WidthFacts, Widths, SMT
  <2>2. Factors(p, q)
    BY <2>1, WordPowers, Zenon
  <2>3. QED
    BY <2>2, SMT DEF Factors
<1>2. p \in Nat /\ p > 0 /\ q \in Nat /\ q > 0 /\ p * q = Half /\ Half \in Nat
  BY <1>1, WidthFacts DEF Factors
<1>3. /\ h0 \in Nat /\ h1 \in Nat /\ l0 \in Nat /\ l1 \in Nat /\ l1 < q /\ l0 < p
      /\ h0 * q \in Nat /\ h0 * q + q <= Half /\ (a.hi * q) % Half = h0 * q
      /\ a.hi * q = h1 * Half + h0 * q /\ a.hi = h1 * p + h0 /\ a.lo = l1 * p + l0
  <2>1. l0 < p /\ a.hi = h1 * p + h0 /\ a.lo = l1 * p + l0
    BY <1>2, Parts, Quotients
  <2>2. QED
    BY <1>1, <2>1, Parts, Moved
<1>4. shrlq(a, c) = uint64(h1, l1 + ((a.hi * q) % Half))
  <2>1. ~ (c >= 2 * WordBits) /\ ~ (c >= WordBits)
    BY Widths, SMT
  <2>2. QED
    BY <2>1, Zenon DEF shrlq
<1>5. a.hi \in Nat /\ a.lo \in Nat /\ a.hi < Half /\ Val(a) = a.hi * Half + a.lo
  BY Parts DEF Val
<1> HIDE DEF h0, h1, l0, l1
<1>6. h1 <= a.hi
  BY <1>2, <1>5, NoGreater DEF h1
<1>7. shrlq(a, c) = [hi |-> h1, lo |-> l1 + h0 * q] /\ shrlq(a, c) \in Words
  <2>1. h1 < Half /\ l1 + h0 * q \in Nat /\ l1 + h0 * q < Half
    BY <1>2, <1>3, <1>5, <1>6
  <2>2. shrlq(a, c) = uint64(h1, l1 + h0 * q)
    BY <1>3, <1>4, Zenon
  <2>3. QED
    BY <1>3, <2>1, <2>2, Word
<1> DEFINE v == h1 * Half + (l1 + h0 * q)
<1>8. Val(shrlq(a, c)) = v
  BY <1>7 DEF Val
<1>9. Val(a) = v * p + l0 /\ v \in Nat
  <2>1. /\ h1 * Half \in Nat /\ h0 * q \in Nat /\ l1 * p \in Nat /\ h0 * Half \in Nat
        /\ (h1 * Half) * p \in Nat /\ (h0 * q) * p \in Nat
    BY <1>2, <1>3, Times, Zenon
  <2>2. v * p = (h1 * Half) * p + l1 * p + (h0 * q) * p
    <3>1. l1 \in Nat /\ p \in Nat
      BY <1>2, <1>3
    <3>2. QED
      BY <2>1, <3>1, Spread
  <2>3. (h0 * q) * p = h0 * Half
    <3>1. h0 \in Nat /\ q \in Nat /\ p \in Nat
      BY <1>2, <1>3
    <3>2. (h0 * q) * p = h0 * (p * q)
      BY <3>1, Regroup
    <3>3. QED
      BY <1>2, <3>2, Zenon
  <2>4. a.hi * Half = (h1 * Half) * p + h0 * Half
    BY <1>2, <1>3, SMT
  <2>5. v * p + l0 = (h1 * Half) * p + h0 * Half + a.lo
    <3>1. a.lo = l1 * p + l0 /\ l0 \in Nat
      BY <1>3
    <3> HIDE DEF v
    <3>2. QED
      BY <2>1, <2>2, <2>3, <3>1
  <2>6. v \in Nat
    BY <1>3, <2>1
  <2>7. QED
    BY <1>5, <2>4, <2>5, <2>6, Zenon
<1> HIDE DEF v
<1>10. (v * p + l0) \div p = v
  <2>1. p \in Nat /\ p > 0 /\ l0 \in Nat /\ l0 < p /\ v \in Nat
    BY <1>2, <1>3, <1>9
  <2>2. QED
    BY <2>1, Remainder, Zenon
<1>11. QED
  BY <1>7, <1>8, <1>9, <1>10, Zenon

(* Right by a word or more: the high word moves down.                      *)
LEMMA RightByWord ==
  ASSUME NEW a \in Words, NEW c \in Nat, c >= WordBits, c < 2 * WordBits,
         NEW p, p = 2^(c - WordBits)
  PROVE  /\ shrlq(a, c) \in Words
         /\ Val(shrlq(a, c)) = Val(a) \div (Half * p)
<1> DEFINE h1 == a.hi \div p  h0 == a.hi % p
<1>1. p \in Nat /\ p > 0 /\ Half \in Nat /\ Half > 0
  <2>1. c - WordBits \in 0..WordBits
    BY WidthFacts, Widths, SMT
  <2>2. Factors(p, 2^(WordBits - (c - WordBits)))
    BY <2>1, WordPowers, Zenon
  <2>3. QED
    BY <2>2, Widths, SMT DEF Factors
<1>2. a.hi \in Nat /\ a.lo \in Nat /\ a.hi < Half /\ a.lo < Half /\ Val(a) = a.hi * Half + a.lo
  BY Parts DEF Val
<1>3. h0 \in Nat /\ h1 \in Nat /\ h0 < p /\ a.hi = h1 * p + h0
  BY <1>1, <1>2, Quotients
<1>4. shrlq(a, c) = uint64(0, h1)
  <2>1. ~ (c >= 2 * WordBits)
    BY Widths, SMT
  <2>2. QED
    BY <2>1, Zenon DEF shrlq
<1> HIDE DEF h0, h1
<1>5. h1 <= a.hi
  BY <1>1, <1>2, NoGreater DEF h1
<1>6. shrlq(a, c) = [hi |-> 0, lo |-> h1] /\ shrlq(a, c) \in Words
  <2>1. h1 < Half /\ 0 \in Nat /\ 0 < Half
    BY <1>1, <1>2, <1>3, <1>5
  <2>2. QED
    BY <1>3, <1>4, <2>1, Word
<1>7. Val(shrlq(a, c)) = h1
  BY <1>1, <1>3, <1>6, SMT DEF Val
<1> DEFINE n == Half * p  r == h0 * Half + a.lo
<1>8. n \in Nat /\ n > 0 /\ r \in Nat /\ r < n
  <2>1. (h0 + 1) * Half <= p * Half
    BY <1>1, <1>3, SMT
  <2>2. (h0 + 1) * Half = h0 * Half + Half /\ p * Half = Half * p /\ h0 * Half \in Nat
        /\ Half * p \in Nat /\ Half * p > 0
    BY <1>1, <1>3, SMT
  <2>3. QED
    BY <1>1, <1>2, <2>1, <2>2
<1>9. Val(a) = h1 * n + r
  <2>1. a.hi * Half = h1 * (Half * p) + h0 * Half
    BY <1>1, <1>3, SMT
  <2>2. h1 * (Half * p) \in Nat /\ h0 * Half \in Nat
    BY <1>1, <1>3, Times, Zenon
  <2>3. QED
    BY <1>2, <2>1, <2>2
<1> HIDE DEF r
<1>10. (h1 * n + r) \div n = h1
  <2> HIDE DEF n
  <2>1. QED
    BY <1>3, <1>8, Remainder
<1>11. Val(a) \div n = h1
  BY <1>9, <1>10, Zenon
<1>12. QED
  BY <1>6, <1>7, <1>11, Zenon

LEMMA NoWord ==
  ASSUME NEW c \in Nat, c >= 2 * WordBits
  PROVE  uint64(0, 0) \in Words /\ Val(uint64(0, 0)) = 0
<1>1. 0 \in Nat /\ 0 < Half
  BY Widths, SMT
<1>2. uint64(0, 0) = [hi |-> 0, lo |-> 0] /\ uint64(0, 0) \in Words
  BY <1>1, Word, Zenon
<1>3. Val(uint64(0, 0)) = 0 * Half + 0
  BY <1>2 DEF Val
<1>4. QED
  BY <1>2, <1>3, WidthFacts

LEMMA PowerAbove ==
  ASSUME NEW c \in Nat, c >= WordBits
  PROVE  Power(c) = Half * 2^(c - WordBits)
<1>0. WordBits \in Nat
  BY Widths, SMT
<1>1. CASE c = WordBits
  <2>1. c <= WordBits /\ c - WordBits = 0
    BY <1>0, <1>1
  <2>2. 2^0 = 1 /\ 2^WordBits = Half /\ Half * 1 = Half
    BY Widths, SMT DEF WordBits, Half
  <2>3. QED
    BY <1>1, <2>1, <2>2, Zenon DEF Power
<1>2. CASE c # WordBits
  <2>1. ~ (c <= WordBits)
    BY <1>0, <1>2
  <2>2. QED
    BY <2>1, Zenon DEF Power
<1>3. QED
  BY <1>1, <1>2

(* A shift makes room for the bits that a product by a power of two has,   *)
(* and keeps those that fit in a number.                                   *)
LEMMA LeftExact ==
  ASSUME NEW a \in Words, NEW c \in Nat
  PROVE  /\ shlq(a, c) \in Words
         /\ Val(shlq(a, c)) = IF c >= 2 * WordBits THEN 0
                              ELSE (Val(a) % Power(2 * WordBits - c)) * Power(c)
<1>1. WordBits \in Nat /\ WordBits > 0
  BY Widths, SMT
<1>2. CASE c >= 2 * WordBits
  <2>1. shlq(a, c) = uint64(0, 0)
    BY <1>2, Zenon DEF shlq
  <2>2. QED
    BY <1>2, <2>1, NoWord, Zenon
<1>3. CASE c >= WordBits /\ ~ (c >= 2 * WordBits)
  <2>1. Power(2 * WordBits - c) = 2^(2 * WordBits - c)
    <3>1. 2 * WordBits - c <= WordBits
      BY <1>1, <1>3
    <3>2. QED
      BY <3>1, Zenon DEF Power
  <2>2. Power(c) = Half * 2^(c - WordBits)
    BY <1>3, PowerAbove, Zenon
  <2>3. c < 2 * WordBits
    BY <1>1, <1>3
  <2>4. /\ shlq(a, c) \in Words
        /\ Val(shlq(a, c)) = (Val(a) % 2^(2 * WordBits - c)) * (Half * 2^(c - WordBits))
    BY <1>3, <2>3, LeftByWord
  <2>5. QED
    BY <1>3, <2>1, <2>2, <2>4, Zenon
<1>4. CASE ~ (c >= WordBits)
  <2>1. Power(c) = 2^c
    <3>1. c <= WordBits
      BY <1>1, <1>4
    <3>2. QED
      BY <3>1, Zenon DEF Power
  <2>2. Power(2 * WordBits - c) = Half * 2^(WordBits - c)
    <3>1. ~ (2 * WordBits - c <= WordBits) /\ (2 * WordBits - c) - WordBits = WordBits - c
      BY <1>1, <1>4
    <3>2. QED
      BY <3>1, Zenon DEF Power
  <2>3. c < WordBits /\ ~ (c >= 2 * WordBits)
    BY <1>1, <1>4
  <2>4. /\ shlq(a, c) \in Words
        /\ Val(shlq(a, c)) = (Val(a) % (Half * 2^(WordBits - c))) * 2^c
    BY <2>3, LeftInWord
  <2>5. QED
    BY <2>1, <2>2, <2>3, <2>4, Zenon
<1>5. QED
  BY <1>2, <1>3, <1>4, Zenon

LEMMA RightExact ==
  ASSUME NEW a \in Words, NEW c \in Nat
  PROVE  /\ shrlq(a, c) \in Words
         /\ Val(shrlq(a, c)) = IF c >= 2 * WordBits THEN 0 ELSE Val(a) \div Power(c)
<1>1. WordBits \in Nat /\ WordBits > 0
  BY Widths, SMT
<1>2. CASE c >= 2 * WordBits
  <2>1. shrlq(a, c) = uint64(0, 0)
    BY <1>2, Zenon DEF shrlq
  <2>2. QED
    BY <1>2, <2>1, NoWord, Zenon
<1>3. CASE c >= WordBits /\ ~ (c >= 2 * WordBits)
  <2>1. Power(c) = Half * 2^(c - WordBits)
    BY <1>3, PowerAbove, Zenon
  <2>2. c < 2 * WordBits
    BY <1>1, <1>3
  <2>3. QED
    BY <1>3, <2>1, <2>2, RightByWord, Zenon
<1>4. CASE ~ (c >= WordBits)
  <2>1. Power(c) = 2^c
    <3>1. c <= WordBits
      BY <1>1, <1>4
    <3>2. QED
      BY <3>1, Zenon DEF Power
  <2>2. c < WordBits /\ ~ (c >= 2 * WordBits)
    BY <1>1, <1>4
  <2>3. QED
    BY <2>1, <2>2, RightInWord, Zenon
<1>5. QED
  BY <1>2, <1>3, <1>4, Zenon

----------------------------------------------------------------------------
(* Integers that are the same modulo 2^64.                                 *)
Same(m, n) == \E k \in Int : m = n + k * Modulus

LEMMA SameItself == \A m \in Int : Same(m, m)
<1>1. \A m \in Int : m = m + 0 * Modulus
  BY Widths, SMT DEF Modulus
<1>2. QED
  BY <1>1 DEF Same

LEMMA SameSum ==
  ASSUME NEW i \in Int, NEW j \in Int, NEW m \in Int, NEW n \in Int, Same(i, j), Same(m, n)
  PROVE  Same(i + m, j + n)
<1>1. PICK k \in Int : i = j + k * Modulus
  BY DEF Same
<1>2. PICK l \in Int : m = n + l * Modulus
  BY DEF Same
<1>3. Modulus \in Int
  BY WidthFacts, SMT DEF Modulus
<1>4. k + l \in Int /\ k * Modulus \in Int /\ l * Modulus \in Int
      /\ (k + l) * Modulus = k * Modulus + l * Modulus
  BY <1>3, SMT
<1>5. i + m = j + n + (k + l) * Modulus
  BY <1>1, <1>2, <1>4
<1>6. QED
  BY <1>4, <1>5 DEF Same

LEMMA SameTrans ==
  ASSUME NEW i \in Int, NEW j \in Int, NEW n \in Int, Same(i, j), Same(j, n)
  PROVE  Same(i, n)
<1>1. PICK k \in Int : i = j + k * Modulus
  BY DEF Same
<1>2. PICK l \in Int : j = n + l * Modulus
  BY DEF Same
<1>3. Modulus \in Int
  BY WidthFacts, SMT DEF Modulus
<1>4. k + l \in Int /\ k * Modulus \in Int /\ l * Modulus \in Int
      /\ (k + l) * Modulus = k * Modulus + l * Modulus
  BY <1>3, SMT
<1>5. i = n + (k + l) * Modulus
  BY <1>1, <1>2, <1>4
<1>6. QED
  BY <1>4, <1>5 DEF Same

LEMMA SameTimes ==
  ASSUME NEW m \in Int, NEW n \in Int, NEW f \in Int, Same(m, n)
  PROVE  Same(m * f, n * f)
<1>1. PICK k \in Int : m = n + k * Modulus
  BY DEF Same
<1>2. Modulus \in Int
  BY WidthFacts, SMT DEF Modulus
<1>3. k * f \in Int /\ (n + k * Modulus) * f = n * f + (k * f) * Modulus
  BY <1>2, SMT
<1>4. QED
  BY <1>1, <1>3 DEF Same

(* Of the numbers that are the same, one is less than 2^64.                *)
LEMMA SameRemainder ==
  ASSUME NEW m \in Nat, m < Modulus, NEW n \in Nat, Same(m, n)
  PROVE  m = n % Modulus
<1>1. PICK k \in Int : m = n + k * Modulus
  BY DEF Same
<1>2. Modulus \in Nat /\ Modulus > 0
  BY Widths, SMT DEF Modulus
<1> DEFINE l == 0 - k
<1>3. l \in Int /\ l * Modulus \in Int /\ l * Modulus = 0 - k * Modulus
  BY <1>2, SMT
<1>4. n = l * Modulus + m
  BY <1>1, <1>2, <1>3, SMT
<1> HIDE DEF l
<1>5. l >= 0
  <2>1. l < 0 => l * Modulus <= 0 - Modulus
    BY <1>2, <1>3, SMT
  <2>2. QED
    BY <1>2, <1>3, <1>4, <2>1
<1>6. (l * Modulus + m) % Modulus = m
  BY <1>2, <1>3, <1>5, Remainder
<1>7. QED
  BY <1>4, <1>6, Zenon

(* What is lost of a number when only its low part is moved up.            *)
LEMMA SameLowPart ==
  ASSUME NEW v \in Nat, NEW r \in Nat, r > 0, NEW p \in Nat, r * p = Modulus
  PROVE  Same((v % r) * p, v * p)
<1> DEFINE k == v \div r  w == v % r
<1>1. k \in Nat /\ w \in Nat /\ v = k * r + w
  BY Quotients
<1> HIDE DEF k, w
<1>2. (k * r + w) * p = k * (r * p) + w * p
  BY <1>1, SMT
<1>3. 0 - k \in Int /\ k * Modulus \in Int /\ (0 - k) * Modulus = 0 - k * Modulus /\ w * p \in Int
  BY <1>1, WidthFacts, SMT DEF Modulus
<1>4. w * p = v * p + (0 - k) * Modulus
  BY <1>1, <1>2, <1>3
<1>5. Same(w * p, v * p)
  BY <1>3, <1>4 DEF Same
<1>6. QED
  BY <1>5 DEF w

LEMMA SameAdded ==
  ASSUME NEW a \in Words, NEW b \in Words
  PROVE  addq(a, b) \in Words /\ Same(Val(addq(a, b)), Val(a) + Val(b))
<1>1. addq(a, b) \in Words
  BY AddExact
<1>2. PICK c \in {0, 1} : Val(a) + Val(b) = c * Modulus + Val(addq(a, b))
  BY AddExact DEF Summed
<1>3. Val(a) \in Nat /\ Val(b) \in Nat /\ Val(addq(a, b)) \in Nat
  BY <1>1, Parts
<1>4. Modulus \in Nat
  BY WidthFacts, SMT DEF Modulus
<1>5. 0 - c \in Int /\ Val(addq(a, b)) = Val(a) + Val(b) + (0 - c) * Modulus
  BY <1>2, <1>3, <1>4, SMT
<1>6. QED
  BY <1>1, <1>5 DEF Same

LEMMA LimbPowers ==
  /\ Limb \in Nat /\ Limb > 0 /\ Half \in Nat /\ Half > 0 /\ Modulus \in Nat /\ Modulus > 0
  /\ Half = Limb * Limb /\ Modulus = Half * Half
  /\ LimbBits \in Nat /\ WordBits = 2 * LimbBits /\ LimbBits > 0
  /\ Power(LimbBits) = Limb /\ Power(2 * LimbBits) = Half /\ Power(3 * LimbBits) = Half * Limb
<1>1. /\ Limb \in Nat /\ Limb > 0 /\ Half \in Nat /\ Half > 0 /\ Modulus \in Nat /\ Modulus > 0
      /\ Half = Limb * Limb
      /\ LimbBits \in Nat /\ WordBits = 2 * LimbBits /\ LimbBits > 0
  BY Widths, SMT DEF Modulus
<1>2. /\ LimbBits <= WordBits /\ 2 * LimbBits <= WordBits /\ ~ (3 * LimbBits <= WordBits)
      /\ 3 * LimbBits - WordBits = LimbBits
  BY <1>1
<1>3. QED
  BY <1>1, <1>2, Zenon DEF Power, Limb, Half, Modulus

LEMMA SameShifted ==
  ASSUME NEW a \in Words, NEW c \in Nat, c < 2 * WordBits,
         NEW p \in Nat, NEW r \in Nat, r > 0,
         p = Power(c), r = Power(2 * WordBits - c), r * p = Modulus
  PROVE  shlq(a, c) \in Words /\ Same(Val(shlq(a, c)), Val(a) * p)
<1>1. shlq(a, c) \in Words /\ Val(shlq(a, c)) = (Val(a) % r) * p
  <2>1. ~ (c >= 2 * WordBits)
    BY Widths, SMT
  <2>2. QED
    BY <2>1, LeftExact, Zenon
<1>2. Val(a) \in Nat
  BY Parts
<1>3. Same((Val(a) % r) * p, Val(a) * p)
  BY <1>2, SameLowPart
<1>4. QED
  BY <1>1, <1>3, Zenon

LEMMA LimbsShifted ==
  ASSUME NEW a \in Words
  PROVE  /\ shlq(a, LimbBits) \in Words /\ Same(Val(shlq(a, LimbBits)), Val(a) * Limb)
         /\ shlq(a, 2 * LimbBits) \in Words /\ Same(Val(shlq(a, 2 * LimbBits)), Val(a) * Half)
         /\ shlq(a, 3 * LimbBits) \in Words
         /\ Same(Val(shlq(a, 3 * LimbBits)), Val(a) * (Half * Limb))
<1>1. /\ 2 * WordBits - LimbBits = 3 * LimbBits /\ 2 * WordBits - 2 * LimbBits = 2 * LimbBits
      /\ 2 * WordBits - 3 * LimbBits = LimbBits
      /\ LimbBits \in Nat /\ 2 * LimbBits \in Nat /\ 3 * LimbBits \in Nat
      /\ LimbBits < 2 * WordBits /\ 2 * LimbBits < 2 * WordBits /\ 3 * LimbBits < 2 * WordBits
  BY LimbPowers
<1>2. /\ Half * Limb \in Nat /\ Half * Limb > 0
      /\ (Half * Limb) * Limb = Modulus /\ Limb * (Half * Limb) = Modulus
  BY Widths, SMT DEF Modulus
<1>3. shlq(a, LimbBits) \in Words /\ Same(Val(shlq(a, LimbBits)), Val(a) * Limb)
  <2>1. Limb = Power(LimbBits) /\ Half * Limb = Power(2 * WordBits - LimbBits)
    BY <1>1, LimbPowers, Zenon
  <2>2. QED
    BY <1>1, <1>2, <2>1, LimbPowers, SameShifted
<1>4. shlq(a, 2 * LimbBits) \in Words /\ Same(Val(shlq(a, 2 * LimbBits)), Val(a) * Half)
  <2>1. Half = Power(2 * LimbBits) /\ Half = Power(2 * WordBits - 2 * LimbBits)
    BY <1>1, LimbPowers, Zenon
  <2>2. QED
    BY <1>1, <1>2, <2>1, LimbPowers, SameShifted
<1>5. /\ shlq(a, 3 * LimbBits) \in Words
      /\ Same(Val(shlq(a, 3 * LimbBits)), Val(a) * (Half * Limb))
  <2>1. Half * Limb = Power(3 * LimbBits) /\ Limb = Power(2 * WordBits - 3 * LimbBits)
    BY <1>1, LimbPowers, Zenon
  <2>2. QED
    BY <1>1, <1>2, <2>1, LimbPowers, SameShifted
<1>6. QED
  BY <1>3, <1>4, <1>5

(* The product of two limbs fits in a word.                                *)
LEMMA PartialProduct ==
  ASSUME NEW i \in 0..(Limb - 1), NEW j \in 0..(Limb - 1)
  PROVE  /\ i * j \in Nat
         /\ uint64(0, i * j) \in Words /\ Val(uint64(0, i * j)) = i * j
<1>1. i * j \in Nat /\ i * j < Half
  <2>1. i * j <= (Limb - 1) * (Limb - 1) /\ i * j \in Nat
    BY LimbPowers, SMT
  <2>2. (Limb - 1) * (Limb - 1) < Half /\ (Limb - 1) * (Limb - 1) \in Nat
    BY Widths, SMT
  <2>3. QED
    BY <2>1, <2>2, LimbPowers
<1>2. 0 \in Nat /\ 0 < Half
  BY LimbPowers
<1>3. uint64(0, i * j) = [hi |-> 0, lo |-> i * j] /\ uint64(0, i * j) \in Words
  BY <1>1, <1>2, Word
<1>4. Val(uint64(0, i * j)) = 0 * Half + i * j
  BY <1>3 DEF Val
<1>5. QED
  BY <1>1, <1>3, <1>4, LimbPowers

(* A sum of numbers that stand for other sums.                             *)
LEMMA SameMore ==
  ASSUME NEW a \in Words, NEW b \in Words, NEW m \in Nat, NEW n \in Nat,
         Same(Val(a), m), Same(Val(b), n)
  PROVE  addq(a, b) \in Words /\ Same(Val(addq(a, b)), m + n)
<1>1. addq(a, b) \in Words /\ Same(Val(addq(a, b)), Val(a) + Val(b))
  BY SameAdded
<1>2. Val(a) \in Int /\ Val(b) \in Int /\ Val(addq(a, b)) \in Int
  BY <1>1, Parts
<1>3. Same(Val(a) + Val(b), m + n)
  BY <1>2, SameSum
<1>4. QED
  BY <1>1, <1>2, <1>3, SameTrans

(* The partial products of limbs x and y, by their weight.                 *)
Weight2(x, y) == x[1] * y[2] + x[2] * y[1]
Weight3(x, y) == x[3] * y[1] + x[2] * y[2] + x[1] * y[3]
Weight4(x, y) == x[4] * y[1] + x[3] * y[2] + x[2] * y[3] + x[1] * y[4]
Long(x, y) ==
  x[1] * y[1] + Weight2(x, y) * Limb + Weight3(x, y) * Half + Weight4(x, y) * (Half * Limb)

LEMMA LongMultiplication ==
  ASSUME NEW a \in Words, NEW b \in Words
  PROVE  /\ mulq(a, b) \in Words
         /\ Long(Limbs(a), Limbs(b)) \in Nat
         /\ Same(Val(mulq(a, b)), Long(Limbs(a), Limbs(b)))
<1> DEFINE x == Limbs(a)  y == Limbs(b)
           p(i, j) == uint64(0, x[i] * y[j])
           p16 == addq(p(1, 2), p(2, 1))
           p32 == addq(addq(p(3, 1), p(2, 2)), p(1, 3))
           p48 == addq(addq(addq(p(4, 1), p(3, 2)), p(2, 3)), p(1, 4))
           s16 == shlq(p16, LimbBits)
           s32 == shlq(p32, 2 * LimbBits)
           s48 == shlq(p48, 3 * LimbBits)
<1>1. mulq(a, b) = addq(addq(addq(p(1, 1), s16), s32), s48)
  BY DEF mulq
<1>2. x \in [1..4 -> 0..(Limb - 1)] /\ y \in [1..4 -> 0..(Limb - 1)]
  BY LimbsOf
<1> HIDE DEF x, y
<1>3. \A i, j \in 1..4 : /\ x[i] * y[j] \in Nat /\ p(i, j) \in Words
                         /\ Val(p(i, j)) = x[i] * y[j] /\ Same(Val(p(i, j)), x[i] * y[j])
  <2> SUFFICES ASSUME NEW i \in 1..4, NEW j \in 1..4
               PROVE  /\ x[i] * y[j] \in Nat /\ p(i, j) \in Words
                      /\ Val(p(i, j)) = x[i] * y[j] /\ Same(Val(p(i, j)), x[i] * y[j])
    OBVIOUS
  <2>1. x[i] \in 0..(Limb - 1) /\ y[j] \in 0..(Limb - 1)
    BY <1>2
  <2>2. /\ x[i] * y[j] \in Nat /\ p(i, j) \in Words /\ Val(p(i, j)) = x[i] * y[j]
    BY <2>1, PartialProduct
  <2>3. x[i] * y[j] \in Int
    BY <2>2
  <2>4. Same(x[i] * y[j], x[i] * y[j])
    BY <2>3, SameItself, Zenon
  <2>5. QED
    BY <2>2, <2>4, Zenon
<1>4. 1 \in 1..4 /\ 2 \in 1..4 /\ 3 \in 1..4 /\ 4 \in 1..4
  OBVIOUS
<1> HIDE DEF p
<1> DEFINE Stands(n, m) == n \in Words /\ m \in Nat /\ Same(Val(n), m)
<1>5. \A i, j \in 1..4 : Stands(p(i, j), x[i] * y[j])
  BY <1>3
<1>6. \A n1, n2, m1, m2 : Stands(n1, m1) /\ Stands(n2, m2) => Stands(addq(n1, n2), m1 + m2)
  <2> SUFFICES ASSUME NEW n1, NEW n2, NEW m1, NEW m2, Stands(n1, m1), Stands(n2, m2)
               PROVE  Stands(addq(n1, n2), m1 + m2)
    OBVIOUS
  <2>1. m1 + m2 \in Nat
    OBVIOUS
  <2>2. QED
    BY <2>1, SameMore
<1>7. \A n, m : Stands(n, m) =>
        /\ Stands(shlq(n, LimbBits), m * Limb)
        /\ Stands(shlq(n, 2 * LimbBits), m * Half)
        /\ Stands(shlq(n, 3 * LimbBits), m * (Half * Limb))
  <2> SUFFICES ASSUME NEW n, NEW m, Stands(n, m)
               PROVE  /\ Stands(shlq(n, LimbBits), m * Limb)
                      /\ Stands(shlq(n, 2 * LimbBits), m * Half)
                      /\ Stands(shlq(n, 3 * LimbBits), m * (Half * Limb))
    OBVIOUS
  <2>1. \A f \in Nat : \A c : shlq(n, c) \in Words /\ Same(Val(shlq(n, c)), Val(n) * f)
                          => Stands(shlq(n, c), m * f)
    <3> SUFFICES ASSUME NEW f \in Nat, NEW c,
                        shlq(n, c) \in Words, Same(Val(shlq(n, c)), Val(n) * f)
                 PROVE  Stands(shlq(n, c), m * f)
      OBVIOUS
    <3>1. Val(n) \in Int /\ Val(shlq(n, c)) \in Int /\ m \in Int /\ f \in Int
      BY Parts
    <3>2. Same(Val(n) * f, m * f)
      BY <3>1, SameTimes
    <3>3. Val(n) * f \in Int /\ m * f \in Int /\ m * f \in Nat
      BY <3>1, SMT
    <3>4. Same(Val(shlq(n, c)), m * f)
      BY <3>1, <3>2, <3>3, SameTrans
    <3>5. QED
      BY <3>3, <3>4
  <2>2. Limb \in Nat /\ Half \in Nat /\ Half * Limb \in Nat
    BY LimbPowers, Times, Zenon
  <2> HIDE DEF Stands
  <2>3. n \in Words
    BY DEF Stands
  <2>4. QED
    BY <2>1, <2>2, <2>3, LimbsShifted, Zenon
<1> HIDE DEF Stands
<1>8. Stands(p16, Weight2(x, y))
  BY <1>4, <1>5, <1>6, Zenon DEF Weight2
<1>9. Stands(p32, Weight3(x, y))
  BY <1>4, <1>5, <1>6, Zenon DEF Weight3
<1>10. Stands(p48, Weight4(x, y))
  <2>1. Stands(addq(p(4, 1), p(3, 2)), x[4] * y[1] + x[3] * y[2])
    BY <1>4, <1>5, <1>6, Zenon
  <2>2. Stands(addq(addq(p(4, 1), p(3, 2)), p(2, 3)), x[4] * y[1] + x[3] * y[2] + x[2] * y[3])
    BY <1>4, <1>5, <1>6, <2>1, Zenon
  <2>3. QED
    BY <1>4, <1>5, <1>6, <2>2, Zenon DEF Weight4
<1> HIDE DEF p16, p32, p48
<1>11. /\ Stands(s16, Weight2(x, y) * Limb) /\ Stands(s32, Weight3(x, y) * Half)
       /\ Stands(s48, Weight4(x, y) * (Half * Limb))
  BY <1>7, <1>8, <1>9, <1>10, Zenon
<1> HIDE DEF s16, s32, s48
<1>12. Stands(addq(addq(addq(p(1, 1), s16), s32), s48), Long(x, y))
  <2>1. Stands(addq(p(1, 1), s16), x[1] * y[1] + Weight2(x, y) * Limb)
    BY <1>4, <1>5, <1>6, <1>11, Zenon
  <2>2. Stands(addq(addq(p(1, 1), s16), s32),
               x[1] * y[1] + Weight2(x, y) * Limb + Weight3(x, y) * Half)
    BY <1>6, <1>11, <2>1, Zenon
  <2>3. QED
    BY <1>6, <1>11, <2>2, Zenon DEF Long
<1>13. QED
  BY <1>1, <1>12, Zenon DEF Stands, x, y

(* The product of two numbers of four limbs, without the highest part.     *)
LongEquation(L, x1, x2, x3, x4, y1, y2, y3, y4) ==
  ((x4 * L + x3) * (y2 * L + y1) + (x2 * L + x1) * (y4 * L + y3)) * (L * L)
    + (x2 * L + x1) * (y2 * L + y1)
  = x1 * y1 + (x1 * y2 + x2 * y1) * L + (x3 * y1 + x2 * y2 + x1 * y3) * (L * L)
      + (x4 * y1 + x3 * y2 + x2 * y3 + x1 * y4) * ((L * L) * L)
      + (x4 * y2 + x2 * y4) * ((L * L) * (L * L))

LEMMA LongForm ==
  ASSUME NEW L \in Nat, NEW x1 \in Nat, NEW x2 \in Nat, NEW x3 \in Nat, NEW x4 \in Nat,
         NEW y1 \in Nat, NEW y2 \in Nat, NEW y3 \in Nat, NEW y4 \in Nat
  PROVE  LongEquation(L, x1, x2, x3, x4, y1, y2, y3, y4)
BY SMT DEF LongEquation

LEMMA ProductSame ==
  ASSUME NEW a \in Words, NEW b \in Words
  PROVE  Product(Val(a), b) \in Nat /\ Same(Product(Val(a), b), Long(Limbs(a), Limbs(b)))
<1> DEFINE x == Limbs(a)  y == Limbs(b)
           z == a.hi * b.lo + a.lo * b.hi
           m == (x[4] * y[2]) + (x[2] * y[4])
<1>1. x \in [1..4 -> 0..(Limb - 1)] /\ MadeOf(a, x) /\ y \in [1..4 -> 0..(Limb - 1)] /\ MadeOf(b, y)
  BY LimbsOf
<1> HIDE DEF x, y
<1>2. /\ a.hi \in Nat /\ a.lo \in Nat /\ a.lo < Half /\ b.hi \in Nat /\ b.lo \in Nat
      /\ Val(a) = a.hi * Half + a.lo /\ Half \in Nat /\ Half > 0
  BY Parts, LimbPowers DEF Val
<1>3. Val(a) \div Half = a.hi /\ Val(a) % Half = a.lo
  <2>1. (a.hi * Half + a.lo) \div Half = a.hi /\ (a.hi * Half + a.lo) % Half = a.lo
    BY <1>2, Remainder
  <2>2. QED
    BY <1>2, <2>1, Zenon
<1>4. Product(Val(a), b) = (z % Half) * Half + a.lo * b.lo
  BY <1>3, Zenon DEF Product
<1>5. z \in Nat /\ z % Half \in Nat /\ z * Half \in Nat /\ (z % Half) * Half \in Nat /\ a.lo * b.lo \in Nat
  <2>1. a.hi * b.lo \in Nat /\ a.lo * b.hi \in Nat /\ a.lo * b.lo \in Nat
    BY <1>2, Times, Zenon
  <2>2. z \in Nat
    BY <2>1
  <2> HIDE DEF z
  <2>3. z % Half \in Nat
    BY <1>2, <2>2, Quotients
  <2>4. QED
    BY <1>2, <2>1, <2>2, <2>3, Times, Zenon
<1>6. Same((z % Half) * Half, z * Half)
  <2> HIDE DEF z
  <2>1. QED
    BY <1>2, <1>5, SameLowPart, LimbPowers
<1>7. Same((z % Half) * Half + a.lo * b.lo, z * Half + a.lo * b.lo)
  <2> HIDE DEF z
  <2>1. /\ (z % Half) * Half \in Int /\ z * Half \in Int /\ a.lo * b.lo \in Int
    BY <1>5
  <2>2. Same(a.lo * b.lo, a.lo * b.lo)
    BY <2>1, SameItself, Zenon
  <2>3. QED
    BY <1>6, <2>1, <2>2, SameSum
<1>8. z * Half + a.lo * b.lo = Long(x, y) + m * Modulus /\ m \in Nat /\ Long(x, y) \in Nat
  <2>1. /\ x[1] \in Nat /\ x[2] \in Nat /\ x[3] \in Nat /\ x[4] \in Nat
        /\ y[1] \in Nat /\ y[2] \in Nat /\ y[3] \in Nat /\ y[4] \in Nat
    BY <1>1
  <2>2. Limb \in Nat /\ Half = Limb * Limb /\ Modulus = Half * Half
    BY LimbPowers
  <2>3. /\ a.lo = x[2] * Limb + x[1] /\ a.hi = x[4] * Limb + x[3]
        /\ b.lo = y[2] * Limb + y[1] /\ b.hi = y[4] * Limb + y[3]
    BY <1>1, Zenon DEF MadeOf
  <2>4. z * Half + a.lo * b.lo = Long(x, y) + m * Modulus
    <3>1. LongEquation(Limb, x[1], x[2], x[3], x[4], y[1], y[2], y[3], y[4])
      BY <2>1, <2>2, LongForm
    <3>2. QED
      BY <2>2, <2>3, <3>1, Zenon DEF LongEquation, Long, Weight2, Weight3, Weight4
  <2>5. \A i, j \in Nat : i + j \in Nat
    BY SMT
  <2>6. m \in Nat
    BY <2>1, <2>5, Times, Zenon
  <2>7. Long(x, y) \in Nat
    BY <2>1, <2>2, <2>5, Times, Zenon DEF Long, Weight2, Weight3, Weight4
  <2>8. QED
    BY <2>4, <2>6, <2>7
<1> HIDE DEF m, z
<1>9. Modulus \in Nat /\ Long(x, y) \in Int /\ m \in Int
  BY <1>8, LimbPowers
<1>10. Same(z * Half + a.lo * b.lo, Long(x, y))
  BY <1>8, <1>9 DEF Same
<1>11. (z % Half) * Half + a.lo * b.lo \in Nat /\ z * Half + a.lo * b.lo \in Nat
  BY <1>5
<1>12. Same((z % Half) * Half + a.lo * b.lo, Long(x, y))
  BY <1>7, <1>9, <1>10, <1>11, SameTrans
<1>13. QED
  BY <1>4, <1>11, <1>12, Zenon DEF x, y

LEMMA SameBack ==
  ASSUME NEW m \in Int, NEW n \in Int, Same(m, n)
  PROVE  Same(n, m)
<1>1. PICK k \in Int : m = n + k * Modulus
  BY DEF Same
<1>2. Modulus \in Int
  BY LimbPowers
<1>3. 0 - k \in Int /\ k * Modulus \in Int /\ (0 - k) * Modulus = 0 - k * Modulus
  BY <1>2, SMT
<1>4. n = m + (0 - k) * Modulus
  BY <1>1, <1>3
<1>5. QED
  BY <1>3, <1>4 DEF Same

LEMMA MulExact ==
  ASSUME NEW a \in Words, NEW b \in Words
  PROVE  mulq(a, b) \in Words /\ Val(mulq(a, b)) = Product(Val(a), b) % Modulus
<1> DEFINE l == Long(Limbs(a), Limbs(b))
<1>1. mulq(a, b) \in Words /\ l \in Nat /\ Same(Val(mulq(a, b)), l)
  BY LongMultiplication
<1>2. Product(Val(a), b) \in Nat /\ Same(Product(Val(a), b), l)
  BY ProductSame
<1> HIDE DEF l
<1>3. Val(mulq(a, b)) \in Nat /\ Val(mulq(a, b)) < Modulus
  BY <1>1, Parts
<1>4. l \in Int /\ Product(Val(a), b) \in Int /\ Val(mulq(a, b)) \in Int
  BY <1>1, <1>2, <1>3
<1>5. Same(l, Product(Val(a), b))
  BY <1>2, <1>4, SameBack
<1>6. Same(Val(mulq(a, b)), Product(Val(a), b))
  BY <1>1, <1>4, <1>5, SameTrans
<1>7. QED
  BY <1>1, <1>2, <1>3, <1>6, SameRemainder

LEMMA AddModulo ==
  ASSUME NEW a \in Words, NEW b \in Words
  PROVE  addq(a, b) \in Words /\ Val(addq(a, b)) = (Val(a) + Val(b)) % Modulus
<1>1. addq(a, b) \in Words /\ Same(Val(addq(a, b)), Val(a) + Val(b))
  BY SameAdded
<1>2. Val(addq(a, b)) \in Nat /\ Val(addq(a, b)) < Modulus /\ Val(a) + Val(b) \in Nat
  BY <1>1, Parts
<1>3. QED
  BY <1>1, <1>2, SameRemainder

LEMMA SubModulo ==
  ASSUME NEW a \in Words, NEW b \in Words
  PROVE  subq(a, b) \in Words /\ Val(subq(a, b)) = (Val(a) + Modulus - Val(b)) % Modulus
<1> DEFINE r == subq(a, b)
<1>1. r \in Words
  BY SubExact
<1>2. PICK c \in {0, 1} : Val(r) + Val(b) = c * Modulus + Val(a)
  BY SubExact DEF Summed
<1> HIDE DEF r
<1>3. /\ Val(r) \in Nat /\ Val(a) \in Nat /\ Val(b) \in Nat
      /\ Val(r) < Modulus /\ Val(b) < Modulus /\ Modulus \in Nat
  BY <1>1, Parts, LimbPowers
<1>4. Val(a) + Modulus - Val(b) \in Nat /\ c - 1 \in Int
  BY <1>3
<1>5. Val(r) = (Val(a) + Modulus - Val(b)) + (c - 1) * Modulus
  BY <1>2, <1>3, SMT
<1>6. Same(Val(r), Val(a) + Modulus - Val(b))
  BY <1>4, <1>5 DEF Same
<1>7. Val(r) = (Val(a) + Modulus - Val(b)) % Modulus
  BY <1>3, <1>4, <1>6, SameRemainder
<1>8. QED
  BY <1>1, <1>7 DEF r

LEMMA ShiftModulo ==
  ASSUME NEW r \in Words, NEW n, Val(r) = n
  PROVE  Val(r) = n % Modulus
<1>1. Val(r) \in Nat /\ Val(r) < Modulus
  BY Parts
<1>2. Val(r) \in Int
  BY <1>1
<1>3. Same(Val(r), Val(r))
  BY <1>2, SameItself, Zenon
<1>4. QED
  BY <1>1, <1>3, SameRemainder

(* The order of numbers is that of their words.                            *)
LEMMA HigherWord ==
  ASSUME NEW a \in Words, NEW b \in Words
  PROVE  /\ a.hi > b.hi => Val(a) > Val(b)
         /\ a.hi = b.hi /\ a.lo > b.lo => Val(a) > Val(b)
         /\ a.hi = b.hi /\ a.lo = b.lo => Val(a) = Val(b)
<1>1. \A i, j, m, n \in 0..(Half - 1) :
        /\ i > j => i * Half + m > j * Half + n
        /\ i = j /\ m > n => i * Half + m > j * Half + n
  BY Widths, SMT
<1>2. QED
  BY <1>1, Parts DEF Val

LEMMA CompareExact ==
  ASSUME NEW a \in Words, NEW b \in Words
  PROVE  cmpq(a, b) = CASE Val(a) > Val(b) -> "greater"
                        [] Val(a) < Val(b) -> "less"
                        [] OTHER -> "equal"
<1>1. Val(a) \in Nat /\ Val(b) \in Nat /\ a.hi \in Nat /\ a.lo \in Nat /\ b.hi \in Nat /\ b.lo \in Nat
  BY Parts
<1>2. CASE a.hi > b.hi \/ (a.hi = b.hi /\ a.lo > b.lo)
  <2>1. Val(a) > Val(b)
    BY <1>2, HigherWord
  <2>2. cmpq(a, b) = "greater"
    BY <1>1, <1>2 DEF cmpq
  <2>3. ~ (Val(a) < Val(b))
    BY <1>1, <2>1
  <2>4. QED
    BY <2>1, <2>2, <2>3
<1>3. CASE a.hi < b.hi \/ (a.hi = b.hi /\ a.lo < b.lo)
  <2>1. Val(b) > Val(a)
    BY <1>1, <1>3, HigherWord
  <2>2. cmpq(a, b) = "less"
    BY <1>1, <1>3 DEF cmpq
  <2>3. ~ (Val(a) > Val(b)) /\ Val(a) < Val(b)
    BY <1>1, <2>1
  <2>4. QED
    BY <2>2, <2>3
<1>4. CASE a.hi = b.hi /\ a.lo = b.lo
  <2>1. Val(a) = Val(b)
    BY <1>4, HigherWord
  <2>2. cmpq(a, b) = "equal"
    BY <1>1, <1>4 DEF cmpq
  <2>3. ~ (Val(a) > Val(b)) /\ ~ (Val(a) < Val(b))
    BY <1>1, <2>1
  <2>4. QED
    BY <2>2, <2>3
<1>5. QED
  BY <1>1, <1>2, <1>3, <1>4

(* What is handed from element to element is in T at the end.              *)
LEMMA FoldEnds ==
  ASSUME NEW n \in Nat, NEW T, NEW base \in T, NEW step \in [T \X (1..n) -> T],
         NEW f, Steps(f, n, T, base, step)
  PROVE  f[1..n] \in T
<1>1. Chained(f, n, T, base, step)
  BY FoldSteps
<1>2. PICK w \in [0..n -> T] : f[1..n] = w[n]
  BY <1>1, Zenon DEF Chained
<1>3. n \in 0..n
  OBVIOUS
<1>4. QED
  BY <1>2, <1>3

LEMMA AnyWord ==
  ASSUME NEW m \in Nat, NEW n \in Nat
  PROVE  uint64(m, n) \in Words
<1>1. m % Half \in 0..(Half - 1) /\ n % Half \in 0..(Half - 1)
  BY Widths, SMT
<1>2. QED
  BY <1>1 DEF uint64, Words

(* The value that next makes of the elements of a sequence, one by one.    *)
Handed(s, T, base, next, v) ==
  \E w \in [0..Len(s) -> T] : /\ w[0] = base
                              /\ \A k \in 1..Len(s) : w[k] = next[<<w[k - 1], s[k]>>]
                              /\ v = w[Len(s)]

LEMMA HandedNone ==
  ASSUME NEW T, NEW base, NEW next, NEW v, Handed(<< >>, T, base, next, v)
  PROVE  v = base
BY DEF Handed

LEMMA HandedOn ==
  ASSUME NEW T, NEW base, NEW next, NEW s \in Seq(Nat), NEW d \in Nat,
         NEW v, NEW u, Handed(s, T, base, next, v), Handed(Append(s, d), T, base, next, u)
  PROVE  v \in T /\ u = next[<<v, d>>]
<1> DEFINE n == Len(s)  t == Append(s, d)
<1>1. n \in Nat /\ Len(t) = n + 1 /\ t[n + 1] = d /\ \A k \in 1..n : t[k] = s[k]
  OBVIOUS
<1> HIDE DEF t
<1>2. PICK w \in [0..n -> T] : /\ w[0] = base
                               /\ \A k \in 1..n : w[k] = next[<<w[k - 1], s[k]>>]
                               /\ v = w[n]
  BY Zenon DEF Handed
<1>3. PICK x \in [0..(n + 1) -> T] : /\ x[0] = base
                                     /\ \A k \in 1..(n + 1) : x[k] = next[<<x[k - 1], t[k]>>]
                                     /\ u = x[n + 1]
  <2>1. Handed(t, T, base, next, u)
    BY DEF t
  <2>2. QED
    BY <1>1, <2>1, Zenon DEF Handed
<1> HIDE DEF n
<1> DEFINE Bad == { k \in 0..n : w[k] # x[k] }
<1>4. Bad = {}
  <2>1. SUFFICES ASSUME Bad # {} PROVE FALSE
    OBVIOUS
  <2>2. PICK k \in Bad : \A j \in Bad : k <= j
    <3>1. Bad \in SUBSET Nat
      OBVIOUS
    <3>2. QED
      BY <2>1, <3>1, NatMin
  <2>3. k \in 0..n /\ w[k] # x[k]
    OBVIOUS
  <2>4. k # 0
    BY <1>2, <1>3, <2>3
  <2>5. k \in 1..n /\ k \in 1..(n + 1) /\ k - 1 \in 0..n
    BY <1>1, <2>3, <2>4
  <2>6. w[k - 1] = x[k - 1]
    <3>1. k - 1 \notin Bad
      BY <2>2, <2>5
    <3>2. QED
      BY <2>5, <3>1
  <2>7. w[k] = x[k]
    BY <1>1, <1>2, <1>3, <2>5, <2>6, Zenon
  <2>8. QED
    BY <2>3, <2>7
<1>5. n \in 0..n /\ n + 1 \in 1..(n + 1) /\ (n + 1) - 1 = n
  BY <1>1
<1>6. w[n] = x[n] /\ w[n] \in T
  BY <1>4, <1>5
<1>7. x[n + 1] = next[<<x[n], d>>]
  BY <1>1, <1>3, <1>5
<1>8. QED
  BY <1>2, <1>3, <1>6, <1>7

(* A chain of a fold's values is one of its elements'.                     *)
LEMMA ChainHanded ==
  ASSUME NEW T, NEW base, NEW next, NEW s \in Seq(Nat), NEW f,
         Chained(f, Len(s), T, base, [p \in T \X (1..Len(s)) |-> next[<<p[1], s[p[2]]>>]])
  PROVE  Handed(s, T, base, next, f[1..Len(s)])
<1> DEFINE n == Len(s)  step == [p \in T \X (1..n) |-> next[<<p[1], s[p[2]]>>]]
<1>1. PICK w \in [0..n -> T] : /\ w[0] = base
                               /\ \A k \in 1..n : w[k] = step[<<w[k - 1], k>>]
                               /\ f[1..n] = w[n]
  BY Zenon DEF Chained
<1>2. n \in Nat
  OBVIOUS
<1>3. \A a \in T, k \in 1..n : step[<<a, k>>] = next[<<a, s[k]>>]
  OBVIOUS
<1> HIDE DEF step, n
<1>4. \A k \in 1..n : w[k] = next[<<w[k - 1], s[k]>>]
  <2> SUFFICES ASSUME NEW k \in 1..n PROVE w[k] = next[<<w[k - 1], s[k]>>]
    OBVIOUS
  <2>1. k - 1 \in 0..n
    BY <1>2
  <2>2. w[k - 1] \in T
    BY <2>1
  <2>3. QED
    BY <1>1, <1>3, <2>2, Zenon
<1>5. QED
  BY <1>1, <1>4, Zenon DEF Handed, n

LEMMA NumberHanded ==
  ASSUME NEW base \in Nat, NEW digits \in Seq(Nat)
  PROVE  Handed(digits, Nat, 0, [p \in Nat \X Nat |-> base * p[1] + p[2]], NumberOf(digits, base))
<1> DEFINE n == Len(digits)
           op(a, d) == base * a + d
           Eq(f) == f = [s \in SUBSET (1..n) |->
                           IF s = {} THEN 0
                           ELSE op(f[s \ {Max(s)}], digits[Max(s)])]
           next == [p \in Nat \X Nat |-> op(p[1], p[2])]
           step == [p \in Nat \X (1..n) |-> next[<<p[1], digits[p[2]]>>]]
           f == CHOOSE h : Eq(h)
<1>1. n \in Nat /\ DOMAIN digits = 1..n /\ \A k \in 1..n : digits[k] \in Nat
  OBVIOUS
<1>2. NumberOf(digits, base) = f[1..n]
  BY <1>1 DEF NumberOf, FoldLeft, MapThenFoldSet
<1>3. 0 \in Nat /\ \A a \in Nat, d \in Nat : op(a, d) \in Nat
  BY SMT
<1> HIDE DEF op
<1>4. next \in [Nat \X Nat -> Nat] /\ \A a \in Nat, d \in Nat : next[<<a, d>>] = op(a, d)
  BY <1>3
<1> HIDE DEF next
<1>5. step \in [Nat \X (1..n) -> Nat]
  BY <1>1, <1>4
<1>6. \A a \in Nat, k \in 1..n : step[<<a, k>>] = op(a, digits[k])
  BY <1>1, <1>4
<1> HIDE DEF step
<1>7. PICK g \in [SUBSET (1..n) -> Nat] : Folds(g, n, 0, step)
  BY <1>1, <1>3, <1>5, FoldExists
<1>8. Eq(g)
  <2>1. \A s \in SUBSET (1..n) : s # {} => Max(s) \in 1..n /\ g[s \ {Max(s)}] \in Nat
    BY <1>1, MaxOf
  <2>2. \A s \in SUBSET (1..n) : s # {} =>
           step[<<g[s \ {Max(s)}], Max(s)>>] = op(g[s \ {Max(s)}], digits[Max(s)])
    BY <1>6, <2>1
  <2>3. QED
    BY <1>7, <2>2 DEF Folds
<1>9. Eq(f)
  <2> HIDE DEF Eq
  <2>1. QED
    BY <1>8
<1> HIDE DEF f
<1>10. Steps(f, n, Nat, 0, step)
  <2>1. f[{}] = 0
    BY <1>9
  <2>2. \A s \in SUBSET (1..n) : s # {} /\ f[s \ {Max(s)}] \in Nat
           => f[s] = step[<<f[s \ {Max(s)}], Max(s)>>]
    BY <1>1, <1>6, <1>9, MaxOf
  <2>3. QED
    BY <2>1, <2>2 DEF Steps
<1> HIDE DEF Eq
<1>11. Chained(f, n, Nat, 0, step)
  <2> HIDE DEF n
  <2>1. QED
    BY <1>1, <1>3, <1>5, <1>10, FoldSteps, Zenon
<1>12. Handed(digits, Nat, 0, next, f[1..n])
  BY <1>11, ChainHanded, Zenon DEF step
<1>13. QED
  BY <1>2, <1>12, Zenon DEF next, op

LEMMA NumberNone == \A base \in Nat : NumberOf(<< >>, base) = 0
<1>1. << >> \in Seq(Nat)
  OBVIOUS
<1>2. QED
  BY <1>1, NumberHanded, HandedNone, Zenon

LEMMA NumberOn ==
  ASSUME NEW base \in Nat, NEW digits \in Seq(Nat), NEW d \in Nat
  PROVE  /\ NumberOf(digits, base) \in Nat
         /\ NumberOf(Append(digits, d), base) = base * NumberOf(digits, base) + d
<1> DEFINE next == [p \in Nat \X Nat |-> base * p[1] + p[2]]
           v == NumberOf(digits, base)  u == NumberOf(Append(digits, d), base)
<1>1. Append(digits, d) \in Seq(Nat)
  OBVIOUS
<1>2. Handed(digits, Nat, 0, next, v) /\ Handed(Append(digits, d), Nat, 0, next, u)
  BY <1>1, NumberHanded, Zenon
<1>3. \A a \in Nat : base * a + d \in Nat /\ next[<<a, d>>] = base * a + d
  <2>1. \A a \in Nat : base * a + d \in Nat
    BY SMT
  <2>2. QED
    BY <2>1
<1>4. next \in [Nat \X Nat -> Nat]
  <2>1. \A a, b \in Nat : base * a + b \in Nat
    BY SMT
  <2>2. QED
    BY <2>1
<1> HIDE DEF next, v, u
<1>5. v \in Nat /\ u = next[<<v, d>>]
  <2>1. 0 \in Nat
    OBVIOUS
  <2>2. QED
    BY <1>2, HandedOn
<1>6. QED
  BY <1>3, <1>5, Zenon DEF v, u

LEMMA DecimalHanded ==
  ASSUME NEW digits \in Seq(Nat)
  PROVE  Handed(digits, Words, uint64(0, 0),
                [p \in Words \X Nat |-> addq(mulq(p[1], uint64(0, 10)), uint64(0, p[2]))],
                OfDecimal(digits))
<1> DEFINE n == Len(digits)
           op(a, d) == addq(mulq(a, uint64(0, 10)), uint64(0, d))
           Eq(f) == f = [s \in SUBSET (1..n) |->
                           IF s = {} THEN uint64(0, 0)
                           ELSE op(f[s \ {Max(s)}], digits[Max(s)])]
           next == [p \in Words \X Nat |-> op(p[1], p[2])]
           step == [p \in Words \X (1..n) |-> next[<<p[1], digits[p[2]]>>]]
           f == CHOOSE h : Eq(h)
<1>1. n \in Nat /\ DOMAIN digits = 1..n /\ \A k \in 1..n : digits[k] \in Nat
  OBVIOUS
<1>2. OfDecimal(digits) = f[1..n]
  BY <1>1 DEF OfDecimal, FoldLeft, MapThenFoldSet
<1>3. uint64(0, 0) \in Words /\ \A a \in Words, d \in Nat : op(a, d) \in Words
  <2>1. 0 \in Nat /\ 10 \in Nat
    OBVIOUS
  <2>2. QED
    BY <2>1, AnyWord, AddModulo, MulExact, Zenon
<1> HIDE DEF op
<1>4. next \in [Words \X Nat -> Words] /\ \A a \in Words, d \in Nat : next[<<a, d>>] = op(a, d)
  BY <1>3
<1> HIDE DEF next
<1>5. step \in [Words \X (1..n) -> Words]
  BY <1>1, <1>4
<1>6. \A a \in Words, k \in 1..n : step[<<a, k>>] = op(a, digits[k])
  BY <1>1, <1>4
<1> HIDE DEF step
<1>7. PICK g \in [SUBSET (1..n) -> Words] : Folds(g, n, uint64(0, 0), step)
  BY <1>1, <1>3, <1>5, FoldExists
<1>8. Eq(g)
  <2>1. \A s \in SUBSET (1..n) : s # {} => Max(s) \in 1..n /\ g[s \ {Max(s)}] \in Words
    BY <1>1, MaxOf
  <2>2. \A s \in SUBSET (1..n) : s # {} =>
           step[<<g[s \ {Max(s)}], Max(s)>>] = op(g[s \ {Max(s)}], digits[Max(s)])
    BY <1>6, <2>1
  <2>3. QED
    BY <1>7, <2>2 DEF Folds
<1>9. Eq(f)
  <2> HIDE DEF Eq
  <2>1. QED
    BY <1>8
<1> HIDE DEF f
<1>10. Steps(f, n, Words, uint64(0, 0), step)
  <2>1. f[{}] = uint64(0, 0)
    BY <1>9
  <2>2. \A s \in SUBSET (1..n) : s # {} /\ f[s \ {Max(s)}] \in Words
           => f[s] = step[<<f[s \ {Max(s)}], Max(s)>>]
    BY <1>1, <1>6, <1>9, MaxOf
  <2>3. QED
    BY <2>1, <2>2 DEF Steps
<1> HIDE DEF Eq
<1>11. Chained(f, n, Words, uint64(0, 0), step)
  <2> HIDE DEF n
  <2>1. QED
    BY <1>1, <1>3, <1>5, <1>10, FoldSteps, Zenon
<1>12. Handed(digits, Words, uint64(0, 0), next, f[1..n])
  BY <1>11, ChainHanded, Zenon DEF step
<1>13. QED
  BY <1>2, <1>12, Zenon DEF next, op

LEMMA DecimalNone == OfDecimal(<< >>) = uint64(0, 0)
<1>1. << >> \in Seq(Nat)
  OBVIOUS
<1>2. QED
  BY <1>1, DecimalHanded, HandedNone, Zenon

LEMMA DecimalOn ==
  ASSUME NEW digits \in Seq(Nat), NEW d \in Nat
  PROVE  OfDecimal(Append(digits, d)) = addq(mulq(OfDecimal(digits), uint64(0, 10)), uint64(0, d))
<1> DEFINE op(a, b) == addq(mulq(a, uint64(0, 10)), uint64(0, b))
           next == [p \in Words \X Nat |-> op(p[1], p[2])]
           v == OfDecimal(digits)  u == OfDecimal(Append(digits, d))
<1>1. Append(digits, d) \in Seq(Nat)
  OBVIOUS
<1>2. /\ Handed(digits, Words, uint64(0, 0), next, v)
      /\ Handed(Append(digits, d), Words, uint64(0, 0), next, u)
  BY <1>1, DecimalHanded, Zenon
<1>3. uint64(0, 0) \in Words /\ \A a \in Words, b \in Nat : op(a, b) \in Words
  <2>1. 0 \in Nat /\ 10 \in Nat
    OBVIOUS
  <2>2. QED
    BY <2>1, AnyWord, AddModulo, MulExact, Zenon
<1>4. v = OfDecimal(digits) /\ u = OfDecimal(Append(digits, d))
  OBVIOUS
<1> HIDE DEF op, v, u
<1>5. next \in [Words \X Nat -> Words] /\ \A a \in Words : next[<<a, d>>] = op(a, d)
  BY <1>3
<1> HIDE DEF next
<1>6. v \in Words /\ u = next[<<v, d>>]
  BY <1>2, HandedOn
<1>7. QED
  BY <1>4, <1>5, <1>6, Zenon DEF op

LEMMA NumberOne == \A base, d \in Nat : NumberOf(<< d >>, base) = d
<1> SUFFICES ASSUME NEW base \in Nat, NEW d \in Nat PROVE NumberOf(<< d >>, base) = d
  OBVIOUS
<1> DEFINE t == << >>  u == << d >>
<1>1. t \in Seq(Nat) /\ u = Append(t, d)
  OBVIOUS
<1>2. NumberOf(t, base) = 0
  BY NumberNone
<1> HIDE DEF t, u
<1>3. NumberOf(Append(t, d), base) = base * NumberOf(t, base) + d
  BY <1>1, NumberOn
<1>4. base * 0 + d = d
  BY SMT
<1>5. NumberOf(u, base) = d
  BY <1>1, <1>2, <1>3, <1>4, Zenon
<1>6. QED
  BY <1>5 DEF u

LEMMA DecimalWord ==
  ASSUME NEW digits \in Seq(Nat)
  PROVE  OfDecimal(digits) \in Words
<1>1. PICK w \in [0..Len(digits) -> Words] : OfDecimal(digits) = w[Len(digits)]
  BY DecimalHanded, Zenon DEF Handed
<1>2. Len(digits) \in 0..Len(digits)
  OBVIOUS
<1>3. QED
  BY <1>1, <1>2, Zenon

LEMMA NumberNat ==
  ASSUME NEW digits \in Seq(Nat), NEW base \in Nat
  PROVE  NumberOf(digits, base) \in Nat
<1>1. PICK w \in [0..Len(digits) -> Nat] : NumberOf(digits, base) = w[Len(digits)]
  BY NumberHanded, Zenon DEF Handed
<1>2. Len(digits) \in 0..Len(digits)
  OBVIOUS
<1>3. QED
  BY <1>1, <1>2, Zenon

LEMMA HexValue ==
  ASSUME NEW digits \in Seq(Nat)
  PROVE  FoldLeft(LAMBDA a, d : 16 * a + d, 0, digits) \in Nat
<1>1. 16 \in Nat
  OBVIOUS
<1>2. NumberOf(digits, 16) \in Nat
  BY <1>1, NumberNat, Zenon
<1>3. QED
  BY <1>2, Zenon DEF NumberOf

(* The values of the sum of the powers of two of a sequence of places.     *)
AddedUp(bits, v) ==
  \E w \in [0..Len(bits) -> Nat] :
     /\ w[0] = 0
     /\ \A k \in 1..Len(bits) : w[k] = w[k - 1] + 2^bits[k]
     /\ v = w[Len(bits)]

LEMMA BitsSummed ==
  ASSUME NEW B \in SUBSET (0..(WordBits - 1)), NEW bits \in Seq(B)
  PROVE  AddedUp(bits, FoldLeft(LAMBDA w, i : w + 2^i, 0, bits))
<1> DEFINE n == Len(bits)
           next(a, d) == a + 2^d
           Eq(f) == f = [s \in SUBSET (1..n) |->
                           IF s = {} THEN 0
                           ELSE next(f[s \ {Max(s)}], bits[Max(s)])]
           step == [p \in Nat \X (1..n) |-> next(p[1], bits[p[2]])]
           f == CHOOSE h : Eq(h)
<1>1. n \in Nat /\ DOMAIN bits = 1..n /\ \A k \in 1..n : bits[k] \in B
  OBVIOUS
<1>2. FoldLeft(LAMBDA w, i : w + 2^i, 0, bits) = f[1..n]
  BY <1>1 DEF FoldLeft, MapThenFoldSet
<1>3. 0 \in Nat /\ \A a \in Nat, d \in B : next(a, d) \in Nat
  <2>1. \A d \in 0..(WordBits - 1) : 2^d \in Nat
    <3>1. \A d \in 0..(WordBits - 1) : d \in 0..31
      BY Widths, SMT
    <3>2. QED
      BY <3>1, Doubling, Zenon DEF Doubles
  <2>2. \A d \in B : 2^d \in Nat
    BY <2>1, Zenon
  <2>3. QED
    BY <2>2
<1> HIDE DEF next
<1>4. step \in [Nat \X (1..n) -> Nat]
  BY <1>1, <1>3
<1>5. \A a \in Nat, k \in 1..n : step[<<a, k>>] = next(a, bits[k])
  OBVIOUS
<1> HIDE DEF step
<1>6. PICK g \in [SUBSET (1..n) -> Nat] : Folds(g, n, 0, step)
  BY <1>1, <1>3, <1>4, FoldExists
<1>7. Eq(g)
  <2>1. \A s \in SUBSET (1..n) : s # {} => Max(s) \in 1..n /\ g[s \ {Max(s)}] \in Nat
    BY <1>1, MaxOf
  <2>2. \A s \in SUBSET (1..n) : s # {} =>
           step[<<g[s \ {Max(s)}], Max(s)>>] = next(g[s \ {Max(s)}], bits[Max(s)])
    BY <1>5, <2>1
  <2>3. QED
    BY <1>6, <2>2 DEF Folds
<1>8. Eq(f)
  <2> HIDE DEF Eq
  <2>1. QED
    BY <1>7
<1> HIDE DEF f
<1>9. Steps(f, n, Nat, 0, step)
  <2>1. f[{}] = 0
    BY <1>8
  <2>2. \A s \in SUBSET (1..n) : s # {} /\ f[s \ {Max(s)}] \in Nat
           => f[s] = step[<<f[s \ {Max(s)}], Max(s)>>]
    BY <1>1, <1>5, <1>8, MaxOf
  <2>3. QED
    BY <2>1, <2>2 DEF Steps
<1> HIDE DEF n, Eq
<1>10. Chained(f, n, Nat, 0, step)
  BY <1>1, <1>3, <1>4, <1>9, FoldSteps, Zenon
<1>11. PICK w \in [0..n -> Nat] : /\ w[0] = 0
                                  /\ \A k \in 1..n : w[k] = step[<<w[k - 1], k>>]
                                  /\ f[1..n] = w[n]
  BY <1>10, Zenon DEF Chained
<1>12. \A k \in 1..n : w[k] = w[k - 1] + 2^bits[k]
  <2>1. \A k \in 1..n : k - 1 \in 0..n
    BY <1>1
  <2>2. \A k \in 1..n : w[k - 1] \in Nat
    BY <2>1
  <2>3. QED
    BY <1>5, <1>11, <2>2, Zenon DEF next
<1>13. QED
  BY <1>2, <1>11, <1>12, Zenon DEF AddedUp, n

(* The elements of a set are listed once each.                             *)
LEMMA ListedOnce ==
  ASSUME NEW S, IsFiniteSet(S)
  PROVE  /\ SetToSeq(S) \in Seq(S)
         /\ \A i, j \in 1..Len(SetToSeq(S)) : SetToSeq(S)[i] = SetToSeq(S)[j] => i = j
         /\ \A x \in S : \E i \in 1..Len(SetToSeq(S)) : SetToSeq(S)[i] = x
<1> DEFINE n == Cardinality(S)  q == SetToSeq(S)
<1>1. n \in Nat /\ ExistsBijection(1..n, S)
  BY FS_CardinalityType
<1>2. PICK g : g \in [1..n -> S] /\ IsInjective(g)
  BY <1>1 DEF ExistsBijection, Bijection, Injection
<1>3. q \in [1..n -> S] /\ IsInjective(q)
  BY <1>2 DEF SetToSeq
<1> HIDE DEF q
<1>4. \A i, j \in 1..n : q[i] = q[j] => i = j
  BY <1>3 DEF IsInjective
<1>5. Cardinality(1..n) = n
  BY <1>1, FS_Interval
<1>6. q \in Injection(1..n, S)
  BY <1>3, <1>4 DEF Injection, IsInjective
<1>7. q \in Surjection(1..n, S)
  BY <1>5, <1>6, FS_Injection, Zenon
<1>8. \A x \in S : \E i \in 1..n : q[i] = x
  BY <1>7 DEF Surjection
<1> HIDE DEF n
<1>9. q \in Seq(S) /\ Len(q) = n
  BY <1>1, <1>3
<1>10. QED
  BY <1>4, <1>8, <1>9, Zenon DEF q

LEMMA BitsListed ==
  ASSUME NEW S \in SUBSET (0..(WordBits - 1))
  PROVE  FoldLeft(LAMBDA w, i : w + 2^i, 0, SetToSeq(S)) \in Nat
<1>1. IsFiniteSet(S)
  <2>1. 0 \in Int /\ WordBits - 1 \in Int
    BY Widths, SMT
  <2>2. IsFiniteSet(0..(WordBits - 1))
    BY <2>1, FS_Interval
  <2>3. QED
    BY <2>2, FS_Subset
<1> DEFINE q == SetToSeq(S)  v == FoldLeft(LAMBDA w, i : w + 2^i, 0, q)
<1>2. q \in Seq(S)
  BY <1>1, ListedOnce, Zenon
<1>3. AddedUp(q, v)
  BY <1>2, BitsSummed, Zenon
<1> HIDE DEF v, q
<1>4. PICK w \in [0..Len(q) -> Nat] : v = w[Len(q)]
  BY <1>3, Zenon DEF AddedUp
<1>5. Len(q) \in 0..Len(q)
  BY <1>2
<1>6. v \in Nat
  BY <1>4, <1>5
<1>7. QED
  BY <1>6 DEF v, q

LEMMA OctalWord ==
  ASSUME NEW digits
  PROVE  OfOctal(digits) \in Words
<1> DEFINE bit(i) == (digits[Len(digits) - (i \div 3)] \div 2^(i % 3)) % 2
           bits   == { i \in 0..(3 * Len(digits) - 1) : bit(i) = 1 }
           low    == { i \in bits : i < OctalLowBits }
           shifts == { (i + 1 - OctalLowBits) % WordBits : i \in bits \ low }
           word(S) == FoldLeft(LAMBDA w, i : w + 2^i, 0, SetToSeq(S))
<1>1. OfOctal(digits) = uint64(word(shifts), word(low))
  BY DEF OfOctal
<1>2. \A i \in bits : i \in Int /\ i >= 0
  <2> HIDE DEF bit
  <2>1. QED
    OBVIOUS
<1> HIDE DEF bits
<1>3. OctalLowBits \in Nat /\ OctalLowBits <= WordBits /\ WordBits \in Nat /\ WordBits > 0
  BY WidthAssumption, Widths, SMT DEF WordBits
<1>4. low \in SUBSET (0..(WordBits - 1))
  BY <1>2, <1>3
<1>5. shifts \in SUBSET (0..(WordBits - 1))
  <2>1. \A m \in Int : m % WordBits \in 0..(WordBits - 1)
    BY <1>3
  <2>2. \A i \in bits : i + 1 - OctalLowBits \in Int
    BY <1>2, <1>3
  <2>3. QED
    BY <2>1, <2>2
<1> HIDE DEF low, shifts
<1>6. word(low) \in Nat /\ word(shifts) \in Nat
  BY <1>4, <1>5, BitsListed, Zenon
<1> HIDE DEF word
<1>7. QED
  BY <1>1, <1>6, AnyWord

LEMMA HexWord ==
  ASSUME NEW digits \in Seq(Nat)
  PROVE  OfHex(digits) \in Words
<1> DEFINE value(ds) == FoldLeft(LAMBDA a, d : 16 * a + d, 0, ds)
           low == IF Len(digits) > HexDigits THEN Len(digits) - HexDigits ELSE 0
           high == SubSeq(digits, 1, low)
           rest == SubSeq(digits, low + 1, Len(digits))
<1>1. OfHex(digits) = uint64(value(high), value(rest))
  BY DEF OfHex
<1>2. low \in Nat /\ low <= Len(digits)
  BY Widths, SMT DEF HexDigits
<1> HIDE DEF low
<1>3. high \in Seq(Nat) /\ rest \in Seq(Nat)
  BY <1>2
<1> HIDE DEF high, rest
<1>4. value(high) \in Nat /\ value(rest) \in Nat
  BY <1>3, HexValue, Zenon
<1> HIDE DEF value
<1>5. QED
  BY <1>1, <1>4, AnyWord

LEMMA NewWord ==
  ASSUME NEW numeral \in Numerals
  PROVE  New(numeral) \in Words
<1>1. numeral.base \in {8, 10, 16} /\ numeral.digits \in Seq(Nat)
  BY NumeralsAssumption
<1>2. /\ OfDecimal(numeral.digits) \in Words /\ OfHex(numeral.digits) \in Words
      /\ OfOctal(numeral.digits) \in Words
  BY <1>1, DecimalWord, HexWord, OctalWord
<1>3. QED
  BY <1>1, <1>2 DEF New

----------------------------------------------------------------------------
(* The number is what it should be.                                        *)
ArithmeticInv == acc # NoNumber => acc \in Words /\ exact = Val(acc)

LEMMA ComputeKeeps ==
  ASSUME NEW r \in Words, NEW n, Compute(r, n), Val(r) = n % Modulus
  PROVE  ArithmeticInv'
BY DEF Compute, ArithmeticInv, Val, Half

LEMMA StartKeeps ==
  ASSUME NEW r \in Words, acc' = r, exact' = Val(r)
  PROVE  ArithmeticInv'
BY DEF ArithmeticInv, Val, Half

LEMMA ExactSteps == ArithmeticInv /\ [ArithmeticNext]_mvars => ArithmeticInv'
<1> SUFFICES ASSUME ArithmeticInv, [ArithmeticNext]_mvars PROVE ArithmeticInv'
  OBVIOUS
<1> DEFINE Starts == acc \in Words /\ exact = Val(acc)
<1>1. acc \in Operands => Starts
  BY OperandsAssumption DEF ArithmeticInv
<1> HIDE DEF Starts
<1>2. \A b \in Operands : b \in Words
  BY OperandsAssumption
<1>3. \A c \in Counts : c \in Nat
  BY OperandsAssumption
<1>4. ASSUME NEW numeral \in Numerals, Construct(numeral) PROVE ArithmeticInv'
  <2>1. New(numeral) \in Words
    BY NewWord
  <2>2. acc' = New(numeral) /\ exact' = Val(New(numeral))
    BY <1>4, Zenon DEF Construct, Val, Half
  <2>3. QED
    BY <2>1, <2>2, StartKeeps, Zenon
<1>5. ASSUME NEW b \in Operands, Begin(b) PROVE ArithmeticInv'
  BY <1>2, <1>5, StartKeeps DEF Begin
<1>6. ASSUME NEW b \in Operands, Add(b) PROVE ArithmeticInv'
  <2>1. Starts
    BY <1>1, <1>6 DEF Add, Compute
  <2>2. addq(acc, b) \in Words /\ Val(addq(acc, b)) = (exact + Val(b)) % Modulus
    BY <1>2, <2>1, AddModulo, Zenon DEF Starts
  <2>3. QED
    BY <1>6, <2>2, ComputeKeeps, Zenon DEF Add
<1>7. ASSUME NEW b \in Operands, Subtract(b) PROVE ArithmeticInv'
  <2>1. Starts
    BY <1>1, <1>7 DEF Subtract, Compute
  <2>2. subq(acc, b) \in Words /\ Val(subq(acc, b)) = (exact + Modulus - Val(b)) % Modulus
    BY <1>2, <2>1, SubModulo, Zenon DEF Starts
  <2>3. QED
    BY <1>7, <2>2, ComputeKeeps, Zenon DEF Subtract
<1>8. ASSUME NEW b \in Operands, Multiply(b) PROVE ArithmeticInv'
  <2>1. Starts
    BY <1>1, <1>8 DEF Multiply, Compute
  <2>2. mulq(acc, b) \in Words /\ Val(mulq(acc, b)) = Product(exact, b) % Modulus
    BY <1>2, <2>1, MulExact, Zenon DEF Starts
  <2>3. QED
    BY <1>8, <2>2, ComputeKeeps, Zenon DEF Multiply
<1>9. ASSUME NEW c \in Counts, ShiftLeft(c) PROVE ArithmeticInv'
  <2> DEFINE n == IF c >= 2 * WordBits THEN 0
                  ELSE (exact % Power(2 * WordBits - c)) * Power(c)
  <2>1. Starts
    BY <1>1, <1>9 DEF ShiftLeft, Compute
  <2>2. shlq(acc, c) \in Words /\ Val(shlq(acc, c)) = n
    BY <1>3, <2>1, LeftExact, Zenon DEF Starts
  <2>3. Compute(shlq(acc, c), n)
    BY <1>9, Zenon DEF ShiftLeft
  <2> HIDE DEF n
  <2>4. Val(shlq(acc, c)) = n % Modulus
    BY <2>2, ShiftModulo, Zenon
  <2>5. QED
    BY <2>2, <2>3, <2>4, ComputeKeeps, Zenon
<1>10. ASSUME NEW c \in Counts, ShiftRight(c) PROVE ArithmeticInv'
  <2> DEFINE n == IF c >= 2 * WordBits THEN 0 ELSE exact \div Power(c)
  <2>1. Starts
    BY <1>1, <1>10 DEF ShiftRight, Compute
  <2>2. shrlq(acc, c) \in Words /\ Val(shrlq(acc, c)) = n
    BY <1>3, <2>1, RightExact, Zenon DEF Starts
  <2>3. Compute(shrlq(acc, c), n)
    BY <1>10, Zenon DEF ShiftRight
  <2> HIDE DEF n
  <2>4. Val(shrlq(acc, c)) = n % Modulus
    BY <2>2, ShiftModulo, Zenon
  <2>5. QED
    BY <2>2, <2>3, <2>4, ComputeKeeps, Zenon
<1>11. CASE UNCHANGED mvars
  BY <1>11 DEF mvars, ArithmeticInv, Val, Half
<1>12. QED
  BY <1>4, <1>5, <1>6, <1>7, <1>8, <1>9, <1>10, <1>11, Zenon DEF ArithmeticNext

(***************************************************************************)
(* uint64_t computes modulo 2^64 and compares as integers do: no sum,      *)
(* difference, product or shift loses a carry or a borrow, whatever        *)
(* operations came before.                                                 *)
(***************************************************************************)
THEOREM ComputesExactly == ArithmeticSpec => []ArithmeticExact
<1>1. ArithmeticInit => ArithmeticInv
  BY DEF ArithmeticInit, ArithmeticInv
<1>2. ArithmeticInv => ArithmeticExact
  <2> SUFFICES ASSUME ArithmeticInv, acc # NoNumber
               PROVE  /\ acc \in Words /\ Val(acc) = exact
                      /\ \A b \in Operands : cmpq(acc, b) = CASE exact > Val(b) -> "greater"
                                                              [] exact < Val(b) -> "less"
                                                              [] OTHER -> "equal"
    BY DEF ArithmeticExact
  <2>1. acc \in Words /\ exact = Val(acc)
    BY DEF ArithmeticInv
  <2>2. \A b \in Operands : b \in Words
    BY OperandsAssumption
  <2>3. QED
    BY <2>1, <2>2, CompareExact, Zenon
<1>3. QED
  BY <1>1, <1>2, ExactSteps, PTL DEF ArithmeticSpec

----------------------------------------------------------------------------
(* The division by ten of toString.                                       *)
(* The shifts of toString, by less than a word, by a word, or by more than *)
(* there is.                                                               *)
Shift(s) == s \in Nat /\ 2^s \in Nat /\ 2^s > 0

Covers(m, s) == m <= 2^s

LEMMA ShiftPowers == \A s \in {1, 2, 3, 4, 8, 16, 32} : Shift(s) /\ (s >= 2 * WordBits => Covers(Modulus, s))
<1>1. /\ Shift(1) /\ Shift(2) /\ Shift(3) /\ Shift(4)
      /\ Shift(8) /\ Shift(16) /\ Shift(32)
  BY SMT DEF Shift
<1>2. /\ Covers(256, 8) /\ Covers(256, 16) /\ Covers(256, 32)
      /\ Covers(65536, 16) /\ Covers(65536, 32) /\ Covers(4294967296, 32)
  BY SMT DEF Covers
<1>3. \/ WordBits = 4  /\ Modulus = 256
      \/ WordBits = 8  /\ Modulus = 65536
      \/ WordBits = 16 /\ Modulus = 4294967296
      \/ WordBits = 32
  BY Widths, SMT DEF Modulus
<1>4. \A s \in {1, 2, 3, 4, 8, 16, 32} : s >= 2 * WordBits => Covers(Modulus, s)
  BY <1>2, <1>3, SMT
<1>5. QED
  BY <1>1, <1>4, SMT

LEMMA RightBy ==
  ASSUME NEW a \in Words, NEW s \in {1, 2, 3, 4, 8, 16, 32}
  PROVE  shrlq(a, s) \in Words /\ Val(shrlq(a, s)) = Val(a) \div 2^s
<1> DEFINE m == 2^s  v == Val(a)
<1>1. s \in Nat /\ m \in Nat /\ m > 0 /\ (s >= 2 * WordBits => Modulus <= m)
  BY ShiftPowers, Zenon DEF Shift, Covers
<1>2. shrlq(a, s) \in Words /\ Val(shrlq(a, s)) = IF s >= 2 * WordBits THEN 0 ELSE v \div Power(s)
  BY <1>1, RightExact, Zenon
<1>3. v \in Nat /\ v < Modulus
  BY Parts
<1>4. CASE s >= 2 * WordBits
  <2>1. v < m
    <3> HIDE DEF m, v
    <3>1. QED
      BY <1>1, <1>3, <1>4, LimbPowers
  <2>2. v \div m = 0
    <3> HIDE DEF m, v
    <3>1. QED
      BY <1>1, <1>3, <2>1, SMT
  <2>3. QED
    BY <1>2, <1>4, <2>2, Zenon
<1>5. CASE ~ (s >= 2 * WordBits)
  <2>1. s <= WordBits
    BY <1>5, Widths, SMT
  <2>2. Power(s) = 2^s
    BY <2>1, Zenon DEF Power
  <2>3. QED
    BY <1>2, <1>5, <2>2, Zenon
<1>6. QED
  BY <1>4, <1>5, Zenon

LEMMA SmallPowers ==
  /\ 2^1 = 2 /\ 2^2 = 4 /\ 2^3 = 8 /\ 2^4 = 16 /\ 2^8 = 256 /\ 2^16 = 65536 /\ 2^32 = 4294967296
BY SMT

(* Sums that fit.                                                          *)
LEMMA AddFits ==
  ASSUME NEW a \in Words, NEW b \in Words, Val(a) + Val(b) < Modulus
  PROVE  addq(a, b) \in Words /\ Val(addq(a, b)) = Val(a) + Val(b)
<1> DEFINE v == Val(a) + Val(b)
<1>1. v \in Nat /\ Modulus \in Nat /\ v < Modulus
  BY Parts, LimbPowers
<1> HIDE DEF v
<1>2. v % Modulus = v
  BY <1>1, SMT
<1>3. QED
  BY <1>2, AddModulo, Zenon DEF v

Grown(a, s) == a + a \div 2^s

(* A number and a fraction of it.                                          *)
LEMMA Refined ==
  ASSUME NEW a \in Words, NEW s \in {4, 8, 16, 32},
         Grown(Val(a), s) < Modulus
  PROVE  Refine(a, s) \in Words /\ Val(Refine(a, s)) = Grown(Val(a), s)
<1>1. shrlq(a, s) \in Words /\ Val(shrlq(a, s)) = Val(a) \div 2^s
  BY RightBy
<1>2. Val(a) + Val(shrlq(a, s)) < Modulus
  BY <1>1, Zenon DEF Grown
<1>3. QED
  BY <1>1, <1>2, AddFits, Zenon DEF Refine, Grown

(* What toString makes of a number, shift by shift, and a tenth of it.     *)
Approaches(v, v0, v1, v2, v3, v4, t) ==
  /\ v0 = v \div 2^1 + v \div 2^2
  /\ v1 = Grown(v0, 4) /\ v2 = Grown(v1, 8) /\ v3 = Grown(v2, 16) /\ v4 = Grown(v3, 32)
  /\ t = v4 \div 2^3

LEMMA Added ==
  ASSUME NEW m \in Nat, m > 0, NEW a \in Nat
  PROVE  /\ a + a \div m \in Nat
         /\ m * (a + a \div m) <= (m + 1) * a /\ (m + 1) * a <= m * (a + a \div m) + (m - 1)
<1> DEFINE k == a \div m  r == a % m
<1>1. k \in Nat /\ r \in Nat /\ r < m /\ a = k * m + r
  BY Quotients
<1> HIDE DEF k, r
<1>2. m * (a + k) = m * a + k * m /\ (m + 1) * a = m * a + a /\ m * a \in Nat /\ k * m \in Nat
  BY <1>1, SMT
<1>3. QED
  BY <1>1, <1>2 DEF k

(* Between which bounds a number grows.                                    *)
Between(m, a, b) == b \in Nat /\ m * b <= (m + 1) * a /\ (m + 1) * a <= m * b + (m - 1)

LEMMA GrownBounds ==
  ASSUME NEW a \in Nat
  PROVE  /\ Between(16, a, Grown(a, 4)) /\ Between(256, a, Grown(a, 8))
         /\ Between(65536, a, Grown(a, 16)) /\ Between(4294967296, a, Grown(a, 32))
<1>1. \A m \in Nat : m > 0 => Between(m, a, a + a \div m)
  BY Added, SMT DEF Between
<1>2. /\ Between(2^4, a, Grown(a, 4)) /\ Between(2^8, a, Grown(a, 8))
      /\ Between(2^16, a, Grown(a, 16)) /\ Between(2^32, a, Grown(a, 32))
  <2>1. \A s \in {1, 2, 3, 4, 8, 16, 32} : 2^s \in Nat /\ 2^s > 0
    BY ShiftPowers, Zenon DEF Shift
  <2>2. \A s \in {1, 2, 3, 4, 8, 16, 32} : Between(2^s, a, Grown(a, s))
    BY <1>1, <2>1, Zenon DEF Grown
  <2>3. QED
    BY <2>2, Zenon
<1>3. QED
  BY <1>2, SmallPowers, SMT

LEMMA Parted ==
  ASSUME NEW m \in Nat
  PROVE  /\ m \div 2^1 \in Nat /\ 2 * (m \div 2^1) <= m /\ m <= 2 * (m \div 2^1) + 1
         /\ m \div 2^2 \in Nat /\ 4 * (m \div 2^2) <= m /\ m <= 4 * (m \div 2^2) + 3
         /\ m \div 2^3 \in Nat /\ 8 * (m \div 2^3) <= m /\ m <= 8 * (m \div 2^3) + 7
BY SmallPowers, SMT

LEMMA NearlyLinear ==
  ASSUME NEW v \in Nat, NEW v0 \in Nat, NEW v1 \in Nat, NEW v2 \in Nat, NEW v3 \in Nat, NEW v4 \in Nat,
         NEW t \in Nat,
         4 * v0 <= 3 * v, 3 * v <= 4 * v0 + 5,
         16 * v1 <= 17 * v0, 17 * v0 <= 16 * v1 + 15,
         256 * v2 <= 257 * v1, 257 * v1 <= 256 * v2 + 255,
         65536 * v3 <= 65537 * v2, 65537 * v2 <= 65536 * v3 + 65535,
         4294967296 * v4 <= 4294967297 * v3, 4294967297 * v3 <= 4294967296 * v4 + 4294967295,
         8 * t <= v4, v4 <= 8 * t + 7, NEW h \in Nat, h <= 4294967296, v <= 4294967296 * h
  PROVE  /\ v0 <= v /\ v1 <= v /\ v2 <= v /\ v3 <= v /\ v4 <= v
         /\ 10 * t <= v /\ v <= 10 * t + 19
<1>1. v0 <= v /\ v1 <= v /\ v2 <= v
  BY SMT
<1>2. v3 <= v
  BY SMT
<1>3. v4 <= v
  BY SMT
<1>4. 10 * t <= v
  BY SMT
<1>5. v <= 10 * t + 19
  BY SMT
<1>6. QED
  BY <1>1, <1>2, <1>3, <1>4, <1>5
LEMMA Nearly ==
  ASSUME NEW v \in Nat, v < Modulus, NEW v0, NEW v1, NEW v2, NEW v3, NEW v4, NEW t,
         Approaches(v, v0, v1, v2, v3, v4, t)
  PROVE  /\ v0 \in Nat /\ v1 \in Nat /\ v2 \in Nat /\ v3 \in Nat /\ v4 \in Nat /\ t \in Nat
         /\ v0 <= v /\ v1 <= v /\ v2 <= v /\ v3 <= v /\ v4 <= v
         /\ 10 * t <= v /\ v <= 10 * t + 19
         /\ v <= 255 => v <= 10 * t + 15
<1> DEFINE h == v \div 2^1  f == v \div 2^2
<1>0. /\ v0 = h + f /\ v1 = Grown(v0, 4) /\ v2 = Grown(v1, 8) /\ v3 = Grown(v2, 16)
      /\ v4 = Grown(v3, 32) /\ t = v4 \div 2^3
  BY Zenon DEF Approaches
<1>1. v0 \in Nat /\ 4 * v0 <= 3 * v /\ 3 * v <= 4 * v0 + 5
  <2>1. /\ h \in Nat /\ 2 * h <= v /\ v <= 2 * h + 1
        /\ f \in Nat /\ 4 * f <= v /\ v <= 4 * f + 3
    BY Parted, Zenon
  <2> HIDE DEF h, f
  <2>2. v0 = h + f
    BY <1>0
  <2>3. QED
    BY <2>1, <2>2, SMT
<1> HIDE DEF h, f
<1>2. Between(16, v0, v1)
  BY <1>0, <1>1, GrownBounds
<1>3. Between(256, v1, v2)
  <2>1. v1 \in Nat
    BY <1>2, SMT DEF Between
  <2>2. QED
    BY <1>0, <2>1, GrownBounds
<1>4. Between(65536, v2, v3)
  <2>1. v2 \in Nat
    BY <1>3, SMT DEF Between
  <2>2. QED
    BY <1>0, <2>1, GrownBounds
<1>5. Between(4294967296, v3, v4)
  <2>1. v3 \in Nat
    BY <1>4, SMT DEF Between
  <2>2. QED
    BY <1>0, <2>1, GrownBounds
<1>6. t \in Nat /\ 8 * t <= v4 /\ v4 <= 8 * t + 7
  <2>1. v4 \in Nat
    BY <1>5, SMT DEF Between
  <2>2. QED
    BY <1>0, <2>1, Parted, Zenon
<1>7. /\ v1 \in Nat /\ 16 * v1 <= 17 * v0 /\ 17 * v0 <= 16 * v1 + 15
      /\ v2 \in Nat /\ 256 * v2 <= 257 * v1 /\ 257 * v1 <= 256 * v2 + 255
      /\ v3 \in Nat /\ 65536 * v3 <= 65537 * v2 /\ 65537 * v2 <= 65536 * v3 + 65535
      /\ v4 \in Nat /\ 4294967296 * v4 <= 4294967297 * v3 /\ 4294967297 * v3 <= 4294967296 * v4 + 4294967295
  BY <1>1, <1>2, <1>3, <1>4, <1>5, SMT DEF Between
<1>8. \E k \in Nat : k <= 4294967296 /\ v <= 4294967296 * k
  <2>1. Half \in Nat /\ Half <= 4294967296 /\ v <= 4294967296 * Half
    BY Widths, SMT DEF Modulus
  <2>2. QED
    BY <2>1, SMT
<1>9. v0 <= v /\ v1 <= v /\ v2 <= v /\ v3 <= v /\ v4 <= v /\ 10 * t <= v /\ v <= 10 * t + 19
  BY <1>1, <1>6, <1>7, <1>8, NearlyLinear, SMT
<1>10. v <= 255 => v <= 10 * t + 15
  <2> SUFFICES ASSUME v <= 255 PROVE v <= 10 * t + 15
    OBVIOUS
  <2>1. v2 >= v1 /\ v3 >= v2 /\ v4 >= v3
    BY <1>1, <1>7, <1>9, SMT
  <2>2. QED
    BY <1>1, <1>6, <1>7, <1>9, SMT
<1>11. QED
  BY <1>1, <1>6, <1>7, <1>9, <1>10, SMT

LEMMA ApproachesValue ==
  ASSUME NEW n \in Words
  PROVE  LET q == shrlq(EightTenths(n), 3)
         IN /\ q \in Words
            /\ \E v0, v1, v2, v3, v4 : Approaches(Val(n), v0, v1, v2, v3, v4, Val(q))
<1> DEFINE q0 == addq(shrlq(n, 1), shrlq(n, 2))
           q1 == Refine(q0, 4)  q2 == Refine(q1, 8)  q3 == Refine(q2, 16)  q4 == Refine(q3, 32)
           q  == shrlq(q4, 3)
           v  == Val(n)
           v0 == v \div 2^1 + v \div 2^2
           v1 == Grown(v0, 4)  v2 == Grown(v1, 8)  v3 == Grown(v2, 16)  v4 == Grown(v3, 32)
           t  == v4 \div 2^3
<1>1. q = shrlq(EightTenths(n), 3)
  BY Zenon DEF EightTenths
<1>2. v \in Nat /\ v < Modulus /\ Modulus \in Nat
  BY Parts, LimbPowers
<1>3. Approaches(v, v0, v1, v2, v3, v4, t)
  BY Zenon DEF Approaches
<1>4. /\ v0 \in Nat /\ v1 \in Nat /\ v2 \in Nat /\ v3 \in Nat /\ v4 \in Nat
      /\ v0 <= v /\ v1 <= v /\ v2 <= v /\ v3 <= v /\ v4 <= v
  <2> HIDE DEF v, v0, v1, v2, v3, v4, t
  <2>1. QED
    BY <1>2, <1>3, Nearly
<1>5. v0 < Modulus /\ v1 < Modulus /\ v2 < Modulus /\ v3 < Modulus
  <2> HIDE DEF v0, v1, v2, v3, v4, v
  <2>1. QED
    BY <1>2, <1>4
<1> HIDE DEF q0, q1, q2, q3, q4, v
<1>6. q0 \in Words /\ Val(q0) = v0
  <2>1. /\ shrlq(n, 1) \in Words /\ Val(shrlq(n, 1)) = v \div 2^1
        /\ shrlq(n, 2) \in Words /\ Val(shrlq(n, 2)) = v \div 2^2
    BY RightBy, Zenon DEF v
  <2> HIDE DEF v0
  <2>2. Val(shrlq(n, 1)) + Val(shrlq(n, 2)) < Modulus
    BY <1>5, <2>1 DEF v0
  <2>3. QED
    BY <2>1, <2>2, AddFits DEF q0, v0
<1> HIDE DEF v0
<1>7. q1 \in Words /\ Val(q1) = v1
  BY <1>5, <1>6, Refined, Zenon DEF q1
<1> HIDE DEF v1
<1>8. q2 \in Words /\ Val(q2) = v2
  BY <1>5, <1>7, Refined, Zenon DEF q2
<1> HIDE DEF v2
<1>9. q3 \in Words /\ Val(q3) = v3
  BY <1>5, <1>8, Refined, Zenon DEF q3
<1> HIDE DEF v3
<1>10. q4 \in Words /\ Val(q4) = v4
  <2>1. v4 < Modulus
    <3> HIDE DEF v4
    <3>1. QED
      BY <1>2, <1>4
  <2>2. QED
    BY <1>9, <2>1, Refined, Zenon DEF q4
<1> HIDE DEF v4
<1>11. q \in Words /\ Val(q) = t
  BY <1>10, RightBy, Zenon
<1> HIDE DEF q, t
<1>12. QED
  BY <1>1, <1>3, <1>11, Zenon DEF v

(* The product of a number by one that has nothing in its high word.       *)
LEMMA TimesFits ==
  ASSUME NEW a \in Words, NEW k \in Nat, k < Half, k * Val(a) < Modulus
  PROVE  mulq(a, uint64(0, k)) \in Words /\ Val(mulq(a, uint64(0, k))) = k * Val(a)
<1> DEFINE b == uint64(0, k)  m == Val(a)
<1>1. b = [hi |-> 0, lo |-> k] /\ b \in Words
  <2>1. 0 \in Nat /\ 0 < Half
    BY LimbPowers
  <2>2. QED
    BY <2>1, Word
<1>2. /\ a.hi \in Nat /\ a.lo \in Nat /\ a.lo < Half /\ m = a.hi * Half + a.lo
      /\ Half \in Nat /\ Half > 0 /\ Modulus = Half * Half /\ Modulus \in Nat /\ m \in Nat
  BY Parts, LimbPowers DEF Val, Modulus
<1>3. m \div Half = a.hi /\ m % Half = a.lo
  <2>1. (a.hi * Half + a.lo) \div Half = a.hi /\ (a.hi * Half + a.lo) % Half = a.lo
    BY <1>2, Remainder
  <2>2. QED
    BY <1>2, <2>1, Zenon
<1>4. Product(m, b) = ((a.hi * k + a.lo * 0) % Half) * Half + a.lo * k
  <2>1. b.lo = k /\ b.hi = 0
    BY <1>1
  <2> HIDE DEF b
  <2>2. QED
    BY <1>3, <2>1, Zenon DEF Product
<1>5. /\ a.hi * k \in Nat /\ a.lo * k \in Nat /\ a.lo * 0 = 0
      /\ (a.hi * k) * Half \in Nat
      /\ k * m = (a.hi * k) * Half + a.lo * k
  <2>1. a.hi * k \in Nat /\ a.lo * k \in Nat /\ a.lo * 0 = 0 /\ (a.hi * k) * Half \in Nat
    BY <1>2, SMT
  <2>2. k * (a.hi * Half + a.lo) = (a.hi * k) * Half + a.lo * k
    BY <1>2, SMT
  <2>3. QED
    BY <1>2, <2>1, <2>2, Zenon
<1> HIDE DEF b, m
<1>6. a.hi * k < Half
  <2>1. \A i \in Nat : i >= Half => i * Half >= Half * Half
    BY <1>2, SMT
  <2>2. (a.hi * k) * Half <= k * m
    BY <1>5
  <2>3. (a.hi * k) * Half < Half * Half
    BY <1>2, <1>5, <2>2 DEF m
  <2> DEFINE i == a.hi * k
  <2>4. i \in Nat /\ i * Half < Half * Half /\ i * Half \in Nat /\ Half * Half \in Nat
    BY <1>2, <1>5, <2>3
  <2> HIDE DEF i
  <2>5. i < Half
    BY <1>2, <2>1, <2>4
  <2>6. QED
    BY <2>5 DEF i
<1>7. (a.hi * k + a.lo * 0) % Half = a.hi * k
  <2> DEFINE i == a.hi * k  z == a.lo * 0
  <2>1. i \in Nat /\ i < Half /\ z = 0
    BY <1>5, <1>6
  <2> HIDE DEF i, z
  <2>2. (i + z) % Half = i
    BY <1>2, <2>1, SMT
  <2>3. QED
    BY <2>2 DEF i, z
<1>8. Product(m, b) = k * m
  BY <1>4, <1>5, <1>7, Zenon
<1>9. (k * m) % Modulus = k * m
  <2> DEFINE i == k * m
  <2>1. i \in Nat /\ i < Modulus
    BY <1>5 DEF m
  <2> HIDE DEF i
  <2>2. i % Modulus = i
    BY <1>2, <2>1, SMT
  <2>3. QED
    BY <2>2 DEF i
<1>10. QED
  BY <1>1, <1>8, <1>9, MulExact, Zenon DEF b, m

LEMMA SubFits ==
  ASSUME NEW a \in Words, NEW b \in Words, Val(b) <= Val(a)
  PROVE  subq(a, b) \in Words /\ Val(subq(a, b)) = Val(a) - Val(b)
<1> DEFINE m == Val(a)  n == Val(b)
<1>1. m \in Nat /\ n \in Nat /\ m < Modulus /\ Modulus \in Nat
  BY Parts, LimbPowers
<1>2. subq(a, b) \in Words /\ Val(subq(a, b)) = (m + Modulus - n) % Modulus
  BY SubModulo, Zenon
<1> HIDE DEF m, n
<1>3. n <= m
  BY DEF m, n
<1>4. (m + Modulus - n) % Modulus = m - n
  <2>1. m - n \in Nat /\ m - n < Modulus /\ m + Modulus - n = 1 * Modulus + (m - n) /\ Modulus > 0
    BY <1>1, <1>3
  <2>2. (1 * Modulus + (m - n)) % Modulus = m - n
    BY <1>1, <2>1, Remainder
  <2>3. QED
    BY <2>1, <2>2, Zenon
<1>5. QED
  BY <1>2, <1>4, Zenon DEF m, n

LEMMA SmallWord ==
  ASSUME NEW k \in Nat, k < Half
  PROVE  uint64(0, k) = [hi |-> 0, lo |-> k] /\ uint64(0, k) \in Words /\ Val(uint64(0, k)) = k
<1>1. uint64(0, k) = [hi |-> 0, lo |-> k] /\ uint64(0, k) \in Words
  <2>1. 0 \in Nat /\ 0 < Half
    BY LimbPowers
  <2>2. QED
    BY <2>1, Word
<1>2. Val(uint64(0, k)) = 0 * Half + k
  BY <1>1 DEF Val
<1>3. 0 * Half + k = k
  BY LimbPowers, SMT
<1>4. QED
  BY <1>1, <1>2, <1>3

(* A number less than the low word holds is the low word.                  *)
LEMMA InLowWord ==
  ASSUME NEW a \in Words, Val(a) < Half
  PROVE  a.lo = Val(a)
<1>1. a.hi \in Nat /\ a.lo \in Nat /\ Half \in Nat /\ Half > 0 /\ Val(a) = a.hi * Half + a.lo
  BY Parts, LimbPowers DEF Val
<1>2. \A i \in Nat : i > 0 => i * Half >= Half
  BY <1>1, SMT
<1>3. a.hi * Half \in Nat
  BY <1>1, Times, Zenon
<1>4. a.hi = 0
  BY <1>1, <1>2, <1>3
<1>5. 0 * Half + a.lo = a.lo
  BY <1>1, SMT
<1>6. QED
  BY <1>1, <1>4, <1>5

(* Tenth divides by ten.                                                   *)
LEMMA TenthExact ==
  ASSUME NEW n \in Words
  PROVE  /\ Tenth(n).quotient \in Words
         /\ Tenth(n).digit \in 0..9
         /\ Val(n) = 10 * Val(Tenth(n).quotient) + Tenth(n).digit
<1> DEFINE q == shrlq(EightTenths(n), 3)
           r == subq(n, mulq(q, uint64(0, 10)))
           o == (r.lo + 6) \div 16
<1>1. Tenth(n) = [quotient |-> addq(q, uint64(0, o)), digit |-> r.lo - o * 10]
  BY DEF Tenth
<1>2. q \in Words /\ \E v0, v1, v2, v3, v4 : Approaches(Val(n), v0, v1, v2, v3, v4, Val(q))
  BY ApproachesValue, Zenon
<1> HIDE DEF q
<1>3. /\ Val(n) \in Nat /\ Val(n) < Modulus /\ Val(q) \in Nat /\ Modulus \in Nat
      /\ Half \in Nat /\ 10 < Half
  BY <1>2, Parts, LimbPowers, Widths, SMT
<1>4. /\ 10 * Val(q) <= Val(n) /\ Val(n) <= 10 * Val(q) + 19
      /\ Val(n) <= 255 => Val(n) <= 10 * Val(q) + 15
  BY <1>2, <1>3, Nearly, Zenon
<1>5. mulq(q, uint64(0, 10)) \in Words /\ Val(mulq(q, uint64(0, 10))) = 10 * Val(q)
  <2>1. 10 * Val(q) < Modulus /\ 10 \in Nat
    BY <1>3, <1>4
  <2>2. QED
    BY <1>2, <1>3, <2>1, TimesFits
<1>6. r \in Words /\ Val(r) = Val(n) - 10 * Val(q)
  BY <1>4, <1>5, SubFits, Zenon
<1> HIDE DEF r
<1>7. Val(r) < Half
  <2>1. Half > 19 \/ Modulus = 256
    BY Widths, SMT DEF Modulus
  <2>2. Half >= 16
    BY Widths, SMT
  <2>3. QED
    BY <1>3, <1>4, <1>6, <2>1, <2>2
<1>8. r.lo = Val(r)
  BY <1>6, <1>7, InLowWord
<1>9. r.lo \in Nat /\ r.lo <= 19 /\ Val(n) = 10 * Val(q) + r.lo
  BY <1>3, <1>4, <1>6, <1>8
<1> DEFINE l == r.lo
<1>10. o = (IF l >= 10 THEN 1 ELSE 0)
  <2> DEFINE p == (l + 6) \div 16
  <2>1. l \in Nat /\ l <= 19
    BY <1>9
  <2>2. p \in Nat /\ 16 * p <= l + 6 /\ l + 6 <= 16 * p + 15
    <3> HIDE DEF l
    <3>1. QED
      BY <2>1, SMT
  <2> HIDE DEF l, p
  <2>3. p = (IF l >= 10 THEN 1 ELSE 0)
    BY <2>1, <2>2, SMT
  <2>4. QED
    BY <2>3 DEF l, p
<1> HIDE DEF o
<1>11. o \in Nat /\ o < Half /\ Val(q) + o < Modulus /\ l - o * 10 \in 0..9
       /\ Val(n) = 10 * (Val(q) + o) + (l - o * 10)
  <2>1. l \in Nat /\ l <= 19 /\ Val(n) = 10 * Val(q) + l
    BY <1>9
  <2> HIDE DEF l
  <2>2. o \in Nat /\ o <= 1 /\ l - o * 10 \in 0..9 /\ Val(n) = 10 * (Val(q) + o) + (l - o * 10)
    BY <1>3, <1>10, <2>1
  <2>3. QED
    BY <1>3, <2>1, <2>2
<1>12. uint64(0, o) \in Words /\ Val(uint64(0, o)) = o
  BY <1>11, SmallWord
<1>13. addq(q, uint64(0, o)) \in Words /\ Val(addq(q, uint64(0, o))) = Val(q) + o
  BY <1>2, <1>11, <1>12, AddFits
<1>14. Tenth(n).quotient = addq(q, uint64(0, o)) /\ Tenth(n).digit = l - o * 10
  BY <1>1
<1> HIDE DEF l
<1>15. QED
  BY <1>11, <1>13, <1>14, Zenon

----------------------------------------------------------------------------
(* The digits that toString writes.                                        *)
Solves(f, S, rank, next, digit) ==
  f = [n \in S |-> IF rank[n] = 0 THEN << >> ELSE Append(f[next[n]], digit[n])]

(* A recursion of this form has a solution when it goes down.              *)
LEMMA Descends ==
  ASSUME NEW S, NEW rank \in [S -> Nat], NEW next \in [S -> S], NEW digit, NEW top \in Nat,
         \A n \in S : rank[n] < top,
         \A n \in S : rank[n] # 0 => rank[next[n]] < rank[n]
  PROVE  \E f : Solves(f, S, rank, next, digit)
<1> DEFINE Under(k) == { n \in S : rank[n] < k }
           Eq(f, n) == f[n] = IF rank[n] = 0 THEN << >> ELSE Append(f[next[n]], digit[n])
           Has(k) == \E f : f = [n \in Under(k) |-> f[n]] /\ \A n \in Under(k) : Eq(f, n)
           Bad == { k \in 0..top : ~ Has(k) }
<1> HIDE DEF Has
<1>1. SUFFICES ASSUME Bad # {} PROVE FALSE
  <2>1. Has(top)
    BY <1>1
  <2>2. PICK f : f = [n \in Under(top) |-> f[n]] /\ \A n \in Under(top) : Eq(f, n)
    BY <2>1, Zenon DEF Has
  <2>3. Under(top) = S
    OBVIOUS
  <2>4. f = [n \in S |-> f[n]] /\ \A n \in S : Eq(f, n)
    BY <2>2, <2>3, Zenon
  <2>5. f = [n \in S |-> IF rank[n] = 0 THEN << >> ELSE Append(f[next[n]], digit[n])]
    <3>1. \A n \in S : f[n] = IF rank[n] = 0 THEN << >> ELSE Append(f[next[n]], digit[n])
      BY <2>4, Zenon
    <3>2. QED
      BY <2>4, <3>1, Zenon
  <2>6. QED
    BY <2>5, Zenon DEF Solves
<1>2. PICK k \in Bad : \A j \in Bad : k <= j
  <2>1. Bad \in SUBSET Nat
    OBVIOUS
  <2>2. QED
    BY <1>1, <2>1, NatMin
<1>3. Has(0)
  <2> DEFINE f == [n \in Under(0) |-> << >>]
  <2>1. Under(0) = {}
    OBVIOUS
  <2>2. f = [n \in Under(0) |-> f[n]] /\ \A n \in Under(0) : Eq(f, n)
    BY <2>1
  <2>3. QED
    BY <2>2, Zenon DEF Has
<1>4. k # 0 /\ k - 1 \in Nat /\ k \in Nat /\ Has(k - 1)
  <2>1. k \in 0..top /\ ~ Has(k)
    OBVIOUS
  <2>2. k # 0
    BY <2>1, <1>3
  <2>3. k - 1 \in 0..top /\ k - 1 \notin Bad
    BY <2>1, <2>2, <1>2
  <2>4. QED
    BY <2>1, <2>2, <2>3
<1>5. PICK g : g = [n \in Under(k - 1) |-> g[n]] /\ \A n \in Under(k - 1) : Eq(g, n)
  BY <1>4, Zenon DEF Has
<1> DEFINE f == [n \in Under(k) |-> IF rank[n] < k - 1 THEN g[n]
                                    ELSE IF rank[n] = 0 THEN << >> ELSE Append(g[next[n]], digit[n])]
<1>6. \A n \in Under(k) : rank[n] # 0 => next[n] \in Under(k) /\ rank[next[n]] < k - 1
  BY <1>4
<1>7. \A n \in Under(k) : rank[n] # 0 => f[next[n]] = g[next[n]]
  BY <1>6
<1>8. \A n \in Under(k) : Eq(f, n)
  <2> SUFFICES ASSUME NEW n \in Under(k) PROVE Eq(f, n)
    OBVIOUS
  <2>1. CASE rank[n] < k - 1
    <3>1. n \in Under(k - 1) /\ f[n] = g[n]
      BY <2>1
    <3>2. g[n] = IF rank[n] = 0 THEN << >> ELSE Append(g[next[n]], digit[n])
      BY <1>5, <3>1
    <3> HIDE DEF f
    <3>3. QED
      BY <1>7, <3>1, <3>2
  <2>2. CASE ~ (rank[n] < k - 1)
    <3>1. f[n] = IF rank[n] = 0 THEN << >> ELSE Append(g[next[n]], digit[n])
      BY <2>2
    <3> HIDE DEF f
    <3>2. QED
      BY <1>7, <3>1
  <2>3. QED
    BY <2>1, <2>2
<1>9. f = [n \in Under(k) |-> f[n]]
  OBVIOUS
<1> HIDE DEF f
<1>10. Has(k)
  BY <1>8, <1>9, Zenon DEF Has
<1>11. QED
  BY <1>10

LEMMA Zero == \A n \in Words : Val(n) = 0 <=> ~ tstq(n)
<1> SUFFICES ASSUME NEW n \in Words PROVE Val(n) = 0 <=> ~ tstq(n)
  OBVIOUS
<1>1. n.hi \in Nat /\ n.lo \in Nat /\ Half \in Nat /\ Half > 0
  BY Parts, LimbPowers
<1>2. \A i, j \in Nat : i * Half + j = 0 <=> i = 0 /\ j = 0
  BY <1>1, SMT
<1>3. QED
  BY <1>1, <1>2 DEF Val, tstq

LEMMA TenthLess ==
  ASSUME NEW n \in Words, Val(n) # 0
  PROVE  Val(Tenth(n).quotient) < Val(n)
<1>1. /\ Val(n) \in Nat /\ Val(Tenth(n).quotient) \in Nat /\ Tenth(n).digit \in 0..9
      /\ Val(n) = 10 * Val(Tenth(n).quotient) + Tenth(n).digit
  BY TenthExact, Parts
<1>2. QED
  BY <1>1

LEMMA DigitsEquation ==
  ASSUME NEW n \in Words
  PROVE  Digits[n] = IF Val(n) = 0 THEN << >> ELSE Append(Digits[Tenth(n).quotient], Tenth(n).digit)
<1> DEFINE Eq(f) == f = [m \in Words |-> IF ~ tstq(m) THEN << >>
                                         ELSE Append(f[Tenth(m).quotient], Tenth(m).digit)]
           rank == [m \in Words |-> Val(m)]
           next == [m \in Words |-> Tenth(m).quotient]
           digit == [m \in Words |-> Tenth(m).digit]
<1>1. Digits = CHOOSE f : Eq(f)
  BY DEF Digits
<1>2. \E f : Solves(f, Words, rank, next, digit)
  <2>1. rank \in [Words -> Nat] /\ \A m \in Words : rank[m] < Modulus
    BY Parts
  <2>2. next \in [Words -> Words]
    BY TenthExact
  <2>3. \A m \in Words : rank[m] # 0 => rank[next[m]] < rank[m]
    BY TenthExact, TenthLess
  <2>4. Modulus \in Nat
    BY LimbPowers
  <2> HIDE DEF rank, next, digit
  <2>5. QED
    BY <2>1, <2>2, <2>3, <2>4, Descends, Zenon
<1>3. PICK f : f = [m \in Words |-> IF rank[m] = 0 THEN << >> ELSE Append(f[next[m]], digit[m])]
  BY <1>2, Zenon DEF Solves
<1>4. Eq(f)
  <2>1. \A m \in Words : (IF rank[m] = 0 THEN << >> ELSE Append(f[next[m]], digit[m]))
                         = IF ~ tstq(m) THEN << >> ELSE Append(f[Tenth(m).quotient], Tenth(m).digit)
    <3>1. \A m \in Words : rank[m] = Val(m) /\ next[m] = Tenth(m).quotient /\ digit[m] = Tenth(m).digit
      OBVIOUS
    <3> HIDE DEF rank, next, digit
    <3>2. QED
      BY <3>1, Zero
  <2> HIDE DEF rank, next, digit
  <2>2. QED
    BY <1>3, <2>1
<1> HIDE DEF Eq
<1>5. Eq(Digits)
  BY <1>1, <1>4
<1>6. Digits[n] = IF ~ tstq(n) THEN << >> ELSE Append(Digits[Tenth(n).quotient], Tenth(n).digit)
  BY <1>5 DEF Eq
<1>7. QED
  BY <1>6, Zero

(* Numbers of one value are one number.                                    *)
LEMMA OneNumber ==
  ASSUME NEW a \in Words, NEW b \in Words, Val(a) = Val(b)
  PROVE  a = b
<1>1. /\ a.hi \in Nat /\ a.lo \in Nat /\ b.hi \in Nat /\ b.lo \in Nat
      /\ Val(a) \in Nat /\ a = [hi |-> a.hi, lo |-> a.lo] /\ b = [hi |-> b.hi, lo |-> b.lo]
  BY Parts DEF Words
<1>2. ~ (a.hi > b.hi) /\ ~ (b.hi > a.hi)
  BY <1>1, HigherWord
<1>3. a.hi = b.hi
  BY <1>1, <1>2
<1>4. ~ (a.lo > b.lo) /\ ~ (b.lo > a.lo)
  BY <1>1, <1>3, HigherWord
<1>5. a.lo = b.lo
  BY <1>1, <1>4
<1>6. QED
  BY <1>1, <1>3, <1>5, Zenon

(* What toString writes of a number that is not 0.                         *)
SpelledOut(n) ==
  /\ Digits[n] \in Seq(0..9)
  /\ NumberOf(Digits[n], 10) = Val(n)
  /\ OfDecimal(Digits[n]) = n
  /\ Val(n) # 0 => Len(Digits[n]) > 0 /\ Digits[n][1] # 0

LEMMA SpelledOutAll == \A n \in Words : SpelledOut(n)
<1> DEFINE Bad == { k \in Nat : \E n \in Words : Val(n) = k /\ ~ SpelledOut(n) }
<1>1. SUFFICES ASSUME Bad # {} PROVE FALSE
  BY Parts
<1>2. PICK k \in Bad : \A j \in Bad : k <= j
  <2>1. Bad \in SUBSET Nat
    OBVIOUS
  <2>2. QED
    BY <1>1, <2>1, NatMin
<1>3. PICK n \in Words : Val(n) = k /\ ~ SpelledOut(n)
  OBVIOUS
<1> DEFINE q == Tenth(n).quotient  d == Tenth(n).digit  s == Digits[q]
<1>4. \A a \in Words : Val(a) < Val(n) => SpelledOut(a)
  <2>1. \A a \in Words : Val(a) \in Nat /\ Val(a) < k => Val(a) \notin Bad
    BY <1>2
  <2>2. \A a \in Words : Val(a) \in Nat /\ Val(a) < k => SpelledOut(a)
    BY <2>1
  <2>3. QED
    BY <1>3, <2>2, Parts, Zenon
<1> HIDE DEF Bad
<1>5. Val(n) # 0
  <2>1. SUFFICES ASSUME Val(n) = 0 PROVE FALSE
    OBVIOUS
  <2>2. Digits[n] = << >>
    BY <2>1, DigitsEquation
  <2>3. NumberOf(<< >>, 10) = 0 /\ << >> \in Seq(0..9)
    BY NumberNone
  <2>4. n = uint64(0, 0)
    <3>1. 0 \in Nat /\ 0 < Half
      BY LimbPowers
    <3>2. uint64(0, 0) \in Words /\ Val(uint64(0, 0)) = 0
      BY <3>1, SmallWord
    <3>3. QED
      BY <2>1, <3>2, OneNumber, Zenon
  <2>5. SpelledOut(n)
    BY <2>1, <2>2, <2>3, <2>4, DecimalNone, Zenon DEF SpelledOut
  <2>6. QED
    BY <1>3, <2>5
<1>6. q \in Words /\ d \in 0..9 /\ Val(n) = 10 * Val(q) + d /\ Val(q) < Val(n)
  BY <1>5, TenthExact, TenthLess
<1>7. Digits[n] = Append(s, d)
  BY <1>5, DigitsEquation
<1>8. /\ s \in Seq(0..9) /\ NumberOf(s, 10) = Val(q) /\ OfDecimal(s) = q
      /\ Val(q) # 0 => Len(s) > 0 /\ s[1] # 0
  BY <1>4, <1>6, Zenon DEF SpelledOut
<1>9. Val(q) = 0 => s = << >>
  BY <1>6, DigitsEquation
<1> HIDE DEF q, d, s
<1>10. Append(s, d) \in Seq(0..9) /\ s \in Seq(Nat) /\ d \in Nat
  BY <1>6, <1>8
<1>11. NumberOf(Append(s, d), 10) = Val(n)
  <2>1. 10 \in Nat
    OBVIOUS
  <2>2. NumberOf(Append(s, d), 10) = 10 * NumberOf(s, 10) + d
    BY <1>10, <2>1, NumberOn
  <2>3. QED
    BY <1>6, <1>8, <2>2, Zenon
<1>12. OfDecimal(Append(s, d)) = n
  <2>1. OfDecimal(Append(s, d)) = addq(mulq(q, uint64(0, 10)), uint64(0, d))
    BY <1>8, <1>10, DecimalOn
  <2>2. /\ Val(n) \in Nat /\ Val(n) < Modulus /\ Val(q) \in Nat /\ Half \in Nat /\ 10 < Half
        /\ Modulus \in Nat /\ d < Half /\ 10 * Val(q) < Modulus /\ 10 \in Nat
    <3>1. Half \in Nat /\ 10 < Half /\ Modulus \in Nat
      BY LimbPowers, Widths, SMT
    <3>2. Val(n) \in Nat /\ Val(n) < Modulus /\ Val(q) \in Nat
      BY <1>6, Parts
    <3>3. QED
      BY <1>6, <3>1, <3>2
  <2>3. mulq(q, uint64(0, 10)) \in Words /\ Val(mulq(q, uint64(0, 10))) = 10 * Val(q)
    BY <1>6, <2>2, TimesFits
  <2>4. uint64(0, d) \in Words /\ Val(uint64(0, d)) = d
    BY <1>10, <2>2, SmallWord
  <2>5. Val(mulq(q, uint64(0, 10))) + Val(uint64(0, d)) = Val(n)
    BY <1>6, <2>3, <2>4, Zenon
  <2>6. addq(mulq(q, uint64(0, 10)), uint64(0, d)) \in Words
        /\ Val(addq(mulq(q, uint64(0, 10)), uint64(0, d))) = Val(n)
    BY <2>2, <2>3, <2>4, <2>5, AddFits, Zenon
  <2>7. QED
    BY <2>1, <2>6, OneNumber, Zenon
<1>13. Len(Append(s, d)) > 0 /\ Append(s, d)[1] # 0
  <2>1. CASE Val(q) = 0
    <3>1. d # 0
      BY <1>5, <1>6, <2>1
    <3>2. QED
      BY <1>9, <2>1, <3>1
  <2>2. CASE Val(q) # 0
    BY <1>8, <1>10, <2>2
  <2>3. QED
    BY <2>1, <2>2
<1>14. SpelledOut(n)
  BY <1>7, <1>10, <1>11, <1>12, <1>13, Zenon DEF SpelledOut
<1>15. QED
  BY <1>3, <1>14

----------------------------------------------------------------------------
(* The octets of a number.                                                 *)
LEMMA OctetsNumbers == \A o \in Seq(Octet) : o \in Seq(Nat)
<1> SUFFICES ASSUME NEW o \in Seq(Octet) PROVE o \in Seq(Nat)
  OBVIOUS
<1>1. Len(o) \in Nat /\ o \in [1..Len(o) -> Nat]
  BY OctetRange
<1>2. QED
  BY <1>1, SeqDef

(* The bytes of a word make it.                                            *)
LEMMA BytesMake == \A w \in 0..(Half - 1) : NumberOf(WordBytes[w], Byte) = w
<1> DEFINE W == 0..(Half - 1)
           Bad == { w \in W : NumberOf(WordBytes[w], Byte) # w }
<1>1. SUFFICES ASSUME Bad # {} PROVE FALSE
  OBVIOUS
<1>2. PICK w \in Bad : \A j \in Bad : w <= j
  <2>1. Bad \in SUBSET Nat
    OBVIOUS
  <2>2. QED
    BY <1>1, <2>1, NatMin
<1>3. w \in W /\ NumberOf(WordBytes[w], Byte) # w
  OBVIOUS
<1>4. \A v \in W : v < w => NumberOf(WordBytes[v], Byte) = v
  <2>1. \A v \in W : v < w => v \notin Bad
    BY <1>2, <1>3
  <2>2. QED
    BY <2>1
<1> HIDE DEF Bad
<1>5. Byte \in Nat
  BY WidthFacts
<1>6. w # 0
  <2>1. 0 \in W => WordBytes[0] = << >>
    BY WordBytesEquation
  <2>2. QED
    BY <1>3, <1>5, <2>1, NumberNone
<1> DEFINE q == w \div Byte  d == w % Byte
<1>7. q \in W /\ q < w /\ d \in Nat /\ w = Byte * q + d
  <2>1. w \in Nat /\ w < Half
    BY <1>3, InWord
  <2>2. q \in Nat /\ d \in Nat /\ w = q * Byte + d /\ Byte >= 2
    BY <1>5, <2>1, WidthFacts, Quotients
  <2> HIDE DEF q, d
  <2>3. q * Byte = Byte * q /\ (q > 0 => q * Byte > q)
    BY <1>5, <2>2, SMT
  <2>4. q * Byte \in Nat
    BY <1>5, <2>2, Times, Zenon
  <2>5. q < w
    BY <1>6, <2>1, <2>2, <2>3, <2>4
  <2>6. q \in W
    <3>1. q \in Nat /\ q < Half
      BY <2>1, <2>2, <2>5, WidthFacts
    <3>2. QED
      BY <3>1, InWord
  <2>7. QED
    BY <2>2, <2>3, <2>5, <2>6
<1>8. WordBytes[w] = Append(WordBytes[q], d)
  BY <1>3, <1>6, WordBytesEquation
<1> HIDE DEF q, d
<1>9. WordBytes[q] \in Seq(Nat)
  BY <1>7, WordRoundTrip, OctetsNumbers
<1>10. NumberOf(Append(WordBytes[q], d), Byte) = Byte * NumberOf(WordBytes[q], Byte) + d
  BY <1>5, <1>7, <1>9, NumberOn
<1>11. NumberOf(WordBytes[q], Byte) = q
  BY <1>4, <1>7
<1>12. QED
  BY <1>3, <1>7, <1>8, <1>10, <1>11, Zenon

LEMMA FourNumbers ==
  ASSUME NEW p \in Seq(Nat), Len(p) = 4
  PROVE  p[1] \in Nat /\ p[2] \in Nat /\ p[3] \in Nat /\ p[4] \in Nat
<1>1. p \in [1..Len(p) -> Nat]
  BY LenProperties, Zenon
<1>2. p \in [1..4 -> Nat]
  BY <1>1, Zenon
<1>3. QED
  BY <1>2

(* Four octets more.                                                       *)
LEMMA FourAppended ==
  ASSUME NEW s \in Seq(Nat), NEW p \in Seq(Nat), Len(p) = 4
  PROVE  s \o p = Append(Append(Append(Append(s, p[1]), p[2]), p[3]), p[4])
<1> DEFINE t == Append(Append(Append(Append(s, p[1]), p[2]), p[3]), p[4])  n == Len(s)
<1>1. n \in Nat /\ p[1] \in Nat /\ p[2] \in Nat /\ p[3] \in Nat /\ p[4] \in Nat
  <2>1. p[1] \in Nat /\ p[2] \in Nat /\ p[3] \in Nat /\ p[4] \in Nat
    BY FourNumbers, Zenon
  <2>2. n \in Nat
    OBVIOUS
  <2>3. QED
    BY <2>1, <2>2
<1>2. /\ s \o p \in Seq(Nat) /\ Len(s \o p) = n + 4
      /\ \A i \in 1..n : (s \o p)[i] = s[i]
      /\ (s \o p)[n + 1] = p[1] /\ (s \o p)[n + 2] = p[2]
      /\ (s \o p)[n + 3] = p[3] /\ (s \o p)[n + 4] = p[4]
  <2>1. /\ s \o p \in Seq(Nat) /\ Len(s \o p) = Len(s) + Len(p)
        /\ \A i \in 1..(Len(s) + Len(p)) : (s \o p)[i] = IF i <= Len(s) THEN s[i] ELSE p[i - Len(s)]
    BY ConcatProperties
  <2>2. QED
    BY <2>1
<1>3. /\ t \in Seq(Nat) /\ Len(t) = n + 4
      /\ \A i \in 1..n : t[i] = s[i]
      /\ t[n + 1] = p[1] /\ t[n + 2] = p[2] /\ t[n + 3] = p[3] /\ t[n + 4] = p[4]
  BY <1>1
<1> HIDE DEF t
<1> DEFINE u == s \o p
<1>4. \A i \in 1..(n + 4) : i \in 1..n \/ i = n + 1 \/ i = n + 2 \/ i = n + 3 \/ i = n + 4
  <2>1. n \in Nat
    OBVIOUS
  <2> HIDE DEF n
  <2>2. QED
    BY <2>1
<1> HIDE DEF u, n
<1>5. \A i \in 1..(n + 4) : u[i] = t[i]
  BY <1>2, <1>3, <1>4 DEF u
<1>6. u \in Seq(Nat) /\ Len(u) = n + 4
  BY <1>2 DEF u
<1>7. u = t
  BY <1>3, <1>5, <1>6, SeqEqual
<1>8. QED
  BY <1>7 DEF u, t

LEMMA NumberFour ==
  ASSUME NEW s \in Seq(Nat), NEW p \in Seq(Octet), Len(p) = 4
  PROVE  NumberOf(s \o p, Byte) = NumberOf(s, Byte) * Half + ReadWord(p)
<1> DEFINE B == Byte  v == NumberOf(s, Byte)
           a == p[1]  b == p[2]  c == p[3]  d == p[4]
           v1 == NumberOf(Append(s, a), B)
           v2 == NumberOf(Append(Append(s, a), b), B)
           v3 == NumberOf(Append(Append(Append(s, a), b), c), B)
           v4 == NumberOf(Append(Append(Append(Append(s, a), b), c), d), B)
<1>1. a \in Nat /\ b \in Nat /\ c \in Nat /\ d \in Nat /\ p \in Seq(Nat) /\ B \in Nat
  <2>1. p \in Seq(Nat) /\ B \in Nat
    BY OctetsNumbers, WidthFacts
  <2>2. p[1] \in Nat /\ p[2] \in Nat /\ p[3] \in Nat /\ p[4] \in Nat
    BY <2>1, FourNumbers, Zenon
  <2>3. QED
    BY <2>1, <2>2
<1> HIDE DEF a, b, c, d, B
<1>2. v1 = B * NumberOf(s, B) + a /\ NumberOf(s, B) \in Nat
  BY <1>1, NumberOn
<1>3. v2 = B * v1 + b
  <2>1. Append(s, a) \in Seq(Nat)
    BY <1>1
  <2>2. QED
    BY <1>1, <2>1, NumberOn
<1>4. v3 = B * v2 + c
  <2>1. Append(Append(s, a), b) \in Seq(Nat)
    BY <1>1
  <2>2. QED
    BY <1>1, <2>1, NumberOn
<1>5. v4 = B * v3 + d
  <2>1. Append(Append(Append(s, a), b), c) \in Seq(Nat)
    BY <1>1
  <2>2. QED
    BY <1>1, <2>1, NumberOn
<1>6. NumberOf(s \o p, B) = v4
  BY <1>1, FourAppended, Zenon DEF a, b, c, d
<1>7. ReadWord(p) = ((a * B + b) * B + c) * B + d
  BY ReadWordForm DEF a, b, c, d, B
<1>8. Half = B * B * B * B
  BY WidthFacts DEF B
<1>9. \A v0 \in Nat : B * (B * (B * (B * v0 + a) + b) + c) + d = v0 * (B * B * B * B) + (((a * B + b) * B + c) * B + d)
  BY <1>1, SMT
<1> HIDE DEF v1, v2, v3, v4
<1>10. QED
  BY <1>2, <1>3, <1>4, <1>5, <1>6, <1>7, <1>8, <1>9, Zenon DEF B

(* The octets of a number make it.                                         *)
LEMMA OctetsMake ==
  ASSUME NEW n \in Words
  PROVE  NumberOf(toOctets(n), Byte) = Val(n)
<1> DEFINE h == WordBytes[n.hi]  l == WordBytes[n.lo]  p == Zeros(4 - Len(l)) \o l
<1>1. /\ n.hi \in 0..(Half - 1) /\ n.lo \in 0..(Half - 1) /\ n.hi \in Nat /\ n.lo \in Nat
      /\ Val(n) = n.hi * Half + n.lo
  BY Parts DEF Val
<1>2. n.hi = 0 => Val(n) = n.lo
  <2>1. 0 * Half + n.lo = n.lo
    BY <1>1, WidthFacts
  <2>2. QED
    BY <1>1, <2>1, Zenon
<1>3. CASE ~ tstq(n)
  <2>1. toOctets(n) = << 0 >>
    BY <1>3 DEF toOctets, tstq
  <2>2. Val(n) = 0
    BY <1>3, Zero
  <2>3. QED
    BY <2>1, <2>2, NumberOne, WidthFacts
<1>4. CASE tstq(n) /\ n.hi = 0
  <2>1. toOctets(n) = l
    BY <1>4 DEF toOctets
  <2>2. QED
    BY <1>1, <1>2, <1>4, <2>1, BytesMake
<1>5. CASE tstq(n) /\ n.hi # 0
  <2>1. toOctets(n) = (h \o Zeros(4 - Len(l))) \o l
    BY <1>5 DEF toOctets
  <2>2. h \in Seq(Octet) /\ l \in Seq(Octet) /\ Len(l) <= 4
    BY <1>1, WordRoundTrip
  <2>3. Zeros(4 - Len(l)) \in Seq(Octet)
    <3>1. 0 \in Octet
      BY OctetRange, WidthFacts
    <3> HIDE DEF l
    <3>2. QED
      BY <2>2, <3>1 DEF Zeros
  <2>4. toOctets(n) = h \o p
    <3> DEFINE zs == Zeros(4 - Len(l))
    <3> HIDE DEF h, l, zs
    <3>1. (h \o zs) \o l = h \o (zs \o l)
      BY <2>2, <2>3, ConcatAssociative DEF zs
    <3>2. QED
      BY <2>1, <3>1, Zenon DEF zs
  <2>5. p \in Seq(Octet) /\ Len(p) = 4 /\ ReadWord(p) = n.lo
    BY <1>1, PaddedRoundTrip
  <2>6. NumberOf(h, Byte) = n.hi
    BY <1>1, BytesMake
  <2>7. h \in Seq(Nat)
    BY <2>2, OctetsNumbers
  <2> HIDE DEF h, p
  <2>8. NumberOf(h \o p, Byte) = NumberOf(h, Byte) * Half + ReadWord(p)
    BY <2>5, <2>7, NumberFour
  <2>9. QED
    BY <1>1, <2>4, <2>5, <2>6, <2>8, Zenon
<1>6. QED
  BY <1>3, <1>4, <1>5

LEMMA OctetsShort ==
  ASSUME NEW n \in Words
  PROVE  /\ toOctets(n) \in Seq(Octet) /\ Len(toOctets(n)) <= 8
         /\ Len(toOctets(n)) > 1 => toOctets(n)[1] # 0
<1>1. n.hi \in 0..(Half - 1) /\ n.lo \in 0..(Half - 1) /\ n = uint64(n.hi, n.lo)
  <2>1. n.hi \in Nat /\ n.hi < Half /\ n.lo \in Nat /\ n.lo < Half /\ n = [hi |-> n.hi, lo |-> n.lo]
    BY Parts DEF Words
  <2>2. uint64(n.hi, n.lo) = [hi |-> n.hi, lo |-> n.lo]
    BY <2>1, Word
  <2>3. QED
    BY <2>1, <2>2, Parts, Zenon
<1> DEFINE o == toOctets(uint64(n.hi, n.lo))
<1>2. o \in Seq(Octet) /\ Len(o) <= 8 /\ (Len(o) > 1 => o[1] # 0)
  BY <1>1, Counter64RoundTrip
<1>3. o = toOctets(n)
  BY <1>1, Zenon
<1> HIDE DEF o
<1>4. QED
  BY <1>2, <1>3, Zenon

(* What toString writes, 0 included.                                       *)
LEMMA StringMakes ==
  ASSUME NEW n \in Words
  PROVE  /\ toString(n) \in Seq(0..9)
         /\ NumberOf(toString(n), 10) = Val(n)
         /\ OfDecimal(toString(n)) = n
         /\ Len(toString(n)) > 1 => toString(n)[1] # 0
<1>1. CASE tstq(n)
  <2>1. toString(n) = Digits[n]
    BY <1>1 DEF toString
  <2>2. Val(n) # 0
    BY <1>1, Zero
  <2>3. QED
    BY <2>1, <2>2, SpelledOutAll, Zenon DEF SpelledOut
<1>2. CASE ~ tstq(n)
  <2>1. toString(n) = << 0 >>
    BY <1>2 DEF toString
  <2>2. Val(n) = 0
    BY <1>2, Zero
  <2>3. /\ << 0 >> \in Seq(0..9) /\ ~ (Len(<< 0 >>) > 1)
        /\ << >> \in Seq(Nat) /\ 0 \in Nat /\ << 0 >> = Append(<< >>, 0) /\ 10 \in Nat
    OBVIOUS
  <2>4. NumberOf(<< 0 >>, 10) = 0
    BY <2>3, NumberOne, Zenon
  <2>5. OfDecimal(<< 0 >>) = n
    <3> DEFINE z == uint64(0, 0)
    <3>1. 0 \in Nat /\ 0 < Half /\ 10 \in Nat /\ 10 < Half /\ 0 < Modulus /\ 10 * 0 = 0 /\ 0 + 0 = 0
      BY LimbPowers, Widths, SMT DEF Modulus
    <3>2. z \in Words /\ Val(z) = 0
      BY <3>1, SmallWord
    <3>3. OfDecimal(<< 0 >>) = addq(mulq(z, uint64(0, 10)), z)
      BY <2>3, DecimalOn, DecimalNone, Zenon
    <3> HIDE DEF z
    <3>4. mulq(z, uint64(0, 10)) \in Words /\ Val(mulq(z, uint64(0, 10))) = 0
      BY <3>1, <3>2, TimesFits
    <3>5. addq(mulq(z, uint64(0, 10)), z) \in Words /\ Val(addq(mulq(z, uint64(0, 10)), z)) = 0
      <4>1. Val(mulq(z, uint64(0, 10))) + Val(z) = 0
        BY <3>1, <3>2, <3>4, Zenon
      <4>2. Val(mulq(z, uint64(0, 10))) + Val(z) < Modulus
        BY <3>1, <4>1, Zenon
      <4>3. QED
        BY <3>2, <3>4, <4>1, <4>2, AddFits, Zenon
    <3>6. QED
      BY <2>2, <3>3, <3>5, OneNumber, Zenon
  <2>6. QED
    BY <2>1, <2>2, <2>3, <2>4, <2>5, Zenon
<1>3. QED
  BY <1>1, <1>2

(***************************************************************************)
(* toString writes the digits of the number, whatever the operations it    *)
(* came from: its approximate division is never off by more than the one   *)
(* it corrects; the constructor reads the number back, and toOctets gives  *)
(* its bytes, no more than it takes.                                       *)
(***************************************************************************)
THEOREM ConvertsNumbersExactly == ArithmeticSpec => []ConvertsExactly
<1>1. ArithmeticInit => ArithmeticInv
  BY DEF ArithmeticInit, ArithmeticInv
<1>2. ArithmeticInv => ConvertsExactly
  <2> SUFFICES ASSUME ArithmeticInv, acc # NoNumber
               PROVE  /\ Shortest(toString(acc), 10) /\ OfDecimal(toString(acc)) = acc
                      /\ Shortest(toOctets(acc), Byte) /\ Len(toOctets(acc)) <= 8
    BY DEF ConvertsExactly
  <2>1. acc \in Words /\ exact = Val(acc)
    BY DEF ArithmeticInv
  <2> DEFINE s == toString(acc)  o == toOctets(acc)
  <2>2. s \in Seq(0..9) /\ NumberOf(s, 10) = exact /\ OfDecimal(s) = acc /\ (Len(s) > 1 => s[1] # 0)
    BY <2>1, StringMakes, Zenon
  <2>3. o \in Seq(Octet) /\ NumberOf(o, Byte) = exact /\ Len(o) <= 8 /\ (Len(o) > 1 => o[1] # 0)
    BY <2>1, OctetsMake, OctetsShort, Zenon
  <2> HIDE DEF s, o
  <2>4. \A i \in DOMAIN s : s[i] \in 0..(10 - 1)
    BY <2>2
  <2>5. \A i \in DOMAIN o : o[i] \in 0..(Byte - 1)
    <3>1. \A i \in DOMAIN o : o[i] \in Octet
      BY <2>3
    <3>2. QED
      BY <3>1 DEF Octet
  <2>6. Shortest(s, 10)
    BY <2>2, <2>4, Zenon DEF Shortest, NumberOf
  <2>7. Shortest(o, Byte)
    BY <2>3, <2>5, Zenon DEF Shortest, NumberOf
  <2>8. QED
    BY <2>2, <2>3, <2>6, <2>7 DEF s, o
<1>3. QED
  BY <1>1, <1>2, ExactSteps, PTL DEF ArithmeticSpec

----------------------------------------------------------------------------
(* What holds of no elements, and of one more, holds of any sequence.      *)
LEMMA OneByOne ==
  ASSUME NEW T, NEW P, << >> \in P,
         \A f \in Seq(T), d \in T : f \in P => Append(f, d) \in P
  PROVE  \A s \in Seq(T) : s \in P
<1> DEFINE Bad == { n \in Nat : \E s \in Seq(T) : Len(s) = n /\ s \notin P }
<1>1. SUFFICES ASSUME Bad # {} PROVE FALSE
  <2>1. \A s \in Seq(T) : Len(s) \in Nat
    OBVIOUS
  <2>2. QED
    BY <1>1, <2>1
<1>2. PICK n \in Bad : \A m \in Bad : n <= m
  <2>1. Bad \in SUBSET Nat
    OBVIOUS
  <2>2. QED
    BY <1>1, <2>1, NatMin
<1>3. PICK s \in Seq(T) : Len(s) = n /\ s \notin P
  OBVIOUS
<1>4. n \in Nat
  OBVIOUS
<1>5. \A f \in Seq(T) : Len(f) < n => f \in P
  <2> SUFFICES ASSUME NEW f \in Seq(T), Len(f) < n, f \notin P PROVE FALSE
    OBVIOUS
  <2>1. Len(f) \in Nat
    OBVIOUS
  <2>2. Len(f) \in Bad
    BY <2>1
  <2> HIDE DEF Bad
  <2>3. QED
    BY <1>2, <1>4, <2>1, <2>2
<1> HIDE DEF Bad
<1>6. n # 0
  <2>1. n = 0 => s = << >>
    BY <1>3
  <2>2. QED
    BY <1>3, <2>1
<1> DEFINE f == [i \in 1..(n - 1) |-> s[i]]  d == s[n]
<1>7. d \in T /\ \A i \in 1..(n - 1) : s[i] \in T
  BY <1>3, <1>4, <1>6
<1>8. f \in Seq(T) /\ Len(f) = n - 1
  <2>1. n - 1 \in Nat
    BY <1>4, <1>6
  <2>2. f \in [1..(n - 1) -> T]
    BY <1>7
  <2> HIDE DEF f
  <2>3. QED
    BY <2>1, <2>2
<1>9. s = Append(f, d)
  <2>1. \A i \in 1..(n - 1) : f[i] = s[i]
    OBVIOUS
  <2> HIDE DEF f
  <2>2. QED
    BY <1>3, <1>4, <1>6, <1>8, <2>1
<1>10. f \in P
  BY <1>4, <1>5, <1>8
<1> HIDE DEF f, d
<1>11. QED
  BY <1>3, <1>7, <1>8, <1>9, <1>10

(* A number times one that fits in a word.                                 *)
LEMMA TimesWord ==
  ASSUME NEW a \in Words, NEW k \in Nat, k < Half
  PROVE  mulq(a, uint64(0, k)) \in Words /\ Same(Val(mulq(a, uint64(0, k))), k * Val(a))
<1> DEFINE b == uint64(0, k)  m == Val(a)  v == a.hi * k  u == a.lo * k
<1>1. b \in Words /\ b.lo = k /\ b.hi = 0
  <2>1. b = [hi |-> 0, lo |-> k] /\ b \in Words
    BY SmallWord
  <2>2. QED
    BY <2>1
<1>2. /\ a.hi \in Nat /\ a.lo \in Nat /\ a.lo < Half /\ m = a.hi * Half + a.lo /\ m \in Nat
      /\ Half \in Nat /\ Half > 0 /\ Modulus = Half * Half /\ Modulus \in Nat
  BY Parts, LimbPowers DEF Val, Modulus
<1>3. m \div Half = a.hi /\ m % Half = a.lo
  <2>1. (a.hi * Half + a.lo) \div Half = a.hi /\ (a.hi * Half + a.lo) % Half = a.lo
    BY <1>2, Remainder
  <2>2. QED
    BY <1>2, <2>1, Zenon
<1>4. /\ v \in Nat /\ u \in Nat /\ a.lo * 0 = 0 /\ v + 0 = v
      /\ v * Half \in Nat /\ v % Half \in Nat /\ (v % Half) * Half \in Nat
      /\ k * m = v * Half + u
  <2>1. v \in Nat /\ u \in Nat /\ a.lo * 0 = 0 /\ v * Half \in Nat /\ v + 0 = v
    BY <1>2, SMT
  <2>2. k * (a.hi * Half + a.lo) = v * Half + u
    BY <1>2, SMT
  <2> HIDE DEF v
  <2>3. v % Half \in Nat
    BY <1>2, <2>1, Quotients
  <2>4. (v % Half) * Half \in Nat
    BY <1>2, <2>3, Times, Zenon
  <2>5. QED
    BY <1>2, <2>1, <2>2, <2>3, <2>4, Zenon
<1>5. Product(m, b) = (v % Half) * Half + u
  <2> HIDE DEF b, m
  <2>1. Product(m, b) = ((a.hi * k + a.lo * 0) % Half) * Half + a.lo * k
    BY <1>1, <1>3, Zenon DEF Product
  <2>2. QED
    BY <1>4, <2>1, Zenon
<1> HIDE DEF v, u, m, b
<1>6. Same((v % Half) * Half + u, v * Half + u)
  <2>1. Same((v % Half) * Half, v * Half)
    BY <1>2, <1>4, SameLowPart
  <2>2. (v % Half) * Half \in Int /\ v * Half \in Int /\ u \in Int
    BY <1>4
  <2>3. Same(u, u)
    BY <2>2, SameItself, Zenon
  <2>4. QED
    BY <2>1, <2>2, <2>3, SameSum
<1>7. Same(Product(m, b), k * m) /\ k * m \in Int /\ Product(m, b) \in Int
  <2>1. (v % Half) * Half + u \in Int /\ v * Half + u \in Int
    BY <1>4
  <2>2. QED
    BY <1>4, <1>5, <1>6, <2>1, Zenon
<1> DEFINE l == Long(Limbs(a), Limbs(b))
<1>8. mulq(a, b) \in Words /\ l \in Nat /\ Same(Val(mulq(a, b)), l)
  BY <1>1, LongMultiplication
<1>9. Same(Product(m, b), l)
  BY <1>1, ProductSame DEF m
<1> HIDE DEF l
<1>10. Val(mulq(a, b)) \in Int /\ l \in Int
  BY <1>8, Parts
<1>11. Same(l, Product(m, b))
  BY <1>7, <1>9, <1>10, SameBack
<1>12. Same(Val(mulq(a, b)), Product(m, b))
  BY <1>7, <1>8, <1>10, <1>11, SameTrans
<1>13. Same(Val(mulq(a, b)), k * m)
  BY <1>7, <1>10, <1>12, SameTrans
<1>14. QED
  BY <1>8, <1>13 DEF b, m

(* A decimal string makes its number, modulo 2^64.                         *)
LEMMA DecimalMakes ==
  \A digits \in Seq(0..9) : Same(Val(OfDecimal(digits)), NumberOf(digits, 10))
<1> DEFINE Makes(s) == Same(Val(OfDecimal(s)), NumberOf(s, 10))
           P == { s \in Seq(0..9) : Makes(s) }
<1>1. \A s \in Seq(0..9) : s \in Seq(Nat)
  OBVIOUS
<1>2. /\ 10 \in Nat /\ 10 < Half /\ 0 < Half
      /\ \A d \in 0..9 : d \in Nat /\ d < Half /\ Append(<< >>, d) \in Seq(0..9)
  BY Widths, SMT
<1>3. << >> \in P
  <2>1. Val(uint64(0, 0)) = 0
    BY <1>2, SmallWord
  <2>2. Val(OfDecimal(<< >>)) = 0 /\ NumberOf(<< >>, 10) = 0
    BY <1>2, <2>1, DecimalNone, NumberNone
  <2>3. << >> \in Seq(0..9) /\ Same(0, 0)
    BY SameItself
  <2>4. QED
    BY <2>2, <2>3
<1>4. ASSUME NEW f \in Seq(0..9), NEW d \in 0..9, f \in P PROVE Append(f, d) \in P
  <2> DEFINE a == OfDecimal(f)  n == NumberOf(f, 10)
             b == mulq(a, uint64(0, 10))
  <2>1. Same(Val(a), n)
    BY <1>4
  <2>2. a \in Words /\ n \in Nat /\ Val(a) \in Nat
    BY <1>1, <1>2, DecimalWord, NumberNat, Parts
  <2>3. /\ OfDecimal(Append(f, d)) = addq(b, uint64(0, d))
        /\ NumberOf(Append(f, d), 10) = 10 * n + d
    BY <1>1, <1>2, DecimalOn, NumberOn
  <2>4. uint64(0, 10) \in Words /\ Val(uint64(0, 10)) = 10 /\ uint64(0, d) \in Words /\ Val(uint64(0, d)) = d
    BY <1>2, SmallWord
  <2> HIDE DEF a, n
  <2>5. b \in Words /\ Same(Val(b), 10 * Val(a))
    BY <1>2, <2>2, TimesWord
  <2>6. Same(10 * Val(a), 10 * n)
    <3>1. Same(Val(a) * 10, n * 10)
      BY <2>1, <2>2, SameTimes
    <3>2. Val(a) * 10 = 10 * Val(a) /\ n * 10 = 10 * n
      BY <2>2
    <3>3. QED
      BY <3>1, <3>2, Zenon
  <2> HIDE DEF b
  <2>7. Val(b) \in Nat /\ 10 * Val(a) \in Nat /\ 10 * n \in Nat
    BY <2>2, <2>5, Parts
  <2>8. Same(Val(b), 10 * n)
    BY <2>5, <2>6, <2>7, SameTrans
  <2>9. Same(Val(uint64(0, d)), d)
    BY <2>4, SameItself
  <2>10. Same(Val(addq(b, uint64(0, d))), 10 * n + d)
    BY <1>2, <2>4, <2>5, <2>7, <2>8, <2>9, SameMore
  <2>11. Makes(Append(f, d))
    BY <2>3, <2>10, Zenon
  <2>12. Append(f, d) \in Seq(0..9)
    OBVIOUS
  <2>13. QED
    BY <2>11, <2>12
<1> HIDE DEF P
<1>5. \A s \in Seq(0..9) : s \in P
  BY <1>3, <1>4, OneByOne
<1>6. QED
  BY <1>5 DEF P

(* The powers of a base, as far as they are needed.                        *)
Powers(p, B, M) ==
  /\ p \in [0..M -> Nat]
  /\ p[0] = 1
  /\ \A k \in 0..M : k < M => p[k + 1] = B * p[k]

LEMMA OneDigitMore ==
  ASSUME NEW B \in Nat, NEW p \in Nat, NEW n \in Nat, NEW m \in Nat, NEW d \in 0..(B - 1), n < p
  PROVE  /\ B * (m * p + n) + d = m * (B * p) + (B * n + d)
         /\ B * n + d < B * p
<1>1. B * (m * p + n) + d = m * (B * p) + (B * n + d)
  BY SMT
<1>2. B * n + B <= B * p
  <2>1. B * (n + 1) <= B * p
    BY SMT
  <2>2. B * (n + 1) = B * n + B
    BY SMT
  <2>3. QED
    BY <2>1, <2>2
<1>3. B * n \in Nat /\ B * p \in Nat
  BY Times, Zenon
<1>4. B * n + d < B * p
  BY <1>2, <1>3
<1>5. QED
  BY <1>1, <1>4

(* The number that two strings of digits make together.                    *)
LEMMA Joined ==
  ASSUME NEW B \in Nat, NEW M \in Nat, NEW p, Powers(p, B, M), NEW s \in Seq(Nat)
  PROVE  \A t \in Seq(0..(B - 1)) : Len(t) <= M =>
            /\ NumberOf(s \o t, B) = NumberOf(s, B) * p[Len(t)] + NumberOf(t, B)
            /\ NumberOf(t, B) < p[Len(t)]
<1> DEFINE Makes(t) == Len(t) <= M =>
                          /\ NumberOf(s \o t, B) = NumberOf(s, B) * p[Len(t)] + NumberOf(t, B)
                          /\ NumberOf(t, B) < p[Len(t)]
           D == 0..(B - 1)
           P == { t \in Seq(D) : Makes(t) }
<1>1. NumberOf(s, B) \in Nat
  BY NumberNat
<1>2. << >> \in P
  <2>1. << >> \in Seq(D) /\ Len(<< >>) = 0 /\ s \o << >> = s
    OBVIOUS
  <2>2. NumberOf(<< >>, B) = 0
    BY NumberNone
  <2>3. p[0] = 1
    BY DEF Powers
  <2> HIDE DEF D
  <2>4. NumberOf(s, B) * 1 + 0 = NumberOf(s, B)
    BY <1>1
  <2>5. Makes(<< >>)
    BY <2>1, <2>2, <2>3, <2>4
  <2>6. QED
    BY <2>1, <2>5
<1>3. ASSUME NEW f \in Seq(D), NEW d \in D, f \in P PROVE Append(f, d) \in P
  <2> DEFINE k == Len(f)
  <2>1. /\ f \in Seq(Nat) /\ d \in Nat /\ k \in Nat
        /\ Append(f, d) \in Seq(D) /\ Len(Append(f, d)) = k + 1
        /\ s \o f \in Seq(Nat) /\ s \o Append(f, d) = Append(s \o f, d)
    OBVIOUS
  <2>2. Makes(f)
    BY <1>3
  <2>3. SUFFICES ASSUME k + 1 <= M
                 PROVE  /\ NumberOf(s \o Append(f, d), B)
                             = NumberOf(s, B) * p[k + 1] + NumberOf(Append(f, d), B)
                        /\ NumberOf(Append(f, d), B) < p[k + 1]
    <3> HIDE DEF k, D
    <3>1. QED
      BY <2>1
  <2>4. k \in 0..M /\ k < M /\ k <= M
    BY <2>1, <2>3
  <2>5. p[k] \in Nat /\ p[k + 1] = B * p[k]
    BY <2>4 DEF Powers
  <2> DEFINE m == NumberOf(s, B)  n == NumberOf(f, B)  q == p[k]
  <2>6. NumberOf(s \o f, B) = m * q + n /\ n < q
    BY <2>2, <2>4
  <2>7. n \in Nat /\ NumberOf(Append(f, d), B) = B * n + d
    BY <2>1, NumberOn
  <2>8. NumberOf(Append(s \o f, d), B) = B * (m * q + n) + d
    <3>1. NumberOf(Append(s \o f, d), B) = B * NumberOf(s \o f, B) + d
      BY <2>1, NumberOn
    <3>2. QED
      BY <2>6, <3>1, Zenon
  <2>9. m \in Nat /\ q \in Nat
    BY <1>1, <2>5
  <2> HIDE DEF m, n, q, k
  <2>10. /\ B * (m * q + n) + d = m * (B * q) + (B * n + d)
         /\ B * n + d < B * q
    BY <2>6, <2>7, <2>9, OneDigitMore
  <2>11. p[k + 1] = B * q
    BY <2>5 DEF q
  <2>12. QED
    BY <2>1, <2>7, <2>8, <2>10, <2>11, Zenon DEF m
<1> HIDE DEF P
<1>4. \A t \in Seq(D) : t \in P
  BY <1>2, <1>3, OneByOne
<1>5. QED
  BY <1>4 DEF P

(* The powers of 2 and of 16 that make a word.                             *)
LEMMA PowersOfTwo ==
  /\ Powers([k \in 0..32 |-> 2^k], 2, 32)
  /\ Powers([k \in 0..8 |-> 2^(4 * k)], 16, 8)
  /\ 2^WordBits = Half /\ 2^(4 * HexDigits) = Half
  /\ HexDigits \in 1..8 /\ WordBits \in 4..32
<1>1. \A k \in 0..32 : k < 32 => k \in 0..31
  OBVIOUS
<1>2. \A k \in 0..31 : 2^k \in Nat /\ 2^(k + 1) = 2 * 2^k
  BY Doubling, Zenon DEF Doubles
<1>3. 2^0 = 1
  BY SMT
<1>4. \A k \in 0..32 : 2^k \in Nat
  <2>1. 2^32 \in Nat
    BY SMT
  <2>2. \A k \in 0..32 : k \in 0..31 \/ k = 32
    OBVIOUS
  <2>3. QED
    BY <1>2, <2>1, <2>2, Zenon
<1>5. Powers([k \in 0..32 |-> 2^k], 2, 32)
  <2> DEFINE p == [k \in 0..32 |-> 2^k]
  <2>1. p \in [0..32 -> Nat]
    BY <1>4, Zenon
  <2>2. 0 \in 0..32 /\ \A k \in 0..32 : k < 32 => k + 1 \in 0..32 /\ k \in 0..31
    OBVIOUS
  <2>3. \A k \in 0..32 : p[k] = 2^k
    BY Zenon
  <2>4. \A k \in 0..32 : k < 32 => p[k + 1] = 2 * p[k]
    BY <1>2, <2>2, <2>3, Zenon
  <2>5. p[0] = 1
    BY <1>3, <2>2, <2>3, Zenon
  <2>6. QED
    BY <2>1, <2>4, <2>5, Zenon DEF Powers
<1>6. \A k \in 0..8 : k < 8 => 2^(4 * (k + 1)) = 16 * 2^(4 * k)
  <2> SUFFICES ASSUME NEW k \in 0..8, k < 8 PROVE 2^(4 * (k + 1)) = 16 * 2^(4 * k)
    OBVIOUS
  <2> DEFINE i == 4 * k
  <2>1. /\ i \in 0..31 /\ i + 1 \in 0..31 /\ i + 2 \in 0..31 /\ i + 3 \in 0..31
        /\ (i + 1) + 1 = i + 2 /\ (i + 2) + 1 = i + 3 /\ (i + 3) + 1 = 4 * (k + 1)
    OBVIOUS
  <2> HIDE DEF i
  <2>2. /\ 2^(i + 1) = 2 * 2^i /\ 2^(i + 2) = 2 * 2^(i + 1)
        /\ 2^(i + 3) = 2 * 2^(i + 2) /\ 2^(4 * (k + 1)) = 2 * 2^(i + 3)
        /\ 2^i \in Nat
    BY <1>2, <2>1, Zenon
  <2>3. \A n \in Nat : 2 * (2 * (2 * (2 * n))) = 16 * n
    OBVIOUS
  <2>4. QED
    BY <2>2, <2>3, Zenon DEF i
<1>7. Powers([k \in 0..8 |-> 2^(4 * k)], 16, 8)
  <2> DEFINE p == [k \in 0..8 |-> 2^(4 * k)]
  <2>1. \A k \in 0..8 : 4 * k \in 0..32
    OBVIOUS
  <2>2. p \in [0..8 -> Nat]
    BY <1>4, <2>1, Zenon
  <2>3. 0 \in 0..8 /\ 4 * 0 = 0 /\ \A k \in 0..8 : k < 8 => k + 1 \in 0..8
    OBVIOUS
  <2>4. \A k \in 0..8 : p[k] = 2^(4 * k)
    BY Zenon
  <2>5. \A k \in 0..8 : k < 8 => p[k + 1] = 16 * p[k]
    BY <1>6, <2>3, <2>4, Zenon
  <2>6. p[0] = 1
    BY <1>3, <2>3, <2>4, Zenon
  <2>7. QED
    BY <2>2, <2>5, <2>6, Zenon DEF Powers
<1>8. 2^WordBits = Half
  BY Widths, SMT DEF WordBits, Half
<1>9. HexDigits \in 1..8 /\ WordBits \in 4..32 /\ 4 * HexDigits = WordBits
  BY Widths, SMT DEF HexDigits
<1>10. QED
  BY <1>5, <1>7, <1>8, <1>9, Zenon

LEMMA PowersGrow ==
  ASSUME NEW B \in Nat, B >= 1, NEW M \in Nat, NEW p, Powers(p, B, M), NEW i \in 0..M
  PROVE  \A j \in i..M : p[i] <= p[j]
<1> DEFINE Bad == { j \in i..M : ~ (p[i] <= p[j]) }
<1>1. SUFFICES ASSUME Bad # {} PROVE FALSE
  OBVIOUS
<1>2. PICK j \in Bad : \A k \in Bad : j <= k
  <2>1. Bad \in SUBSET Nat
    OBVIOUS
  <2>2. QED
    BY <1>1, <2>1, NatMin
<1>3. p \in [0..M -> Nat] /\ \A k \in 0..M : k < M => p[k + 1] = B * p[k]
  BY DEF Powers
<1>4. j \in i..M /\ ~ (p[i] <= p[j])
  OBVIOUS
<1>5. j # i
  BY <1>3, <1>4
<1>6. j - 1 \in i..M /\ j - 1 \in 0..M /\ j - 1 < M /\ (j - 1) + 1 = j
  BY <1>4, <1>5
<1>7. p[i] <= p[j - 1]
  <2>1. j - 1 \notin Bad
    BY <1>2, <1>4, <1>6
  <2>2. QED
    BY <1>6, <2>1
<1>8. p[j] = B * p[j - 1] /\ p[j - 1] \in Nat /\ p[i] \in Nat
  BY <1>3, <1>6
<1>9. \A m \in Nat : m <= B * m /\ B * m \in Nat
  BY SMT
<1>10. QED
  BY <1>4, <1>7, <1>8, <1>9

(* A string cut in two.                                                    *)
LEMMA CutInTwo ==
  ASSUME NEW S, NEW t \in Seq(S), NEW k \in 0..Len(t)
  PROVE  LET h == SubSeq(t, 1, k)  l == SubSeq(t, k + 1, Len(t))
         IN /\ t = h \o l /\ h \in Seq(S) /\ l \in Seq(S)
            /\ Len(h) = k /\ Len(l) = Len(t) - k
            /\ \A i \in 1..k : h[i] = t[i]
            /\ \A i \in 1..(Len(t) - k) : l[i] = t[k + i]
<1>1. /\ Len(t) \in Nat /\ k \in Nat /\ \A i \in 1..k : t[i] \in S
      /\ \A i \in (k + 1)..Len(t) : t[i] \in S
  OBVIOUS
<1>2. /\ SubSeq(t, 1, k) \in Seq(S) /\ Len(SubSeq(t, 1, k)) = k
      /\ \A i \in 1..k : SubSeq(t, 1, k)[i] = t[i]
  <2>1. /\ SubSeq(t, 1, k) \in Seq(S)
        /\ Len(SubSeq(t, 1, k)) = IF 1 <= k THEN k - 1 + 1 ELSE 0
        /\ \A i \in 1..(k - 1 + 1) : SubSeq(t, 1, k)[i] = t[1 + i - 1]
    BY <1>1, SubSeqProperties
  <2>2. k - 1 + 1 = k /\ \A i \in 1..k : 1 + i - 1 = i
    BY <1>1
  <2>3. QED
    BY <1>1, <2>1, <2>2
<1>3. /\ SubSeq(t, k + 1, Len(t)) \in Seq(S) /\ Len(SubSeq(t, k + 1, Len(t))) = Len(t) - k
      /\ \A i \in 1..(Len(t) - k) : SubSeq(t, k + 1, Len(t))[i] = t[k + i]
  <2>1. /\ SubSeq(t, k + 1, Len(t)) \in Seq(S)
        /\ Len(SubSeq(t, k + 1, Len(t))) = IF k + 1 <= Len(t) THEN Len(t) - (k + 1) + 1 ELSE 0
        /\ \A i \in 1..(Len(t) - (k + 1) + 1) : SubSeq(t, k + 1, Len(t))[i] = t[(k + 1) + i - 1]
    BY <1>1, SubSeqProperties
  <2>2. Len(t) - (k + 1) + 1 = Len(t) - k /\ \A i \in 1..(Len(t) - k) : (k + 1) + i - 1 = k + i
    BY <1>1
  <2> DEFINE l == SubSeq(t, k + 1, Len(t))
  <2> HIDE DEF l
  <2>3. Len(l) = Len(t) - k
    <3>1. Len(l) = IF k + 1 <= Len(t) THEN Len(t) - (k + 1) + 1 ELSE 0
      BY <2>1 DEF l
    <3>2. k <= Len(t)
      BY <1>1
    <3> HIDE DEF l
    <3>3. QED
      BY <1>1, <3>1, <3>2
  <2>4. l \in Seq(S)
    BY <2>1, Zenon DEF l
  <2>5. ASSUME NEW i \in 1..(Len(t) - k) PROVE l[i] = t[k + i]
    <3>1. i \in 1..(Len(t) - (k + 1) + 1) /\ (k + 1) + i - 1 = k + i
      BY <2>2, Zenon
    <3>2. l[i] = t[(k + 1) + i - 1]
      BY <2>1, <3>1, Zenon DEF l
    <3>3. QED
      BY <3>1, <3>2, Zenon
  <2>6. QED
    BY <2>3, <2>4, <2>5, Zenon DEF l
<1>4. t = SubSeq(t, 1, k) \o SubSeq(t, k + 1, Len(t))
  <2>1. 1 \in 1..(Len(t) + 1) /\ k \in (1 - 1)..Len(t) /\ Len(t) \in k..Len(t)
    BY <1>1
  <2>2. SubSeq(t, 1, k) \o SubSeq(t, k + 1, Len(t)) = SubSeq(t, 1, Len(t))
    BY <2>1, ConcatAdjacentSubSeq
  <2>3. QED
    BY <2>2, SubSeqFull
<1>5. QED
  BY <1>2, <1>3, <1>4, Zenon

(* A hexadecimal string that is not too large makes its number.            *)
LEMMA HexMakes ==
  ASSUME NEW digits \in Seq(0..15), ~ HexTooLarge(digits)
  PROVE  /\ Val(OfHex(digits)) = NumberOf(digits, 16)
         /\ NumberOf(digits, 16) < Modulus
<1> DEFINE n == Len(digits)
           low == IF n > HexDigits THEN n - HexDigits ELSE 0
           high == SubSeq(digits, 1, low)
           rest == SubSeq(digits, low + 1, n)
           p == [k \in 0..8 |-> 2^(4 * k)]
           v == NumberOf(high, 16)  u == NumberOf(rest, 16)
<1>1. OfHex(digits) = uint64(v, u)
  BY DEF OfHex, NumberOf
<1>2. n \in Nat /\ HexDigits \in 1..8 /\ n <= 2 * HexDigits
  <2>1. n \in Nat
    OBVIOUS
  <2>2. ~ (n > 2 * HexDigits)
    BY DEF HexTooLarge
  <2> HIDE DEF n
  <2>3. QED
    BY <2>1, <2>2, PowersOfTwo
<1>3. low \in Nat /\ low <= n /\ low <= HexDigits /\ n - low <= HexDigits
      /\ (low # 0 => n - low = HexDigits)
  <2> HIDE DEF n
  <2>1. QED
    BY <1>2
<1> HIDE DEF low
<1>4. /\ high \in Seq(0..15) /\ rest \in Seq(0..15) /\ digits = high \o rest
      /\ Len(high) = low /\ Len(rest) = n - low
      /\ high \in Seq(Nat) /\ rest \in Seq(Nat)
  <2>1. low \in 0..n /\ \A t \in Seq(0..15) : t \in Seq(Nat)
    <3>1. \A t \in Seq(0..15) : t \in Seq(Nat)
      OBVIOUS
    <3>2. QED
      BY <1>2, <1>3, <3>1
  <2>2. /\ high \in Seq(0..15) /\ rest \in Seq(0..15) /\ digits = high \o rest
        /\ Len(high) = low /\ Len(rest) = n - low
    BY <2>1, CutInTwo, Zenon
  <2>3. QED
    BY <2>1, <2>2, Zenon
<1>5. Powers(p, 16, 8) /\ p[HexDigits] = Half /\ 16 \in Nat /\ 8 \in Nat /\ 16 - 1 = 15
  <2>1. 2^(4 * HexDigits) = Half /\ HexDigits \in 0..8
    BY <1>2, PowersOfTwo
  <2>2. p[HexDigits] = Half
    BY <2>1, Zenon
  <2>3. 16 \in Nat /\ 8 \in Nat /\ 16 - 1 = 15
    OBVIOUS
  <2>4. QED
    BY <2>2, <2>3, PowersOfTwo, Zenon
<1> HIDE DEF p, high, rest
<1>6. v \in Nat /\ u \in Nat
  BY <1>4, <1>5, NumberNat, Zenon
<1>7. u < p[n - low] /\ v < p[low] /\ NumberOf(digits, 16) = v * p[n - low] + u
  <2>1. Len(high) <= 8 /\ Len(rest) <= 8
    BY <1>2, <1>3, <1>4
  <2>2. \A s \in Seq(Nat), t \in Seq(0..15) : Len(t) <= 8 =>
           /\ NumberOf(s \o t, 16) = NumberOf(s, 16) * p[Len(t)] + NumberOf(t, 16)
           /\ NumberOf(t, 16) < p[Len(t)]
    BY <1>5, Joined, Zenon
  <2>3. QED
    BY <1>4, <2>1, <2>2, Zenon
<1>8. p[n - low] <= Half /\ p[low] <= Half
  <2>1. /\ n - low \in 0..8 /\ low \in 0..8
        /\ HexDigits \in low..8 /\ HexDigits \in (n - low)..8 /\ 16 >= 1
    BY <1>2, <1>3
  <2>2. QED
    BY <1>5, <2>1, PowersGrow, Zenon
<1>9. p[0] = 1 /\ p[low] \in Nat /\ p[n - low] \in Nat /\ Half \in Nat /\ Half > 0 /\ Modulus = Half * Half
  <2>1. low \in 0..8 /\ n - low \in 0..8
    BY <1>2, <1>3
  <2>2. QED
    BY <1>5, <2>1, LimbPowers DEF Powers
<1>10. u < Half /\ v < Half
  BY <1>6, <1>7, <1>8, <1>9
<1>11. NumberOf(digits, 16) = v * Half + u
  <2>1. CASE low = 0
    <3>1. v = 0
      BY <1>6, <1>7, <1>9, <2>1
    <3>2. 0 * p[n - low] = 0 * Half
      BY <1>9, SMT
    <3>3. QED
      BY <1>7, <3>1, <3>2
  <2>2. CASE low # 0
    BY <1>3, <1>5, <1>7, <2>2
  <2>3. QED
    BY <2>1, <2>2
<1> HIDE DEF u, v
<1>12. uint64(v, u) = [hi |-> v, lo |-> u]
  BY <1>6, <1>9, <1>10, Word
<1>13. Val(uint64(v, u)) = v * Half + u
  BY <1>12 DEF Val
<1>14. v * Half + u < Modulus
  <2>1. v * Half + Half <= Half * Half
    <3>1. (v + 1) * Half <= Half * Half
      BY <1>6, <1>9, <1>10, SMT
    <3>2. (v + 1) * Half = v * Half + Half
      BY <1>6, <1>9, SMT
    <3>3. QED
      BY <3>1, <3>2
  <2>2. v * Half \in Nat /\ Half * Half \in Nat
    BY <1>6, <1>9, Times, Zenon
  <2>3. QED
    BY <1>6, <1>9, <1>10, <2>1, <2>2
<1>15. QED
  BY <1>1, <1>11, <1>13, <1>14, Zenon

----------------------------------------------------------------------------
(* The bits of a set of places, the highest first.                         *)
Bin(S, m) == [k \in 1..m |-> IF m - k \in S THEN 1 ELSE 0]

(* What is left of them without the lowest c.                              *)
Top(S, m, c) == [k \in 1..(m - c) |-> IF m - k \in S THEN 1 ELSE 0]

LEMMA BitStrings ==
  ASSUME NEW S, NEW m \in Nat, NEW c \in 0..m
  PROVE  /\ Bin(S, m) \in Seq(0..1) /\ Len(Bin(S, m)) = m
         /\ Top(S, m, c) \in Seq(0..1) /\ Len(Top(S, m, c)) = m - c
         /\ Bin(S, m) = Top(S, m, c) \o Bin(S, c)
<1>1. m - c \in Nat /\ c \in Nat
  OBVIOUS
<1>2. Bin(S, m) \in Seq(0..1) /\ Len(Bin(S, m)) = m /\ \A k \in 1..m : Bin(S, m)[k] = IF m - k \in S THEN 1 ELSE 0
  BY DEF Bin
<1>3. Bin(S, c) \in Seq(0..1) /\ Len(Bin(S, c)) = c /\ \A k \in 1..c : Bin(S, c)[k] = IF c - k \in S THEN 1 ELSE 0
  BY <1>1 DEF Bin
<1>4. /\ Top(S, m, c) \in Seq(0..1) /\ Len(Top(S, m, c)) = m - c
      /\ \A k \in 1..(m - c) : Top(S, m, c)[k] = IF m - k \in S THEN 1 ELSE 0
  BY <1>1 DEF Top
<1> DEFINE b == Bin(S, m)  h == Top(S, m, c)  l == Bin(S, c)  t == h \o l
<1> HIDE DEF b, h, l
<1>5. t \in Seq(0..1) /\ Len(t) = m
  BY <1>1, <1>3, <1>4 DEF h, l
<1>6. \A k \in 1..m : t[k] = b[k]
  <2> SUFFICES ASSUME NEW k \in 1..m PROVE t[k] = b[k]
    OBVIOUS
  <2>1. CASE k <= m - c
    <3>1. t[k] = h[k] /\ k \in 1..(m - c)
      BY <1>1, <1>3, <1>4, <2>1 DEF h, l
    <3>2. QED
      BY <1>2, <1>4, <3>1, Zenon DEF h, b
  <2>2. CASE k > m - c
    <3>1. t[k] = l[k - (m - c)] /\ k - (m - c) \in 1..c /\ c - (k - (m - c)) = m - k
      BY <1>1, <1>3, <1>4, <2>2 DEF h, l
    <3>2. QED
      BY <1>2, <1>3, <3>1, Zenon DEF l, b
  <2>3. k <= m - c \/ k > m - c
    BY <1>1
  <2>4. QED
    BY <2>1, <2>2, <2>3, Zenon
<1>7. b = t
  <2>1. b \in Seq(0..1) /\ Len(b) = m
    BY <1>2 DEF b
  <2> HIDE DEF t
  <2>2. QED
    BY <1>5, <1>6, <2>1
<1>8. QED
  BY <1>2, <1>4, <1>7, Zenon DEF b, h, l

(* A string of bits makes 0 when all are 0.                                *)
LEMMA AllZero ==
  \A t \in Seq(0..1) : NumberOf(t, 2) = 0 <=> \A k \in 1..Len(t) : t[k] = 0
<1> DEFINE ZeroOf(t) == NumberOf(t, 2) = 0 <=> \A k \in 1..Len(t) : t[k] = 0
           P == { t \in Seq(0..1) : ZeroOf(t) }
<1>1. << >> \in P
  <2>1. << >> \in Seq(0..1) /\ \A k \in 1..Len(<< >>) : << >>[k] = 0
    OBVIOUS
  <2>2. NumberOf(<< >>, 2) = 0
    BY NumberNone
  <2>3. QED
    BY <2>1, <2>2, Zenon
<1>2. ASSUME NEW f \in Seq(0..1), NEW d \in 0..1, f \in P PROVE Append(f, d) \in P
  <2> DEFINE g == Append(f, d)  n == Len(f)  v == NumberOf(f, 2)
  <2>1. /\ f \in Seq(Nat) /\ d \in Nat /\ 2 \in Nat /\ g \in Seq(0..1) /\ n \in Nat
        /\ Len(g) = n + 1 /\ g[n + 1] = d /\ \A k \in 1..n : g[k] = f[k]
    OBVIOUS
  <2>2. v \in Nat /\ NumberOf(g, 2) = 2 * v + d
    BY <2>1, NumberOn
  <2>3. v = 0 <=> \A k \in 1..n : f[k] = 0
    BY <1>2
  <2> HIDE DEF g, n, v
  <2>4. NumberOf(g, 2) = 0 <=> v = 0 /\ d = 0
    BY <2>1, <2>2
  <2>5. (\A k \in 1..(n + 1) : g[k] = 0) <=> (\A k \in 1..n : g[k] = 0) /\ g[n + 1] = 0
    <3>1. \A k \in 1..(n + 1) : k \in 1..n \/ k = n + 1
      BY <2>1
    <3>2. n + 1 \in 1..(n + 1) /\ \A k \in 1..n : k \in 1..(n + 1)
      BY <2>1
    <3>3. QED
      BY <3>1, <3>2, Zenon
  <2>6. ZeroOf(g)
    <3>1. (\A k \in 1..n : g[k] = 0) <=> (\A k \in 1..n : f[k] = 0)
      BY <2>1, Zenon
    <3>2. (\A k \in 1..(n + 1) : g[k] = 0) <=> v = 0 /\ d = 0
      BY <2>1, <2>3, <2>5, <3>1, Zenon
    <3>3. QED
      BY <2>1, <2>4, <3>2, Zenon
  <2>7. QED
    BY <2>1, <2>6 DEF g
<1> HIDE DEF P
<1>3. \A t \in Seq(0..1) : t \in P
  BY <1>1, <1>2, OneByOne
<1>4. QED
  BY <1>3 DEF P

(* Zeros in front change nothing.                                          *)
LEMMA ZerosInFront ==
  ASSUME NEW z \in Seq(Nat), NumberOf(z, 2) = 0
  PROVE  \A t \in Seq(0..1) : NumberOf(z \o t, 2) = NumberOf(t, 2)
<1> DEFINE Unchanged(t) == NumberOf(z \o t, 2) = NumberOf(t, 2)
           P == { t \in Seq(0..1) : Unchanged(t) }
<1>1. << >> \in P
  <2>1. << >> \in Seq(0..1) /\ z \o << >> = z
    OBVIOUS
  <2>2. NumberOf(<< >>, 2) = 0
    BY NumberNone
  <2>3. QED
    BY <2>1, <2>2, Zenon
<1>2. ASSUME NEW f \in Seq(0..1), NEW d \in 0..1, f \in P PROVE Append(f, d) \in P
  <2>1. /\ f \in Seq(Nat) /\ d \in Nat /\ 2 \in Nat /\ Append(f, d) \in Seq(0..1)
        /\ z \o f \in Seq(Nat) /\ z \o Append(f, d) = Append(z \o f, d)
    OBVIOUS
  <2>2. /\ NumberOf(Append(z \o f, d), 2) = 2 * NumberOf(z \o f, 2) + d
        /\ NumberOf(Append(f, d), 2) = 2 * NumberOf(f, 2) + d
    BY <2>1, NumberOn
  <2>3. NumberOf(z \o f, 2) = NumberOf(f, 2)
    BY <1>2
  <2>4. Unchanged(Append(f, d))
    BY <2>1, <2>2, <2>3, Zenon
  <2>5. QED
    BY <2>1, <2>4
<1> HIDE DEF P
<1>3. \A t \in Seq(0..1) : t \in P
  BY <1>1, <1>2, OneByOne
<1>4. QED
  BY <1>3 DEF P

LEMMA BitsJoined ==
  \A s \in Seq(Nat), t \in Seq(0..1) : Len(t) <= 32 =>
     /\ NumberOf(s \o t, 2) = NumberOf(s, 2) * 2^Len(t) + NumberOf(t, 2)
     /\ NumberOf(t, 2) < 2^Len(t)
<1> SUFFICES ASSUME NEW s \in Seq(Nat), NEW t \in Seq(0..1), Len(t) <= 32
             PROVE  /\ NumberOf(s \o t, 2) = NumberOf(s, 2) * 2^Len(t) + NumberOf(t, 2)
                    /\ NumberOf(t, 2) < 2^Len(t)
  OBVIOUS
<1> DEFINE p == [k \in 0..32 |-> 2^k]  M == 32  B == 2
<1>1. Powers(p, B, M)
  BY PowersOfTwo, Zenon
<1>2. B \in Nat /\ M \in Nat /\ t \in Seq(0..(B - 1)) /\ Len(t) <= M
  OBVIOUS
<1>3. p[Len(t)] = 2^Len(t)
  <2>1. Len(t) \in 0..32
    <3>1. Len(t) \in Nat /\ Len(t) <= 32 /\ 32 \in Nat
      OBVIOUS
    <3>2. \A n \in Nat : n <= 32 => n \in 0..32
      OBVIOUS
    <3>3. QED
      BY <3>1, <3>2, Zenon
  <2>2. QED
    BY <2>1, Zenon
<1> HIDE DEF p, B, M
<1>4. /\ NumberOf(s \o t, B) = NumberOf(s, B) * p[Len(t)] + NumberOf(t, B)
      /\ NumberOf(t, B) < p[Len(t)]
  BY <1>1, <1>2, Joined, Zenon
<1>5. QED
  BY <1>3, <1>4, Zenon DEF B

(* One more bit adds its power of two.                                     *)
LEMMA OneBitMore ==
  ASSUME NEW S, NEW m \in 0..32, NEW j \in 0..(m - 1), j \notin S
  PROVE  NumberOf(Bin(S \cup {j}, m), 2) = NumberOf(Bin(S, m), 2) + 2^j
<1> DEFINE T == S \cup {j}
           g == Top(S, m, j + 1)  l == Bin(S, j)
           p == [k \in 0..32 |-> 2^k]
<1>1. /\ m \in Nat /\ j \in Nat /\ j \in 0..m /\ j + 1 \in 0..m /\ j \in 0..32 /\ j <= 32 /\ 32 \in Nat
      /\ m - (j + 1) \in Nat /\ m - (j + 1) + 1 = m - j /\ m - (m - j) = j
  OBVIOUS
<1>2. Bin(T, j) = l
  <2>1. \A k \in 1..j : j - k \in T <=> j - k \in S
    BY <1>1
  <2> HIDE DEF T
  <2>2. QED
    BY <2>1, Zenon DEF Bin
<1>3. Top(T, m, j + 1) = g
  <2>1. \A k \in 1..(m - (j + 1)) : m - k \in T <=> m - k \in S
    BY <1>1
  <2> HIDE DEF T
  <2>2. QED
    BY <2>1, Zenon DEF Top
<1>4. j \in T
  OBVIOUS
<1> HIDE DEF T
<1>5. ASSUME NEW U
      PROVE  Top(U, m, j) = Append(Top(U, m, j + 1), IF j \in U THEN 1 ELSE 0)
  <2> DEFINE a == Top(U, m, j)  b == Top(U, m, j + 1)  x == IF j \in U THEN 1 ELSE 0
  <2>1. a \in Seq(0..1) /\ Len(a) = m - j /\ b \in Seq(0..1) /\ Len(b) = m - (j + 1)
    BY <1>1, BitStrings
  <2>2. x \in 0..1
    OBVIOUS
  <2>3. \A k \in 1..(m - (j + 1)) : a[k] = b[k]
    <3>1. \A k \in 1..(m - (j + 1)) : k \in 1..(m - j)
      BY <1>1
    <3>2. QED
      BY <3>1, Zenon DEF Top
  <2>4. a[m - j] = x
    <3>1. m - j \in 1..(m - j)
      BY <1>1
    <3>2. QED
      BY <1>1, <3>1, Zenon DEF Top
  <2> HIDE DEF a, b, x
  <2>5. a = Append(b, x)
    BY <1>1, <2>1, <2>2, <2>3, <2>4
  <2>6. QED
    BY <2>5 DEF a, b, x
<1>6. /\ Bin(T, m) = Append(g, 1) \o l /\ Bin(S, m) = Append(g, 0) \o l
      /\ g \in Seq(0..1) /\ l \in Seq(0..1) /\ Len(l) = j
  <2>1. Bin(T, m) = Top(T, m, j) \o Bin(T, j) /\ Bin(S, m) = Top(S, m, j) \o Bin(S, j)
    BY <1>1, BitStrings, Zenon
  <2>2. Top(T, m, j) = Append(g, 1) /\ Top(S, m, j) = Append(g, 0)
    BY <1>3, <1>4, <1>5, Zenon
  <2>3. g \in Seq(0..1)
    BY <1>1, BitStrings, Zenon
  <2>4. j \in 0..j
    BY <1>1
  <2>5. l \in Seq(0..1) /\ Len(l) = j
    BY <1>1, <2>4, BitStrings, Zenon
  <2>6. QED
    BY <1>2, <2>1, <2>2, <2>3, <2>5, Zenon
<1>7. Powers(p, 2, 32) /\ p[j] = 2^j /\ p[j] \in Nat
  <2>1. p[j] = 2^j
    BY <1>1, Zenon
  <2>2. QED
    BY <1>1, <2>1, PowersOfTwo DEF Powers
<1> HIDE DEF p, g, l
<1>8. g \in Seq(Nat) /\ Append(g, 0) \in Seq(Nat) /\ Append(g, 1) \in Seq(Nat)
      /\ 0 \in Nat /\ 1 \in Nat /\ 2 \in Nat /\ 2 - 1 = 1
  BY <1>6
<1>9. /\ NumberOf(Append(g, 0) \o l, 2) = NumberOf(Append(g, 0), 2) * p[j] + NumberOf(l, 2)
      /\ NumberOf(Append(g, 1) \o l, 2) = NumberOf(Append(g, 1), 2) * p[j] + NumberOf(l, 2)
  BY <1>1, <1>6, <1>7, <1>8, BitsJoined, Zenon
<1>10. /\ NumberOf(g, 2) \in Nat
       /\ NumberOf(Append(g, 0), 2) = 2 * NumberOf(g, 2) + 0
       /\ NumberOf(Append(g, 1), 2) = 2 * NumberOf(g, 2) + 1
  BY <1>8, NumberOn, Zenon
<1>11. NumberOf(l, 2) \in Nat
  <2>1. l \in Seq(Nat)
    BY <1>6
  <2>2. QED
    BY <1>8, <2>1, NumberNat, Zenon
<1> DEFINE v == NumberOf(g, 2)  u == NumberOf(l, 2)  q == p[j]
<1> HIDE DEF v, u, q
<1>12. (2 * v + 1) * q + u = ((2 * v + 0) * q + u) + q
  <2>1. v \in Nat /\ u \in Nat /\ q \in Nat
    BY <1>7, <1>10, <1>11 DEF v, u, q
  <2>2. QED
    BY <2>1, SMT
<1>13. QED
  BY <1>6, <1>7, <1>9, <1>10, <1>12, Zenon DEF v, u, q, T

(* The word of a set of places is the number that its bits make.           *)
LEMMA BitsWordMakes ==
  ASSUME NEW m \in 0..32, m <= WordBits, NEW S \in SUBSET (0..(m - 1))
  PROVE  FoldLeft(LAMBDA w, i : w + 2^i, 0, SetToSeq(S)) = NumberOf(Bin(S, m), 2)
<1> DEFINE q == SetToSeq(S)  n == Len(q)
           v == FoldLeft(LAMBDA w, i : w + 2^i, 0, q)
           Had(k) == { q[i] : i \in 1..k }
<1>1. S \in SUBSET (0..(WordBits - 1)) /\ IsFiniteSet(S)
  <2>1. 0 \in Int /\ m - 1 \in Int
    OBVIOUS
  <2>2. IsFiniteSet(0..(m - 1))
    BY <2>1, FS_Interval
  <2>3. IsFiniteSet(S)
    BY <2>2, FS_Subset
  <2>4. WordBits \in Nat
    BY Widths, SMT
  <2>5. \A i \in 0..(m - 1) : i \in 0..(WordBits - 1)
    BY <2>4
  <2>6. QED
    BY <2>3, <2>5
<1>2. /\ q \in Seq(S)
      /\ \A i, j \in 1..n : q[i] = q[j] => i = j
      /\ \A x \in S : \E i \in 1..n : q[i] = x
  BY <1>1, ListedOnce, Zenon
<1>3. AddedUp(q, v)
  BY <1>1, <1>2, BitsSummed, Zenon
<1> HIDE DEF v, q
<1>4. PICK w \in [0..n -> Nat] : /\ w[0] = 0
                                 /\ \A k \in 1..n : w[k] = w[k - 1] + 2^q[k]
                                 /\ v = w[n]
  BY <1>3, Zenon DEF AddedUp
<1>5. n \in Nat /\ \A i \in 1..n : q[i] \in S
  BY <1>2
<1> HIDE DEF n
<1> DEFINE Bad == { k \in 0..n : w[k] # NumberOf(Bin(Had(k), m), 2) }
<1>6. NumberOf(Bin(Had(0), m), 2) = 0
  <2>1. Had(0) = {}
    OBVIOUS
  <2>2. m \in Nat /\ 0 \in 0..m
    OBVIOUS
  <2>3. Bin({}, m) \in Seq(0..1) /\ Len(Bin({}, m)) = m
    BY <2>2, BitStrings, Zenon
  <2>4. \A k \in 1..m : Bin({}, m)[k] = 0
    BY DEF Bin
  <2>5. NumberOf(Bin({}, m), 2) = 0
    BY <2>3, <2>4, AllZero, Zenon
  <2>6. QED
    BY <2>1, <2>5, Zenon
<1>7. Bad = {}
  <2>1. SUFFICES ASSUME Bad # {} PROVE FALSE
    OBVIOUS
  <2>2. PICK k \in Bad : \A j \in Bad : k <= j
    <3>1. Bad \in SUBSET Nat
      OBVIOUS
    <3>2. QED
      BY <2>1, <3>1, NatMin
  <2>3. k \in 0..n /\ w[k] # NumberOf(Bin(Had(k), m), 2)
    OBVIOUS
  <2>4. k # 0
    BY <1>4, <1>6, <2>3, Zenon
  <2>5. k \in 1..n /\ k - 1 \in 0..n /\ k - 1 < k
    BY <1>5, <2>3, <2>4
  <2>6. w[k - 1] = NumberOf(Bin(Had(k - 1), m), 2)
    <3>1. k - 1 \notin Bad
      BY <2>2, <2>5
    <3>2. QED
      BY <2>5, <3>1
  <2>7. Had(k) = Had(k - 1) \cup {q[k]} /\ q[k] \notin Had(k - 1)
    <3>1. \A i \in 1..(k - 1) : i \in 1..n /\ i # k
      BY <1>5, <2>5
    <3>2. \A i \in 1..k : i \in 1..(k - 1) \/ i = k
      BY <2>5
    <3>3. \A i \in 1..(k - 1) : i \in 1..k
      BY <2>5
    <3>4. k \in 1..k
      BY <2>5
    <3>5. q[k] \notin Had(k - 1)
      BY <1>2, <2>5, <3>1
    <3>6. QED
      BY <3>2, <3>3, <3>4, <3>5
  <2> HIDE DEF Bad, Had
  <2>8. q[k] \in 0..(m - 1)
    BY <1>5, <2>5
  <2>9. NumberOf(Bin(Had(k - 1) \cup {q[k]}, m), 2) = NumberOf(Bin(Had(k - 1), m), 2) + 2^q[k]
    BY <2>7, <2>8, OneBitMore, Zenon
  <2>10. QED
    BY <1>4, <2>3, <2>5, <2>6, <2>7, <2>9, Zenon
<1>8. Had(n) = S
  <2>1. \A x \in S : x \in Had(n)
    BY <1>2 DEF n
  <2>2. \A x \in Had(n) : x \in S
    BY <1>5
  <2> HIDE DEF Had
  <2>3. QED
    BY <2>1, <2>2
<1>9. n \in 0..n
  BY <1>5
<1>10. w[n] = NumberOf(Bin(Had(n), m), 2)
  BY <1>7, <1>9
<1> HIDE DEF Bad, Had
<1>11. QED
  BY <1>4, <1>8, <1>10, Zenon DEF v, q

----------------------------------------------------------------------------
(* The bits of a string of octal digits, the lowest being bit 0.           *)
Bit(ds, i) == (ds[Len(ds) - (i \div 3)] \div 2^(i % 3)) % 2
OctBits(ds) == [k \in 1..(3 * Len(ds)) |-> Bit(ds, 3 * Len(ds) - k)]

LEMMA Thirds ==
  /\ \A i \in Nat : (i + 3) \div 3 = i \div 3 + 1 /\ (i + 3) % 3 = i % 3
  /\ \A n \in Nat : \A i \in 0..(3 * n - 1) : i \div 3 \in 0..(n - 1) /\ i % 3 \in 0..2
  /\ 0 \div 3 = 0 /\ 1 \div 3 = 0 /\ 2 \div 3 = 0
  /\ 0 % 3 = 0 /\ 1 % 3 = 1 /\ 2 % 3 = 2
  /\ 2^0 = 1 /\ 2^1 = 2 /\ 2^2 = 4
<1>1. \A i \in Nat : (i + 3) \div 3 = i \div 3 + 1 /\ (i + 3) % 3 = i % 3
  BY SMT
<1>2. \A n \in Nat : \A i \in 0..(3 * n - 1) : i \div 3 \in 0..(n - 1) /\ i % 3 \in 0..2
  BY SMT
<1>3. /\ 0 \div 3 = 0 /\ 1 \div 3 = 0 /\ 2 \div 3 = 0
      /\ 0 % 3 = 0 /\ 1 % 3 = 1 /\ 2 % 3 = 2
  BY SMT
<1>4. 2^0 = 1 /\ 2^1 = 2 /\ 2^2 = 4
  BY SMT
<1>5. QED
  BY <1>1, <1>2, <1>3, <1>4, Zenon

LEMMA OctalDigit ==
  /\ \A x \in 0..7 : /\ (x \div 1) % 2 \in 0..1 /\ (x \div 2) % 2 \in 0..1 /\ (x \div 4) % 2 \in 0..1
                     /\ x = 4 * ((x \div 4) % 2) + 2 * ((x \div 2) % 2) + ((x \div 1) % 2)
  /\ \A x \in 0..7, r \in 0..2 : (x \div 2^r) % 2 \in 0..1
<1>1. \A x \in 0..7 : /\ (x \div 1) % 2 \in 0..1 /\ (x \div 2) % 2 \in 0..1 /\ (x \div 4) % 2 \in 0..1
                      /\ x = 4 * ((x \div 4) % 2) + 2 * ((x \div 2) % 2) + ((x \div 1) % 2)
  BY SMT
<1>2. \A r \in 0..2 : r = 0 \/ r = 1 \/ r = 2
  OBVIOUS
<1>3. \A x \in 0..7, r \in 0..2 : (x \div 2^r) % 2 \in 0..1
  BY <1>1, <1>2, Thirds, Zenon
<1>4. QED
  BY <1>1, <1>3, Zenon

LEMMA BitOf ==
  ASSUME NEW ds, NEW n, NEW i, Len(ds) = n
  PROVE  Bit(ds, i) = (ds[n - (i \div 3)] \div 2^(i % 3)) % 2
BY DEF Bit

LEMMA BitsOf ==
  ASSUME NEW ds, NEW n, Len(ds) = n
  PROVE  OctBits(ds) = [k \in 1..(3 * n) |-> Bit(ds, 3 * n - k)]
BY DEF OctBits

LEMMA OctBitsType ==
  ASSUME NEW ds \in Seq(0..7)
  PROVE  /\ \A i \in 0..(3 * Len(ds) - 1) : Bit(ds, i) \in 0..1
         /\ OctBits(ds) \in Seq(0..1) /\ Len(OctBits(ds)) = 3 * Len(ds)
<1> DEFINE n == Len(ds)
<1>1. n \in Nat /\ \A k \in 1..n : ds[k] \in 0..7
  OBVIOUS
<1>2. 3 * n \in Nat
  BY <1>1
<1> HIDE DEF n
<1>3. ASSUME NEW i \in 0..(3 * n - 1) PROVE (ds[n - (i \div 3)] \div 2^(i % 3)) % 2 \in 0..1
  <2>1. i \div 3 \in 0..(n - 1) /\ i % 3 \in 0..2
    BY <1>1, Thirds, Zenon
  <2>2. n - (i \div 3) \in 1..n
    BY <1>1, <2>1
  <2>3. QED
    BY <1>1, <2>1, <2>2, OctalDigit, Zenon
<1>4. \A i \in 0..(3 * n - 1) : Bit(ds, i) \in 0..1
  BY <1>3, Zenon DEF Bit, n
<1>5. \A k \in 1..(3 * n) : 3 * n - k \in 0..(3 * n - 1)
  BY <1>2
<1>6. OctBits(ds) = [k \in 1..(3 * n) |-> Bit(ds, 3 * n - k)]
  BY DEF OctBits, n
<1>7. \A k \in 1..(3 * n) : Bit(ds, 3 * n - k) \in 0..1
  BY <1>4, <1>5, Zenon
<1>8. OctBits(ds) \in [1..(3 * n) -> 0..1]
  BY <1>6, <1>7, Zenon
<1>9. OctBits(ds) \in Seq(0..1) /\ Len(OctBits(ds)) = 3 * n
  BY <1>2, <1>8
<1>10. QED
  BY <1>4, <1>9 DEF n

(* A digit more is three bits more.                                        *)
LEMMA ThreeBitsMore ==
  ASSUME NEW f \in Seq(0..7), NEW d \in 0..7
  PROVE  OctBits(Append(f, d)) =
            Append(Append(Append(OctBits(f), (d \div 4) % 2), (d \div 2) % 2), (d \div 1) % 2)
<1> DEFINE g == Append(f, d)  n == Len(f)
           a == OctBits(g)  b == OctBits(f)
           x == (d \div 4) % 2  y == (d \div 2) % 2  z == (d \div 1) % 2
           c == Append(Append(Append(b, x), y), z)
<1>1. n \in Nat /\ g \in Seq(0..7) /\ Len(g) = n + 1 /\ g[n + 1] = d /\ \A k \in 1..n : g[k] = f[k]
  OBVIOUS
<1>2. x \in 0..1 /\ y \in 0..1 /\ z \in 0..1
  BY OctalDigit, Zenon
<1> HIDE DEF g
<1>3. a \in Seq(0..1) /\ Len(a) = 3 * (n + 1) /\ b \in Seq(0..1) /\ Len(b) = 3 * n
  BY <1>1, OctBitsType, Zenon
<1>4. 3 * n \in Nat /\ 3 * (n + 1) = 3 * n + 3
  BY <1>1
<1>5. \A k \in 1..(3 * n) : a[k] = b[k]
  <2> SUFFICES ASSUME NEW k \in 1..(3 * n) PROVE a[k] = b[k]
    OBVIOUS
  <2> DEFINE i == 3 * n - k
  <2>1. i \in 0..(3 * n - 1) /\ i \in Nat /\ 3 * (n + 1) - k = i + 3 /\ k \in 1..(3 * (n + 1))
    BY <1>1
  <2>2. a[k] = Bit(g, 3 * (n + 1) - k) /\ b[k] = Bit(f, 3 * n - k)
    <3>1. a = [j \in 1..(3 * (n + 1)) |-> Bit(g, 3 * (n + 1) - j)]
      BY <1>1, Zenon DEF OctBits
    <3>2. b = [j \in 1..(3 * n) |-> Bit(f, 3 * n - j)]
      BY DEF OctBits
    <3> HIDE DEF a, b, n, i
    <3>3. QED
      BY <2>1, <3>1, <3>2, Zenon
  <2> HIDE DEF i
  <2>3. (i + 3) \div 3 = i \div 3 + 1 /\ (i + 3) % 3 = i % 3 /\ i \div 3 \in 0..(n - 1)
    BY <1>1, <2>1, Thirds, Zenon
  <2>4. (n + 1) - (i \div 3 + 1) = n - (i \div 3) /\ n - (i \div 3) \in 1..n
    BY <1>1, <2>3
  <2>5. Bit(g, i + 3) = (g[(n + 1) - ((i + 3) \div 3)] \div 2^((i + 3) % 3)) % 2
    <3> HIDE DEF n
    <3>1. Len(g) = n + 1
      BY <1>1
    <3>2. QED
      BY <3>1, BitOf, Zenon
  <2>6. Bit(f, i) = (f[n - (i \div 3)] \div 2^(i % 3)) % 2
    BY DEF Bit
  <2>7. Bit(g, i + 3) = Bit(f, i)
    BY <1>1, <2>3, <2>4, <2>5, <2>6, Zenon
  <2>8. QED
    BY <2>1, <2>2, <2>7, Zenon DEF i
<1>6. a[3 * n + 1] = x /\ a[3 * n + 2] = y /\ a[3 * n + 3] = z
  <2>1. a = [j \in 1..(3 * n + 3) |-> Bit(g, (3 * n + 3) - j)]
    <3>1. Len(g) = n + 1 /\ a = OctBits(g)
      BY <1>1
    <3> HIDE DEF a, n
    <3>2. a = [j \in 1..(3 * (n + 1)) |-> Bit(g, 3 * (n + 1) - j)]
      BY <3>1, BitsOf
    <3>3. QED
      BY <1>4, <3>2
  <2>2. /\ 3 * n + 1 \in 1..(3 * n + 3) /\ 3 * n + 2 \in 1..(3 * n + 3) /\ 3 * n + 3 \in 1..(3 * n + 3)
        /\ (3 * n + 3) - (3 * n + 1) = 2 /\ (3 * n + 3) - (3 * n + 2) = 1 /\ (3 * n + 3) - (3 * n + 3) = 0
    BY <1>1
  <2> HIDE DEF a
  <2>3. a[3 * n + 1] = Bit(g, 2) /\ a[3 * n + 2] = Bit(g, 1) /\ a[3 * n + 3] = Bit(g, 0)
    BY <2>1, <2>2, Zenon
  <2>4. (n + 1) - 0 = n + 1
    BY <1>1
  <2>5. \A i \in {0, 1, 2} : Bit(g, i) = (g[(n + 1) - (i \div 3)] \div 2^(i % 3)) % 2
    <3> HIDE DEF n
    <3>1. Len(g) = n + 1
      BY <1>1
    <3>2. QED
      BY <3>1, BitOf, Zenon
  <2>6. \A i \in {0, 1, 2} : g[(n + 1) - (i \div 3)] = d
    BY <1>1, <2>4, Thirds, Zenon
  <2>7. Bit(g, 2) = x /\ Bit(g, 1) = y /\ Bit(g, 0) = z
    BY <2>5, <2>6, Thirds, Zenon
  <2>8. QED
    BY <2>3, <2>7
<1> HIDE DEF a, b, x, y, z, n
<1> DEFINE m == 3 * n
<1>7. m \in Nat /\ m = 3 * n
  BY <1>4
<1> HIDE DEF m
<1>8. /\ c \in Seq(0..1) /\ Len(c) = m + 3 /\ \A k \in 1..m : c[k] = b[k]
      /\ c[m + 1] = x /\ c[m + 2] = y /\ c[m + 3] = z
  BY <1>2, <1>3, <1>7
<1>9. a = c
  <2>1. \A k \in 1..(m + 3) : a[k] = c[k]
    <3>1. \A k \in 1..(m + 3) : k \in 1..m \/ k = m + 1 \/ k = m + 2 \/ k = m + 3
      BY <1>7
    <3>2. QED
      BY <1>5, <1>6, <1>7, <1>8, <3>1, Zenon
  <2>2. a \in Seq(0..1) /\ Len(a) = m + 3
    BY <1>3, <1>4, <1>7
  <2> HIDE DEF c
  <2>3. QED
    BY <1>7, <1>8, <2>1, <2>2
<1>10. QED
  BY <1>9 DEF a, b, x, y, z, g

LEMMA OctalNumber ==
  \A ds \in Seq(0..7) : NumberOf(OctBits(ds), 2) = NumberOf(ds, 8)
<1> DEFINE Agree(s) == NumberOf(OctBits(s), 2) = NumberOf(s, 8)
           P == { s \in Seq(0..7) : Agree(s) }
<1>1. << >> \in P
  <2>1. << >> \in Seq(0..7) /\ OctBits(<< >>) = << >>
    <3>1. 3 * Len(<< >>) = 0 /\ 1..0 = {}
      OBVIOUS
    <3>2. QED
      BY <3>1 DEF OctBits
  <2>2. NumberOf(<< >>, 2) = 0 /\ NumberOf(<< >>, 8) = 0
    BY NumberNone
  <2>3. QED
    BY <2>1, <2>2, Zenon
<1>2. ASSUME NEW f \in Seq(0..7), NEW d \in 0..7, f \in P PROVE Append(f, d) \in P
  <2> DEFINE x == (d \div 4) % 2  y == (d \div 2) % 2  z == (d \div 1) % 2
             b == OctBits(f)  v == NumberOf(b, 2)
  <2>1. x \in 0..1 /\ y \in 0..1 /\ z \in 0..1 /\ d = 4 * x + 2 * y + z
    BY OctalDigit, Zenon
  <2>2. b \in Seq(0..1)
    BY OctBitsType, Zenon
  <2>3. OctBits(Append(f, d)) = Append(Append(Append(b, x), y), z)
    BY ThreeBitsMore, Zenon
  <2>4. f \in Seq(Nat) /\ d \in Nat /\ 8 \in Nat /\ Append(f, d) \in Seq(0..7) /\ 2 \in Nat
    OBVIOUS
  <2>5. NumberOf(Append(f, d), 8) = 8 * NumberOf(f, 8) + d
    BY <2>4, NumberOn, Zenon
  <2>6. v = NumberOf(f, 8)
    BY <1>2
  <2> HIDE DEF x, y, z, b
  <2>7. /\ x \in Nat /\ y \in Nat /\ z \in Nat
        /\ b \in Seq(Nat) /\ Append(b, x) \in Seq(Nat) /\ Append(Append(b, x), y) \in Seq(Nat)
    BY <2>1, <2>2
  <2>8. /\ v \in Nat
        /\ NumberOf(Append(b, x), 2) = 2 * v + x
        /\ NumberOf(Append(Append(b, x), y), 2) = 2 * NumberOf(Append(b, x), 2) + y
        /\ NumberOf(Append(Append(Append(b, x), y), z), 2) = 2 * NumberOf(Append(Append(b, x), y), 2) + z
    BY <2>4, <2>7, NumberOn, Zenon
  <2> HIDE DEF v
  <2>9. 2 * (2 * (2 * v + x) + y) + z = 8 * v + d
    BY <2>1, <2>7, <2>8
  <2>10. Agree(Append(f, d))
    BY <2>3, <2>5, <2>6, <2>8, <2>9, Zenon
  <2>11. QED
    BY <2>4, <2>10
<1> HIDE DEF P
<1>3. \A s \in Seq(0..7) : s \in P
  BY <1>1, <1>2, OneByOne
<1>4. QED
  BY <1>3 DEF P

LEMMA LowBits ==
  /\ OctalLowBits \in 0..32 /\ OctalLowBits \in Nat /\ OctalLowBits <= WordBits
  /\ WordBits \in 0..32 /\ WordBits \in Nat /\ WordBits > 0
  /\ 2^OctalLowBits \in Nat /\ 2^OctalLowBits <= Half /\ 2^WordBits = Half
<1>1. OctalLowBits \in 1..WordBits
  BY WidthAssumption DEF WordBits
<1>2. WordBits \in 4..32 /\ 2^WordBits = Half
  BY PowersOfTwo
<1>3. OctalLowBits \in 0..32 /\ WordBits \in OctalLowBits..32 /\ WordBits \in 0..32
  BY <1>1, <1>2
<1> DEFINE p == [k \in 0..32 |-> 2^k]
<1>4. /\ 2 \in Nat /\ 2 >= 1 /\ 32 \in Nat /\ Powers(p, 2, 32)
      /\ p[OctalLowBits] = 2^OctalLowBits /\ p[WordBits] = 2^WordBits
  BY <1>3, PowersOfTwo
<1> HIDE DEF p
<1>5. p[OctalLowBits] <= p[WordBits]
  BY <1>3, <1>4, PowersGrow, Zenon
<1>6. p[OctalLowBits] \in Nat
  BY <1>3, <1>4 DEF Powers
<1>7. QED
  BY <1>1, <1>2, <1>3, <1>4, <1>5, <1>6

(* An octal string makes its number if that has no more bits than stay in  *)
(* the low word; otherwise something reaches the high word, and what is    *)
(* made is greater than any word.                                          *)
LEMMA OctalMakes ==
  ASSUME NEW ds \in Seq(0..7)
  PROVE  /\ NumberOf(ds, 8) < 2^OctalLowBits => Val(OfOctal(ds)) = NumberOf(ds, 8)
         /\ NumberOf(ds, 8) >= 2^OctalLowBits => Val(OfOctal(ds)) >= Half
<1> DEFINE L == OctalLowBits  m == 3 * Len(ds)
           bits   == { i \in 0..(m - 1) : Bit(ds, i) = 1 }
           low    == { i \in bits : i < L }
           shifts == { (i + 1 - L) % WordBits : i \in bits \ low }
           word(S) == FoldLeft(LAMBDA w, i : w + 2^i, 0, SetToSeq(S))
           z == [k \in 1..L |-> 0]  b == OctBits(ds)
           N == NumberOf(ds, 8)
           h == Top(bits, m + L, L)  l == Bin(bits, L)
           v == word(shifts)  u == word(low)
<1>1. OfOctal(ds) = uint64(v, u)
  BY DEF OfOctal, Bit
<1>2. m \in Nat /\ L \in Nat /\ m + L \in Nat /\ L \in 0..(m + L) /\ (m + L) - L = m /\ L \in 0..L
  <2>1. Len(ds) \in Nat
    OBVIOUS
  <2>2. QED
    BY <2>1, LowBits
<1>3. b \in Seq(0..1) /\ Len(b) = m /\ \A i \in 0..(m - 1) : Bit(ds, i) \in 0..1
  BY OctBitsType
<1>4. \A k \in 1..m : b[k] = Bit(ds, m - k)
  BY DEF OctBits
<1>5. bits \in SUBSET (0..(m - 1)) /\ \A i \in 0..(m - 1) : i \in bits <=> Bit(ds, i) = 1
  OBVIOUS
<1>6. z \in Seq(0..1) /\ z \in Seq(Nat) /\ Len(z) = L /\ \A k \in 1..L : z[k] = 0
  BY <1>2
<1> HIDE DEF m, L, bits, b, z, word
<1>7. Bin(bits, m + L) = z \o b
  <2> DEFINE t == z \o b  e == Bin(bits, m + L)
  <2>1. t \in Seq(0..1) /\ Len(t) = m + L
    BY <1>2, <1>3, <1>6
  <2>2. e \in Seq(0..1) /\ Len(e) = m + L
    BY <1>2, BitStrings, Zenon
  <2>3. \A k \in 1..(m + L) : e[k] = IF (m + L) - k \in bits THEN 1 ELSE 0
    BY DEF Bin
  <2> HIDE DEF e
  <2>4. ASSUME NEW k \in 1..(m + L) PROVE e[k] = t[k]
    <3>1. CASE k <= L
      <4>1. t[k] = 0
        BY <1>2, <1>3, <1>6, <3>1
      <4>2. (m + L) - k \notin bits
        BY <1>2, <1>5, <3>1
      <4>3. QED
        BY <2>3, <4>1, <4>2, Zenon
    <3>2. CASE k > L
      <4>1. t[k] = b[k - L] /\ k - L \in 1..m /\ m - (k - L) = (m + L) - k /\ (m + L) - k \in 0..(m - 1)
        BY <1>2, <1>3, <1>6, <3>2
      <4>2. t[k] = Bit(ds, (m + L) - k)
        BY <1>4, <4>1, Zenon
      <4>3. t[k] \in 0..1 /\ ((m + L) - k \in bits <=> t[k] = 1)
        BY <1>3, <1>5, <4>1, <4>2, Zenon
      <4> HIDE DEF t
      <4>4. t[k] = 0 \/ t[k] = 1
        BY <4>3
      <4>5. QED
        BY <2>3, <4>3, <4>4
    <3>3. k <= L \/ k > L
      BY <1>2
    <3>4. QED
      BY <3>1, <3>2, <3>3, Zenon
  <2> HIDE DEF t
  <2>5. e = t
    BY <2>1, <2>2, <2>4
  <2>6. QED
    BY <2>5 DEF e, t
<1>8. NumberOf(Bin(bits, m + L), 2) = N
  <2>1. NumberOf(z, 2) = 0
    BY <1>6, AllZero, Zenon
  <2>2. NumberOf(z \o b, 2) = NumberOf(b, 2)
    BY <1>3, <1>6, <2>1, ZerosInFront, Zenon
  <2>3. NumberOf(b, 2) = N
    BY OctalNumber, Zenon DEF b
  <2>4. QED
    BY <1>7, <2>2, <2>3, Zenon
<1>9. /\ h \in Seq(0..1) /\ Len(h) = m /\ l \in Seq(0..1) /\ Len(l) = L
      /\ Bin(bits, m + L) = h \o l
  BY <1>2, BitStrings, Zenon
<1>10. \A k \in 1..m : h[k] = IF (m + L) - k \in bits THEN 1 ELSE 0
  BY <1>2, Zenon DEF Top
<1>11. Bin(low, L) = l
  <2>1. \A k \in 1..L : L - k \in low <=> L - k \in bits
    BY <1>2, <1>5
  <2> HIDE DEF low
  <2>2. QED
    BY <2>1, Zenon DEF Bin
<1>12. (\A k \in 1..m : h[k] = 0) <=> shifts = {}
  <2>1. (\A k \in 1..m : h[k] = 0) => bits \ low = {}
    <3> SUFFICES ASSUME \A k \in 1..m : h[k] = 0, NEW i \in bits, i \notin low PROVE FALSE
      OBVIOUS
    <3>1. i \in 0..(m - 1) /\ i >= L
      BY <1>2, <1>5
    <3>2. (m + L) - i \in 1..m /\ (m + L) - ((m + L) - i) = i
      BY <1>2, <3>1
    <3> HIDE DEF h, low
    <3>3. h[(m + L) - i] = 1
      BY <1>10, <3>2, Zenon
    <3>4. 1 # 0
      OBVIOUS
    <3>5. QED
      BY <3>2, <3>3, <3>4, Zenon
  <2>2. bits \ low = {} => \A k \in 1..m : h[k] = 0
    <3> SUFFICES ASSUME bits \ low = {}, NEW k \in 1..m PROVE h[k] = 0
      OBVIOUS
    <3>1. (m + L) - k >= L
      BY <1>2
    <3>2. (m + L) - k \notin bits
      <4>1. (m + L) - k \in bits => (m + L) - k \in low
        OBVIOUS
      <4>2. (m + L) - k \in low => (m + L) - k < L
        OBVIOUS
      <4> HIDE DEF low
      <4>3. QED
        BY <1>2, <3>1, <4>1, <4>2
    <3> HIDE DEF h
    <3>3. QED
      BY <1>10, <3>2, Zenon
  <2> HIDE DEF h, low
  <2>3. shifts = {} <=> bits \ low = {}
    OBVIOUS
  <2>4. QED
    BY <2>1, <2>2, <2>3, Zenon
<1>13. low \in SUBSET (0..(L - 1))
  <2>1. \A i \in low : i \in bits /\ i < L
    OBVIOUS
  <2> HIDE DEF low
  <2>2. ASSUME NEW i \in low PROVE i \in 0..(L - 1)
    <3>1. i \in 0..(m - 1) /\ i < L
      BY <1>5, <2>1, Zenon
    <3>2. QED
      BY <1>2, <3>1
  <2>3. QED
    BY <2>2
<1>14. shifts \in SUBSET (0..(WordBits - 1))
  <2>1. WordBits \in Nat /\ WordBits > 0
    BY LowBits
  <2>2. \A i \in Int : i % WordBits \in 0..(WordBits - 1)
    BY <2>1
  <2>3. \A i \in bits : i + 1 - L \in Int
    BY <1>2, <1>5
  <2> HIDE DEF low
  <2>4. QED
    BY <2>2, <2>3
<1> HIDE DEF low, shifts, h, l
<1>15. u = NumberOf(l, 2)
  <2>1. L \in 0..32 /\ L <= WordBits
    BY LowBits DEF L
  <2>2. word(low) = NumberOf(Bin(low, L), 2)
    BY <1>13, <2>1, BitsWordMakes, Zenon DEF word
  <2>3. QED
    BY <1>11, <2>2, Zenon
<1> DEFINE c == Bin(shifts, WordBits)
<1>16. v = NumberOf(c, 2) /\ c \in Seq(0..1) /\ Len(c) = WordBits
  <2>1. WordBits \in 0..32 /\ WordBits <= WordBits /\ WordBits \in Nat /\ 0 \in 0..WordBits
    BY LowBits
  <2>2. word(shifts) = NumberOf(Bin(shifts, WordBits), 2)
    BY <1>14, <2>1, BitsWordMakes, Zenon DEF word
  <2>3. QED
    BY <2>1, <2>2, BitStrings, Zenon
<1>17. (\A k \in 1..WordBits : c[k] = 0) <=> shifts = {}
  <2>1. \A k \in 1..WordBits : c[k] = IF WordBits - k \in shifts THEN 1 ELSE 0
    BY DEF Bin
  <2> HIDE DEF c
  <2>2. ASSUME NEW j \in shifts PROVE WordBits - j \in 1..WordBits /\ WordBits - (WordBits - j) = j
    BY <1>14, LowBits
  <2>3. 1 # 0
    OBVIOUS
  <2>4. (\A k \in 1..WordBits : c[k] = 0) => shifts = {}
    <3>1. ASSUME NEW j \in shifts PROVE c[WordBits - j] = 1
      BY <2>1, <2>2, Zenon
    <3>2. QED
      BY <2>2, <2>3, <3>1, Zenon
  <2>5. shifts = {} => \A k \in 1..WordBits : c[k] = 0
    BY <2>1
  <2>6. QED
    BY <2>4, <2>5, Zenon
<1> HIDE DEF c, v, u, N
<1>18. v \in Nat /\ v < Half /\ (v = 0 <=> shifts = {})
  <2>1. c \in Seq(Nat) /\ 2 \in Nat /\ << >> \in Seq(Nat) /\ Len(c) <= 32
    BY <1>16, LowBits
  <2>2. NumberOf(c, 2) < 2^Len(c)
    BY <1>16, <2>1, BitsJoined, Zenon
  <2>3. NumberOf(c, 2) \in Nat
    BY <2>1, NumberNat, Zenon
  <2>4. NumberOf(c, 2) = 0 <=> shifts = {}
    BY <1>16, <1>17, AllZero, Zenon
  <2>5. 2^Len(c) = Half
    BY <1>16, LowBits, Zenon
  <2>6. QED
    BY <1>16, <2>2, <2>3, <2>4, <2>5, Zenon
<1> DEFINE t == NumberOf(h, 2)  q == 2^L
<1>19. N = t * q + u /\ u < q /\ u \in Nat /\ t \in Nat /\ (t = 0 <=> shifts = {})
  <2>1. h \in Seq(Nat) /\ l \in Seq(Nat) /\ 2 \in Nat /\ Len(l) <= 32
    BY <1>9, LowBits DEF L
  <2>2. /\ NumberOf(h \o l, 2) = NumberOf(h, 2) * 2^Len(l) + NumberOf(l, 2)
        /\ NumberOf(l, 2) < 2^Len(l)
    BY <1>9, <2>1, BitsJoined, Zenon
  <2>3. NumberOf(l, 2) \in Nat /\ NumberOf(h, 2) \in Nat
    BY <2>1, NumberNat, Zenon
  <2>4. NumberOf(h, 2) = 0 <=> shifts = {}
    BY <1>9, <1>12, AllZero, Zenon
  <2>5. QED
    BY <1>8, <1>9, <1>15, <2>2, <2>3, <2>4, Zenon
<1>20. q \in Nat /\ q <= Half
  BY LowBits, Zenon DEF L
<1>21. Half \in Nat /\ Half > 0
  BY LimbPowers
<1> HIDE DEF t, q
<1>22. u < Half
  BY <1>19, <1>20, <1>21
<1>23. Val(uint64(v, u)) = v * Half + u
  <2>1. uint64(v, u) = [hi |-> v, lo |-> u]
    BY <1>18, <1>19, <1>22, Word, Zenon
  <2>2. QED
    BY <2>1 DEF Val
<1>24. \A k, n \in Nat : (k # 0 => k * n >= n) /\ 0 * n = 0 /\ k * n \in Nat
  BY SMT
<1>25. ASSUME N < q PROVE Val(uint64(v, u)) = N
  <2>1. t = 0
    <3>1. t # 0 => t * q >= q /\ t * q \in Nat
      BY <1>19, <1>20, <1>24, Zenon
    <3>2. QED
      BY <1>19, <1>20, <1>25, <3>1
  <2>2. v = 0
    BY <1>18, <1>19, <2>1, Zenon
  <2>3. t * q = 0 /\ v * Half = 0
    BY <1>20, <1>21, <1>24, <2>1, <2>2, Zenon
  <2>4. QED
    BY <1>19, <1>23, <2>3, Zenon
<1>26. ASSUME N >= q PROVE Val(uint64(v, u)) >= Half
  <2>1. t # 0
    <3>1. 0 * q = 0
      BY <1>20, <1>24, Zenon
    <3>2. SUFFICES ASSUME t = 0 PROVE FALSE
      OBVIOUS
    <3>3. N = 0 + u
      BY <1>19, <3>1, <3>2, Zenon
    <3>4. QED
      BY <1>19, <1>20, <1>26, <3>3
  <2>2. v # 0
    BY <1>18, <1>19, <2>1, Zenon
  <2>3. v * Half >= Half /\ v * Half \in Nat
    BY <1>18, <1>21, <1>24, <2>2, Zenon
  <2>4. v * Half + u >= Half
    BY <1>19, <1>21, <2>3
  <2>5. QED
    BY <1>23, <2>4, Zenon
<1>27. QED
  BY <1>1, <1>25, <1>26, Zenon DEF N, q, L

(***************************************************************************)
(* A string of digits given to the constructor makes the number it denotes *)
(* modulo 2^64; of the octal strings only those of a number that fits in   *)
(* the low bits do, and those of a greater one that fits in a word never.  *)
(***************************************************************************)
THEOREM StringsMakeTheirNumbers == ArithmeticSpec => StringsDenote
<1> DEFINE Denotes(numeral) ==
             LET number == NumberOf(numeral.digits, numeral.base)
                 misplaced == numeral.base = 8 /\ number >= 2^OctalLowBits
             IN /\ ~ misplaced => Val(acc') = number % Modulus
                /\ misplaced /\ number < Half => Val(acc') # number
<1>1. ASSUME NEW numeral \in Numerals, Construct(numeral) PROVE Denotes(numeral)
  <2> DEFINE ds == numeral.digits  B == numeral.base  N == NumberOf(ds, B)
  <2>1. B \in {8, 10, 16} /\ ds \in Seq(Nat) /\ Range(ds) \subseteq 0..(B - 1)
    BY NumeralsAssumption
  <2>2. B \in Nat /\ N \in Nat
    <3>1. B \in Nat
      BY <2>1
    <3> HIDE DEF B, ds
    <3>2. QED
      BY <2>1, <3>1, NumberNat
  <2>3. ds \in Seq(0..(B - 1))
    <3>1. \A i \in 1..Len(ds) : ds[i] \in 0..(B - 1)
      BY <2>1 DEF Range
    <3>2. ds \in [1..Len(ds) -> 0..(B - 1)] /\ Len(ds) \in Nat
      BY <2>1, <3>1
    <3> DEFINE T == 0..(B - 1)
    <3>3. ds \in [1..Len(ds) -> T] /\ Len(ds) \in Nat
      BY <3>2
    <3> HIDE DEF T, ds
    <3>4. ds \in Seq(T)
      BY <3>3
    <3>5. QED
      BY <3>4 DEF T
  <2>4. acc' = New(numeral) /\ ~ (B = 16 /\ HexTooLarge(ds))
    BY <1>1 DEF Construct
  <2>5. CASE B = 10
    <3>1. ds \in Seq(0..9) /\ 10 # 8
      BY <2>3, <2>5
    <3>2. acc' = OfDecimal(ds)
      BY <2>4, <2>5 DEF New
    <3>3. acc' \in Words /\ Same(Val(acc'), N)
      BY <2>1, <2>5, <3>1, <3>2, DecimalWord, DecimalMakes, Zenon
    <3>4. Val(acc') \in Nat /\ Val(acc') < Modulus
      BY <3>3, Parts
    <3> HIDE DEF N
    <3>5. Val(acc') = N % Modulus
      BY <2>2, <3>3, <3>4, SameRemainder
    <3>6. QED
      BY <2>5, <3>1, <3>5, Zenon DEF N
  <2>6. CASE B = 16
    <3>1. ds \in Seq(0..15) /\ 16 # 8
      BY <2>3, <2>6
    <3>2. acc' = OfHex(ds)
      BY <2>4, <2>6 DEF New
    <3>3. Val(acc') = N /\ N < Modulus
      BY <2>4, <2>6, <3>1, <3>2, HexMakes, Zenon
    <3> HIDE DEF N
    <3>4. N = N % Modulus
      BY <2>2, <3>3, LimbPowers
    <3>5. QED
      BY <2>6, <3>1, <3>3, <3>4, Zenon DEF N
  <2>7. CASE B = 8
    <3>1. ds \in Seq(0..7)
      BY <2>3, <2>7
    <3>2. acc' = OfOctal(ds)
      BY <2>4, <2>7 DEF New
    <3>3. (N < 2^OctalLowBits => Val(acc') = N) /\ (N >= 2^OctalLowBits => Val(acc') >= Half)
      BY <2>7, <3>1, <3>2, OctalMakes, Zenon
    <3> HIDE DEF N
    <3>4. N < 2^OctalLowBits => N = N % Modulus
      <4>1. Half <= Half * Half
        BY LimbPowers, NoGreater, SMT
      <4>2. QED
        BY <2>2, <4>1, LimbPowers, LowBits
    <3>5. N < 2^OctalLowBits \/ N >= 2^OctalLowBits
      BY <2>2, LowBits
    <3>6. Val(acc') \in Nat
      BY <2>1, <3>2, OctalWord, Parts
    <3>7. N >= 2^OctalLowBits /\ N < Half => Val(acc') # N
      BY <2>2, <3>3, <3>6, LimbPowers
    <3>8. QED
      BY <2>7, <3>3, <3>4, <3>5, <3>7, Zenon DEF N
  <2>8. QED
    BY <2>1, <2>5, <2>6, <2>7
<1>2. \A numeral \in Numerals : Construct(numeral) => Denotes(numeral)
  BY <1>1
<1>3. QED
  BY <1>2, PTL DEF StringsDenote
=============================================================================
